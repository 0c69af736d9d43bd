--------------------- MODULE DisaggregatedServingProofs ---------------------
(***************************************************************************)
(* Theorems about DisaggregatedServing, for any number of requests,        *)
(* replicas and blocks, from one inductive invariant.                      *)
(*                                                                         *)
(* The argument follows a request on its way.  It waits (requestQueue,     *)
(* pending_reqs), is reserved and from then on recorded by the decode      *)
(* worker (phase), while the prefill worker's side of it is at exactly one *)
(* station: asked for on toPrefill, behind the grammar gate, in ce, in     *)
(* pending_first_token, in responses, or answered on toDecode.  It is at   *)
(* no station once the decode worker knows of its transfer or runs it.     *)
(***************************************************************************)
EXTENDS DisaggregatedServing, FiniteSetTheorems, TLAPS

\* The prover of every leaf that names no other.
USE ZenonT(120)

-----------------------------------------------------------------------------
(* Sequences without repetitions, and queues of messages. *)

Distinct(s) == \A i, j \in DOMAIN s : s[i] = s[j] => i = j

\* The ids of the messages of a kind, and that no two of them are of one id.
Ids(q, kind) == {q[i].id : i \in {j \in DOMAIN q : q[j].kind = kind}}
DistinctIds(q, kind) ==
    \A i, j \in DOMAIN q :
        q[i].kind = kind /\ q[j].kind = kind /\ q[i].id = q[j].id => i = j

ToPrefill == [kind : {"prefill"}, id : Requests, blocks : SUBSET Blocks]
               \cup [kind : {"cancel"}, id : Requests] \cup {Metadata}
ToDecode == [kind : {"response"}, id : Requests] \cup {Metadata}

\* Appending an element adds it, and keeps a sequence free of repetitions if
\* the element is new.
LEMMA AppendElements ==
  ASSUME NEW S, NEW s \in Seq(S), NEW e \in S
  PROVE  /\ Append(s, e) \in Seq(S)
         /\ Elements(Append(s, e)) = Elements(s) \cup {e}
         /\ Distinct(s) /\ e \notin Elements(s) => Distinct(Append(s, e))
  BY SMTT(60) DEF Elements, Distinct

\* Appending adds one index and moves nothing.
LEMMA AppendIndex ==
  ASSUME NEW S, NEW s \in Seq(S), NEW e,
         NEW i \in DOMAIN Append(s, e)
  PROVE  \/ i \in DOMAIN s /\ Append(s, e)[i] = s[i]
         \/ i = Len(s) + 1 /\ Append(s, e)[i] = e
BY SMTT(60)

\* Taking the head moves the rest down by one.
LEMMA TailIndex ==
  ASSUME NEW S, NEW s \in Seq(S), s # <<>>, NEW i \in DOMAIN Tail(s)
  PROVE  i + 1 \in DOMAIN s /\ Tail(s)[i] = s[i + 1]
BY SMTT(60)

\* Taking the head of a sequence without repetitions takes it for good.
LEMMA TailElements ==
  ASSUME NEW S, NEW s \in Seq(S), s # <<>>
  PROVE  /\ Tail(s) \in Seq(S) /\ Head(s) \in S
         /\ Elements(s) = Elements(Tail(s)) \cup {Head(s)}
         /\ Distinct(s) => Distinct(Tail(s)) /\ Head(s) \notin Elements(Tail(s))
<1>1. /\ Tail(s) \in Seq(S) /\ Head(s) = s[1] /\ Len(s) \in Nat \ {0}
      /\ DOMAIN s = 1 .. Len(s) /\ DOMAIN Tail(s) = 1 .. Len(s) - 1
      /\ s[1] \in S /\ \A i \in 1 .. Len(s) - 1 : Tail(s)[i] = s[i + 1]
  BY SMTT(60)
<1>2. ASSUME NEW i \in 1 .. Len(s)
      PROVE  s[i] \in Elements(Tail(s)) \cup {Head(s)}
  <2>1. CASE i = 1 BY <1>1, <2>1
  <2>2. CASE i # 1
    <3>1. i - 1 \in 1 .. Len(s) - 1 /\ Tail(s)[i - 1] = s[i] BY <1>1, <2>2, SMTT(60)
    <3>. QED BY <1>1, <3>1 DEF Elements
  <2>. QED BY <2>1, <2>2
<1>3. Elements(Tail(s)) \cup {Head(s)} \subseteq Elements(s) BY <1>1, SMTT(60) DEF Elements
<1>4. Elements(s) = Elements(Tail(s)) \cup {Head(s)}
  BY <1>1, <1>2, <1>3, SMTT(60) DEF Elements
<1>5. ASSUME Distinct(s) PROVE Distinct(Tail(s)) /\ Head(s) \notin Elements(Tail(s))
  BY <1>1, <1>5, SMTT(60) DEF Elements, Distinct
<1>. QED BY <1>1, <1>4, <1>5

\* Cutting a sequence without repetitions gives two disjoint ones.
LEMMA CutElements ==
  ASSUME NEW S, NEW s \in Seq(S), NEW n \in 0 .. Len(s)
  PROVE  /\ SubSeq(s, 1, n) \in Seq(S) /\ Len(SubSeq(s, 1, n)) = n
         /\ SubSeq(s, n + 1, Len(s)) \in Seq(S)
         /\ Elements(s) = Elements(SubSeq(s, 1, n))
                            \cup Elements(SubSeq(s, n + 1, Len(s)))
         /\ Distinct(s) =>
              /\ Distinct(SubSeq(s, 1, n)) /\ Distinct(SubSeq(s, n + 1, Len(s)))
              /\ Elements(SubSeq(s, 1, n))
                   \cap Elements(SubSeq(s, n + 1, Len(s))) = {}
<1>. DEFINE a == SubSeq(s, 1, n)
            b == SubSeq(s, n + 1, Len(s))
<1>1. Len(s) \in Nat /\ DOMAIN s = 1 .. Len(s) /\ n \in Nat /\ n <= Len(s)
  BY SMTT(60)
<1>2. /\ a \in Seq(S) /\ Len(a) = n /\ DOMAIN a = 1 .. n
      /\ \A i \in 1 .. n : a[i] = s[i]
  BY <1>1, SMTT(60)
<1>3. /\ b \in Seq(S) /\ DOMAIN b = 1 .. Len(s) - n
      /\ \A i \in 1 .. Len(s) - n : b[i] = s[n + i]
  BY <1>1, SMTT(60)
<1>. HIDE DEF a, b
<1>4. /\ \A i \in DOMAIN a : i \in DOMAIN s /\ i <= n /\ a[i] = s[i]
      /\ \A i \in DOMAIN b : n + i \in DOMAIN s /\ ~(n + i <= n) /\ b[i] = s[n + i]
  BY <1>1, <1>2, <1>3, SMTT(60)
<1>5. ASSUME NEW i \in 1 .. Len(s) PROVE s[i] \in Elements(a) \cup Elements(b)
  <2>1. CASE i <= n BY <1>1, <1>2, <2>1, SMTT(60) DEF Elements
  <2>2. CASE i > n
    <3>1. i - n \in 1 .. Len(s) - n /\ n + (i - n) = i BY <1>1, <2>2, SMTT(60)
    <3>2. b[i - n] = s[i] BY <1>3, <3>1
    <3>. QED BY <1>3, <3>1, <3>2 DEF Elements
  <2>. QED BY <1>1, <2>1, <2>2, SMTT(60)
<1>6. Elements(s) = Elements(a) \cup Elements(b)
  <2>1. Elements(a) \subseteq Elements(s) BY <1>4, SMTT(60) DEF Elements
  <2>2. Elements(b) \subseteq Elements(s) BY <1>4, SMTT(60) DEF Elements
  <2>3. Elements(s) \subseteq Elements(a) \cup Elements(b)
    BY <1>1, <1>5 DEF Elements
  <2>. QED BY <2>1, <2>2, <2>3
<1>7. ASSUME Distinct(s) PROVE Distinct(a) /\ Distinct(b)
  <2>1. Distinct(a) BY <1>4, <1>7 DEF Distinct
  <2>2. ASSUME NEW i \in DOMAIN b, NEW j \in DOMAIN b, b[i] = b[j] PROVE i = j
    <3>1. n + i = n + j BY <1>4, <1>7, <2>2 DEF Distinct
    <3>. QED BY <1>1, <1>3, <3>1, SMTT(60)
  <2>. QED BY <2>1, <2>2 DEF Distinct
<1>8. ASSUME Distinct(s) PROVE Elements(a) \cap Elements(b) = {}
  <2>. SUFFICES ASSUME NEW i \in DOMAIN a, NEW j \in DOMAIN b, a[i] = b[j]
                PROVE  FALSE
    BY DEF Elements
  <2>1. i = n + j BY <1>4, <1>8 DEF Distinct
  <2>. QED BY <1>4, <2>1
<1>. QED BY <1>2, <1>3, <1>6, <1>7, <1>8 DEF a, b

\* Joining two disjoint sequences without repetitions gives one without.
LEMMA JoinElements ==
  ASSUME NEW S, NEW s \in Seq(S), NEW t \in Seq(S)
  PROVE  /\ s \o t \in Seq(S)
         /\ Elements(s \o t) = Elements(s) \cup Elements(t)
         /\ Distinct(s) /\ Distinct(t) /\ Elements(s) \cap Elements(t) = {}
              => Distinct(s \o t)
<1>. DEFINE u == s \o t
<1>1. /\ u \in Seq(S) /\ Len(s) \in Nat /\ Len(t) \in Nat
      /\ DOMAIN s = 1 .. Len(s) /\ DOMAIN t = 1 .. Len(t)
      /\ DOMAIN u = 1 .. Len(s) + Len(t)
      /\ \A i \in 1 .. Len(s) : u[i] = s[i]
  BY SMTT(60)
<1>2. \A i \in 1 .. Len(t) : u[Len(s) + i] = t[i]
  BY <1>1, SMTT(60)
<1>. HIDE DEF u
<1>3. ASSUME NEW i \in DOMAIN u, i \notin DOMAIN s
      PROVE  i - Len(s) \in DOMAIN t /\ u[i] = t[i - Len(s)]
  <2>1. i - Len(s) \in 1 .. Len(t) /\ Len(s) + (i - Len(s)) = i BY <1>1, <1>3, SMTT(60)
  <2>. QED BY <1>1, <1>2, <2>1
<1>4. Elements(u) \subseteq Elements(s) \cup Elements(t) BY <1>1, <1>3 DEF Elements
<1>5. Elements(s) \cup Elements(t) \subseteq Elements(u)
  <2>1. Elements(s) \subseteq Elements(u) BY <1>1, SMTT(60) DEF Elements
  <2>2. \A i \in DOMAIN t : Len(s) + i \in DOMAIN u BY <1>1, SMTT(60)
  <2>3. Elements(t) \subseteq Elements(u) BY <1>1, <1>2, <2>2 DEF Elements
  <2>. QED BY <2>1, <2>3
<1>6. ASSUME Distinct(s), Distinct(t), Elements(s) \cap Elements(t) = {},
             NEW i \in DOMAIN u, NEW j \in DOMAIN u, u[i] = u[j]
      PROVE  i = j
  <2>1. i \in DOMAIN s <=> j \in DOMAIN s BY <1>1, <1>3, <1>6 DEF Elements
  <2>2. CASE i \in DOMAIN s BY <1>1, <1>6, <2>1, <2>2 DEF Distinct
  <2>3. CASE i \notin DOMAIN s
    <3>1. i - Len(s) = j - Len(s) BY <1>3, <1>6, <2>1, <2>3 DEF Distinct
    <3>. QED BY <1>1, <3>1, SMTT(60)
  <2>. QED BY <2>2, <2>3
<1>. QED BY <1>1, <1>4, <1>5, <1>6 DEF u, Distinct

\* A message sent adds its id to the ids of its kind, and to no other's.
LEMMA AppendIds ==
  ASSUME NEW S, NEW q \in Seq(S), NEW m \in S, NEW kind
  PROVE  /\ m.kind = kind => Ids(Append(q, m), kind) = Ids(q, kind) \cup {m.id}
         /\ m.kind # kind => Ids(Append(q, m), kind) = Ids(q, kind)
         /\ DistinctIds(q, kind) /\ (m.kind = kind => m.id \notin Ids(q, kind))
              => DistinctIds(Append(q, m), kind)
<1>. DEFINE u == Append(q, m)
<1>1. /\ Len(q) \in Nat /\ DOMAIN q = 1 .. Len(q) /\ DOMAIN u = 1 .. Len(q) + 1
      /\ \A i \in 1 .. Len(q) : u[i] = q[i]
      /\ u[Len(q) + 1] = m
  BY SMTT(60)
<1>. HIDE DEF u
<1>2. DOMAIN u = DOMAIN q \cup {Len(q) + 1} BY <1>1, SMTT(60)
<1>3. m.kind = kind => Ids(u, kind) = Ids(q, kind) \cup {m.id} BY <1>1, <1>2, SMTT(60) DEF Ids
<1>4. m.kind # kind => Ids(u, kind) = Ids(q, kind) BY <1>1, <1>2 DEF Ids
<1>5. ASSUME DistinctIds(q, kind), m.kind = kind => m.id \notin Ids(q, kind)
      PROVE  DistinctIds(u, kind)
  BY <1>1, <1>2, <1>5, SMTT(60) DEF DistinctIds, Ids
<1>. QED BY <1>3, <1>4, <1>5 DEF u

\* A message received leaves with its id, if ids of its kind are distinct.
LEMMA TailIds ==
  ASSUME NEW S, NEW q \in Seq(S), q # <<>>, NEW kind
  PROVE  /\ Head(q).kind = kind =>
              Ids(q, kind) = Ids(Tail(q), kind) \cup {Head(q).id}
         /\ Head(q).kind # kind => Ids(Tail(q), kind) = Ids(q, kind)
         /\ DistinctIds(q, kind) =>
              /\ DistinctIds(Tail(q), kind)
              /\ Head(q).kind = kind => Head(q).id \notin Ids(Tail(q), kind)
<1>. DEFINE u == Tail(q)
<1>1. /\ Head(q) = q[1] /\ Len(q) \in Nat \ {0}
      /\ DOMAIN q = 1 .. Len(q) /\ DOMAIN u = 1 .. Len(q) - 1
      /\ \A i \in 1 .. Len(q) - 1 : u[i] = q[i + 1]
  BY SMTT(60)
<1>. HIDE DEF u
<1>2. \A i \in DOMAIN q : i = 1 \/ (i - 1 \in DOMAIN u /\ u[i - 1] = q[i])
  BY <1>1, SMTT(60)
<1>3. \A i \in DOMAIN u : i + 1 \in DOMAIN q /\ i + 1 # 1 /\ u[i] = q[i + 1]
  BY <1>1, SMTT(60)
<1>4. Ids(u, kind) \subseteq Ids(q, kind) BY <1>3 DEF Ids
<1>5. Head(q).kind = kind => Ids(q, kind) = Ids(u, kind) \cup {Head(q).id}
  <2>. SUFFICES ASSUME Head(q).kind = kind
                PROVE  Ids(q, kind) \subseteq Ids(u, kind) \cup {Head(q).id}
                       /\ Head(q).id \in Ids(q, kind)
    BY <1>4
  <2>1. Head(q).id \in Ids(q, kind) BY <1>1, SMTT(60) DEF Ids
  <2>2. Ids(q, kind) \subseteq Ids(u, kind) \cup {Head(q).id} BY <1>1, <1>2, SMTT(60) DEF Ids
  <2>. QED BY <2>1, <2>2
<1>6. Head(q).kind # kind => Ids(u, kind) = Ids(q, kind)
  BY <1>1, <1>2, <1>4, SMTT(60) DEF Ids
<1>7. ASSUME DistinctIds(q, kind)
      PROVE  DistinctIds(u, kind) /\ (Head(q).kind = kind => Head(q).id \notin Ids(u, kind))
  BY <1>1, <1>3, <1>7, SMTT(60) DEF DistinctIds, Ids
<1>. QED BY <1>5, <1>6, <1>7 DEF u

-----------------------------------------------------------------------------
(* The inductive invariant. *)

Answers == {"none", "stream", "twice", "repeated"} \cup Terminal

Types ==
    /\ submitted \subseteq Requests /\ left \subseteq Requests
    /\ cancelQueue \subseteq left
    /\ requestQueue \in Seq(Requests) /\ pending_reqs \in Seq(Requests)
    /\ answer \in [Requests -> Answers]
    /\ phase \in [Requests -> Phases]
    /\ expired \subseteq InFlight
    /\ held \in [Requests -> SUBSET Blocks]
    /\ tg \subseteq Requests
    /\ toPrefill \in Seq(ToPrefill) /\ toDecode \in Seq(ToDecode)
    /\ write \in [Requests -> {"none", "posted", "landed"}]
    /\ dst \in [Requests -> SUBSET Blocks]
    /\ gate \subseteq Requests /\ ce \in Seq(Requests)
    /\ pending_first_token \in Seq(Requests) /\ responses \in Seq(Requests)
    /\ active_transfers \subseteq Requests

\* The prefill worker's pool is never over-committed.
Room ==
    /\ IsFiniteSet(active_transfers)
    /\ Len(pending_first_token) + Len(responses)
         + Cardinality(active_transfers) <= PrefillSlots
    /\ ppc \in {"requests", "batch"} => responses = <<>>

Waiting == Elements(requestQueue) \cup Elements(pending_reqs)

\* The stations of the prefill worker's side.
Asked == Ids(toPrefill, "prefill")
Encoding == gate \cup Elements(ce) \cup Elements(pending_first_token)
              \cup Elements(responses)
Replied == Ids(toDecode, "response")
AtStation == Asked \cup Encoding \cup Replied

\* A request waits once, and not after it was reserved.
WaitsOnce ==
    /\ Waiting \subseteq submitted
    /\ Distinct(requestQueue) /\ Distinct(pending_reqs)
    /\ Elements(requestQueue) \cap Elements(pending_reqs) = {}
    /\ AtStation \cup InFlight \cup tg \subseteq submitted \ Waiting

\* A request is at one station at most, once.
OneStation ==
    /\ DistinctIds(toPrefill, "prefill") /\ DistinctIds(toDecode, "response")
    /\ Distinct(ce) /\ Distinct(pending_first_token) /\ Distinct(responses)
    /\ Asked \cap (Encoding \cup Replied) = {}
    /\ Encoding \cap Replied = {}
    /\ gate \cap (Elements(ce) \cup Elements(pending_first_token)
                    \cup Elements(responses)) = {}
    /\ Elements(ce) \cap (Elements(pending_first_token)
                            \cup Elements(responses)) = {}
    /\ Elements(pending_first_token) \cap Elements(responses) = {}

\* A request runs or is recorded, not both, and is at no station once the
\* decode worker knows of its transfer.
Recorded ==
    /\ tg \cap InFlight = {}
    /\ AtStation \cap (Transferring \cup tg) = {}

\* The blocks the prefill worker was or will be told are the blocks held.
OwnBlocks ==
    /\ \A i \in DOMAIN toPrefill :
         toPrefill[i].kind = "prefill" /\ toPrefill[i].id \in InFlight
           => toPrefill[i].blocks = held[toPrefill[i].id]
    /\ \A r \in InFlight \cap (Encoding \cup Replied \cup Transferring) :
         dst[r] = held[r]

\* A cancellation is handled once.  A request whose stream is over for good
\* neither waits nor runs, and if still recorded is marked cancelled; one that
\* was done with its first token may still run, or wait for its transfer.
Ended ==
    /\ cancelled \subseteq Transferring \cap left
    /\ cancelled \cap cancelQueue = {}
    /\ \A r \in Requests :
         /\ answer[r] # "repeated"
         /\ answer[r] = "first" =>
              r \in submitted \ Waiting /\ (r \in InFlight => r \in Transferring \ cancelled)
         /\ answer[r] \in {"done", "cancelled", "twice"} =>
              r \in submitted \ (Waiting \cup tg) /\ (r \in InFlight => r \in cancelled)

Inv == Types /\ Room /\ WaitsOnce /\ OneStation /\ Recorded /\ OwnBlocks /\ Ended

-----------------------------------------------------------------------------
(* What the parts of a step do to the sets the invariant is about. *)

PrefillStations == <<gate, ce, pending_first_token, responses>>

\* What leaves the queues alone leaves the sets alone.
LEMMA SameSets ==
  /\ UNCHANGED <<requestQueue, pending_reqs>> => Waiting' = Waiting
  /\ UNCHANGED toPrefill => Asked' = Asked
  /\ UNCHANGED toDecode => Replied' = Replied
  /\ UNCHANGED PrefillStations => Encoding' = Encoding
  /\ UNCHANGED phase => InFlight' = InFlight /\ Transferring' = Transferring
BY DEF Waiting, Asked, Replied, Encoding, PrefillStations, InFlight, Transferring

\* A request changes its phase.
LEMMA PhaseChange ==
  ASSUME phase \in [Requests -> Phases], NEW r \in Requests, NEW p \in Phases,
         phase' = [phase EXCEPT ![r] = p]
  PROVE  /\ phase' \in [Requests -> Phases]
         /\ p = "none" =>
              InFlight' = InFlight \ {r} /\ Transferring' = Transferring \ {r}
         /\ p = "AWAITING_PREFILL" =>
              InFlight' = InFlight \cup {r} /\ Transferring' = Transferring \ {r}
         /\ p = "TRANSFERRING" =>
              InFlight' = InFlight \cup {r} /\ Transferring' = Transferring \cup {r}
BY DEF InFlight, Transferring, Phases

\* A client is told something: the others' answers stay.
LEMMA TellOne ==
  ASSUME answer \in [Requests -> Answers], NEW r \in Requests, NEW what \in Answers,
         Tell(r, what)
  PROVE  /\ answer' \in [Requests -> Answers]
         /\ answer'[r] = Told(r, what) /\ Told(r, what) \in {"twice", "repeated", what}
         /\ \A x \in Requests \ {r} : answer'[x] = answer[x]
BY DEF Tell, TellAll, Told, Answers

\* The messages of the two sockets, by their kind.
LEMMA MessageKinds ==
  /\ \A m \in ToPrefill : m.kind = "prefill" => m.id \in Requests /\ m.blocks \subseteq Blocks
  /\ \A m \in ToPrefill : m.kind = "cancel" => m.id \in Requests
  /\ \A m \in ToDecode : m.kind = "response" => m.id \in Requests
  /\ \A r \in Requests : Message("cancel", r) \in ToPrefill /\ Message("response", r) \in ToDecode
  /\ \A r \in Requests, b \in SUBSET Blocks : PrefillRequest(r, b) \in ToPrefill
  /\ Metadata \in ToPrefill /\ Metadata \in ToDecode
BY SMTT(60) DEF ToPrefill, ToDecode, Message, PrefillRequest, Metadata

-----------------------------------------------------------------------------
(* The steps of the clients and of the reservation of memory keep it. *)

\* submit: the request is new.
LEMMA SubmitInv == ASSUME Inv, NEW r \in Requests, Submit(r) PROVE Inv'
<1>. USE DEF Inv, Submit, decodeRecord, running, engine, prefill
<1>1. /\ requestQueue' \in Seq(Requests)
      /\ Elements(requestQueue') = Elements(requestQueue) \cup {r}
      /\ r \notin Elements(requestQueue)
      /\ Distinct(requestQueue')
  BY AppendElements, SMTT(60) DEF Types, WaitsOnce, Waiting
<1>2. Waiting' = Waiting \cup {r} BY <1>1 DEF Waiting
<1>3. /\ Asked' = Asked /\ Replied' = Replied /\ Encoding' = Encoding
      /\ InFlight' = InFlight /\ Transferring' = Transferring
  BY SameSets DEF PrefillStations
<1>4. Types' BY <1>1, <1>3 DEF Types
<1>5. Room' BY DEF Room
<1>6. WaitsOnce'
  <2>1. Waiting' \subseteq submitted' BY <1>2 DEF WaitsOnce
  <2>2. Elements(requestQueue') \cap Elements(pending_reqs') = {}
    BY <1>1 DEF WaitsOnce, Waiting
  <2>3. (AtStation \cup InFlight \cup tg)' \subseteq (submitted \ Waiting)'
    BY <1>2, <1>3 DEF WaitsOnce, AtStation
  <2>. QED BY <1>1, <2>1, <2>2, <2>3 DEF WaitsOnce
<1>7. OneStation' BY <1>3 DEF OneStation
<1>8. Recorded' /\ OwnBlocks' BY <1>3 DEF Recorded, OwnBlocks, AtStation
<1>9. Ended' BY <1>2, <1>3 DEF Ended
<1>. QED BY <1>4, <1>5, <1>6, <1>7, <1>8, <1>9

\* A client leaves: its cancellation was not sent before.
LEMMA CancelInv == ASSUME Inv, NEW r \in Requests, Cancel(r) PROVE Inv'
<1>. USE DEF Inv, Cancel, decodeRecord, running, engine, prefill
<1>1. /\ Waiting' = Waiting /\ Asked' = Asked /\ Replied' = Replied
      /\ Encoding' = Encoding /\ InFlight' = InFlight
      /\ Transferring' = Transferring
  BY SameSets DEF PrefillStations
<1>2. Types' BY <1>1 DEF Types
<1>3. Room' /\ WaitsOnce' BY <1>1 DEF Room, WaitsOnce, AtStation
<1>4. OneStation' BY <1>1 DEF OneStation
<1>5. Recorded' /\ OwnBlocks' BY <1>1 DEF Recorded, OwnBlocks, AtStation
<1>6. Ended' BY <1>1 DEF Ended
<1>. QED BY <1>2, <1>3, <1>4, <1>5, <1>6

\* The steps that only move the decode worker on in its iteration.
LEMMA MoveOnInv ==
  ASSUME Inv, UNCHANGED <<client, answer, pending_reqs, decodeRecord, held, running,
                          remote_endpoints, toPrefill, toDecode, engine, prefill>>
  PROVE  Inv'
<1>. USE DEF Inv, client, decodeRecord, running, engine, prefill
<1>1. /\ Waiting' = Waiting /\ Asked' = Asked /\ Replied' = Replied
      /\ Encoding' = Encoding /\ InFlight' = InFlight
      /\ Transferring' = Transferring
  BY SameSets DEF PrefillStations
<1>2. Types' BY <1>1 DEF Types
<1>3. Room' /\ WaitsOnce' BY <1>1 DEF Room, WaitsOnce, AtStation
<1>4. OneStation' BY <1>1 DEF OneStation
<1>5. Recorded' /\ OwnBlocks' BY <1>1 DEF Recorded, OwnBlocks, AtStation
<1>6. Ended' BY <1>1 DEF Ended
<1>. QED BY <1>2, <1>3, <1>4, <1>5, <1>6

\* Requests move from one queue to the other.
LEMMA DrainInv == ASSUME Inv, DrainRequests PROVE Inv'
<1>. USE DEF Inv, decodeRecord, running, engine, prefill
<1>1. PICK n \in 0 .. Len(requestQueue) :
        /\ pending_reqs' = pending_reqs \o SubSeq(requestQueue, 1, n)
        /\ requestQueue' = SubSeq(requestQueue, n + 1, Len(requestQueue))
  <2>. DEFINE n == IF Len(requestQueue) < 2 * MaxBatch
                     THEN Len(requestQueue) ELSE 2 * MaxBatch
  <2>1. Len(requestQueue) \in Nat BY SMTT(60) DEF Types
  <2>2. n \in 0 .. Len(requestQueue) BY <2>1, BoundsAssumption, SMTT(60)
  <2>3. /\ pending_reqs' = pending_reqs \o SubSeq(requestQueue, 1, n)
        /\ requestQueue' = SubSeq(requestQueue, n + 1, Len(requestQueue))
    BY DEF DrainRequests
  <2>. HIDE DEF n
  <2>. QED BY <2>2, <2>3
<1>2. UNCHANGED <<submitted, cancelQueue, left, answer, decodeRecord, held,
                  running, remote_endpoints, toPrefill, toDecode, engine, prefill>>
  BY DEF DrainRequests
<1>. DEFINE a == SubSeq(requestQueue, 1, n)
<1>3. /\ a \in Seq(Requests) /\ requestQueue' \in Seq(Requests)
      /\ Elements(requestQueue) = Elements(a) \cup Elements(requestQueue')
      /\ Distinct(a) /\ Distinct(requestQueue')
      /\ Elements(a) \cap Elements(requestQueue') = {}
  BY <1>1, CutElements DEF Types, WaitsOnce
<1>. HIDE DEF a
<1>4. /\ pending_reqs' \in Seq(Requests)
      /\ Elements(pending_reqs') = Elements(pending_reqs) \cup Elements(a)
      /\ Distinct(pending_reqs')
  <2>1. pending_reqs' = pending_reqs \o a BY <1>1 DEF a
  <2>2. /\ pending_reqs \in Seq(Requests) /\ Distinct(pending_reqs)
        /\ Elements(pending_reqs) \cap Elements(a) = {}
    BY <1>3 DEF Types, WaitsOnce
  <2>. QED BY <1>3, <2>1, <2>2, JoinElements, SMTT(60)
<1>5. Waiting' = Waiting BY <1>3, <1>4 DEF Waiting
<1>6. /\ Asked' = Asked /\ Replied' = Replied /\ Encoding' = Encoding
      /\ InFlight' = InFlight /\ Transferring' = Transferring
  BY <1>2, SameSets DEF PrefillStations
<1>7. Types' BY <1>2, <1>3, <1>4, <1>6 DEF Types
<1>8. Room' BY <1>2 DEF Room
<1>9. WaitsOnce'
  <2>1. Elements(requestQueue') \cap Elements(pending_reqs') = {}
    BY <1>3, <1>4 DEF WaitsOnce
  <2>. QED BY <1>2, <1>3, <1>4, <1>5, <1>6, <2>1 DEF WaitsOnce, AtStation
<1>10. OneStation' BY <1>2, <1>6 DEF OneStation
<1>11. Recorded' /\ OwnBlocks' BY <1>2, <1>6 DEF Recorded, OwnBlocks, AtStation
<1>12. Ended' BY <1>2, <1>5, <1>6 DEF Ended
<1>. QED BY <1>7, <1>8, <1>9, <1>10, <1>11, <1>12

\* A reservation: the request was at no station and is asked for with the
\* blocks it gets.
LEMMA ReserveInv == ASSUME Inv, ReserveOne PROVE Inv'
<1>. USE DEF Inv, client, running, engine, prefill
<1>. DEFINE r == Head(pending_reqs)
            q == IF "prefill" \in remote_endpoints THEN toPrefill
                   ELSE Append(toPrefill, Metadata)
<1>1. PICK blocks \in SUBSET Blocks :
        /\ pending_reqs' = Tail(pending_reqs)
        /\ held' = [held EXCEPT ![r] = blocks]
        /\ phase' = [phase EXCEPT ![r] = "AWAITING_PREFILL"]
        /\ toPrefill' = Append(q, PrefillRequest(r, blocks))
  <2>1. \A d \in Replicas : FreeBlocks(d) \subseteq Blocks BY DEF FreeBlocks, Blocks
  <2>. QED BY <2>1 DEF ReserveOne
<1>2. UNCHANGED <<client, answer, cancelled, expired, running, toDecode, engine, prefill>>
  BY DEF ReserveOne
<1>3. blocks \subseteq Blocks BY <1>1
<1>4. /\ pending_reqs' \in Seq(Requests) /\ r \in Requests
      /\ Elements(pending_reqs) = Elements(pending_reqs') \cup {r}
      /\ Distinct(pending_reqs') /\ r \notin Elements(pending_reqs')
  <2>1. pending_reqs # <<>> BY DEF ReserveOne, CanReserve
  <2>. QED BY <1>1, <2>1, TailElements DEF Types, WaitsOnce
<1>5. /\ r \in submitted /\ r \notin AtStation \cup InFlight \cup tg
      /\ r \notin Waiting' /\ Waiting = Waiting' \cup {r}
  BY <1>2, <1>4 DEF WaitsOnce, Waiting
<1>6. /\ q \in Seq(ToPrefill) /\ Ids(q, "prefill") = Asked /\ DistinctIds(q, "prefill")
      /\ \A i \in DOMAIN q : q[i].kind = "prefill"
           => i \in DOMAIN toPrefill /\ q[i] = toPrefill[i]
  <2>1. CASE "prefill" \in remote_endpoints BY <2>1 DEF Types, OneStation, Asked
  <2>2. CASE "prefill" \notin remote_endpoints
    <3>1. q = Append(toPrefill, Metadata) BY <2>2
    <3>2. Metadata \in ToPrefill /\ Metadata.kind # "prefill"
      BY MessageKinds DEF Metadata
    <3>3. toPrefill \in Seq(ToPrefill) BY DEF Types
    <3>4. q \in Seq(ToPrefill) BY <3>1, <3>2, <3>3, AppendElements
    <3>5. Ids(q, "prefill") = Asked /\ DistinctIds(q, "prefill")
      BY <3>1, <3>2, <3>3, AppendIds, SMTT(60) DEF OneStation, Asked
    <3>6. \A i \in DOMAIN q : q[i].kind = "prefill"
            => i \in DOMAIN toPrefill /\ q[i] = toPrefill[i]
      BY <3>1, <3>2, <3>3, AppendIndex, SMTT(60)
    <3>. QED BY <3>4, <3>5, <3>6
  <2>. QED BY <2>1, <2>2
<1>. HIDE DEF q
<1>7. /\ PrefillRequest(r, blocks) \in ToPrefill
      /\ PrefillRequest(r, blocks).kind = "prefill"
      /\ PrefillRequest(r, blocks).id = r
      /\ PrefillRequest(r, blocks).blocks = blocks
  BY <1>3, <1>4, MessageKinds DEF PrefillRequest
<1>8. /\ toPrefill' \in Seq(ToPrefill) /\ Asked' = Asked \cup {r}
      /\ DistinctIds(toPrefill', "prefill")
  <2>1. r \notin Ids(q, "prefill") BY <1>5, <1>6 DEF AtStation
  <2>2. toPrefill' \in Seq(ToPrefill) BY <1>1, <1>6, <1>7, AppendElements
  <2>3. Ids(toPrefill', "prefill") = Ids(q, "prefill") \cup {r}
        /\ DistinctIds(toPrefill', "prefill")
    <3>. DEFINE m == PrefillRequest(r, blocks)
    <3>1. /\ m \in ToPrefill /\ m.kind = "prefill" /\ m.id = r
          /\ toPrefill' = Append(q, m)
      BY <1>1, <1>7
    <3>. HIDE DEF m, r
    <3>. QED BY <1>6, <2>1, <3>1, AppendIds, SMTT(60)
  <2>. QED BY <1>6, <2>2, <2>3 DEF Asked
<1>9. /\ phase' \in [Requests -> Phases]
      /\ InFlight' = InFlight \cup {r} /\ Transferring' = Transferring
  <2>1. phase \in [Requests -> Phases] /\ "AWAITING_PREFILL" \in Phases
    BY DEF Types, Phases
  <2>2. /\ phase' \in [Requests -> Phases]
        /\ InFlight' = InFlight \cup {r} /\ Transferring' = Transferring \ {r}
    BY <1>1, <1>4, <2>1, PhaseChange
  <2>3. r \notin Transferring BY <1>5 DEF InFlight, Transferring
  <2>. QED BY <2>2, <2>3
<1>10. Replied' = Replied /\ Encoding' = Encoding BY <1>2, SameSets DEF PrefillStations
<1>11. /\ held' \in [Requests -> SUBSET Blocks] /\ held'[r] = blocks
       /\ \A x \in Requests \ {r} : held'[x] = held[x]
  BY <1>1, <1>3, <1>4 DEF Types
<1>12. Types' BY <1>2, <1>4, <1>8, <1>9, <1>11 DEF Types
<1>13. Room' BY <1>2 DEF Room
<1>14. WaitsOnce'
  <2>1. (AtStation \cup InFlight \cup tg)' = AtStation \cup InFlight \cup tg \cup {r}
    BY <1>2, <1>8, <1>9, <1>10 DEF AtStation
  <2>2. (AtStation \cup InFlight \cup tg)' \subseteq (submitted \ Waiting)'
    BY <1>2, <1>5, <2>1 DEF WaitsOnce
  <2>3. Waiting' \subseteq submitted' BY <1>2, <1>5 DEF WaitsOnce
  <2>. QED BY <1>2, <1>4, <2>2, <2>3 DEF WaitsOnce
<1>15. OneStation' BY <1>2, <1>5, <1>8, <1>10 DEF OneStation, AtStation
<1>16. Recorded'
  BY <1>2, <1>5, <1>8, <1>9, <1>10, SMTT(60) DEF Recorded, AtStation, InFlight, Transferring
<1>17. OwnBlocks'
  <2>1. ASSUME NEW i \in DOMAIN toPrefill', toPrefill'[i].kind = "prefill",
               toPrefill'[i].id \in InFlight'
        PROVE  toPrefill'[i].blocks = held'[toPrefill'[i].id]
    <3>1. CASE toPrefill'[i] = PrefillRequest(r, blocks) BY <1>7, <1>11, <3>1
    <3>2. CASE i \in DOMAIN toPrefill /\ toPrefill'[i] = toPrefill[i]
      <4>1. toPrefill[i].id \in Asked BY <2>1, <3>2 DEF Asked, Ids
      <4>2. toPrefill[i].id # r /\ toPrefill[i].id \in InFlight
        BY <1>5, <1>9, <2>1, <3>2, <4>1 DEF AtStation
      <4>. QED BY <1>11, <2>1, <3>2, <4>2 DEF OwnBlocks, InFlight
    <3>3. \/ toPrefill'[i] = PrefillRequest(r, blocks)
          \/ i \in DOMAIN q /\ toPrefill'[i] = q[i]
      <4>. DEFINE m == PrefillRequest(r, blocks)
      <4>1. q \in Seq(ToPrefill) /\ toPrefill' = Append(q, m) BY <1>1, <1>6
      <4>. HIDE DEF m
      <4>2. toPrefill'[i] = m \/ (i \in DOMAIN q /\ toPrefill'[i] = q[i])
        BY <2>1, <4>1, AppendIndex
      <4>. QED BY <4>2 DEF m
    <3>. QED BY <1>6, <2>1, <3>1, <3>2, <3>3
  <2>2. ASSUME NEW x \in InFlight' \cap (Encoding \cup Replied \cup Transferring)'
        PROVE  dst'[x] = held'[x]
    <3>1. /\ x # r /\ x \in Requests
          /\ x \in InFlight \cap (Encoding \cup Replied \cup Transferring)
      BY <1>5, <1>9, <1>10, <2>2 DEF AtStation, InFlight, Transferring
    <3>. QED BY <1>2, <1>11, <3>1 DEF OwnBlocks
  <2>. QED BY <2>1, <2>2 DEF OwnBlocks
<1>18. Ended'
  <2>1. answer[r] \notin {"first", "done", "cancelled", "twice"} BY <1>4 DEF Ended, Waiting
  <2>. QED BY <1>2, <1>5, <1>9, <2>1 DEF Ended
<1>. QED BY <1>12, <1>13, <1>14, <1>15, <1>16, <1>17, <1>18

-----------------------------------------------------------------------------
(***************************************************************************)
(* The other steps of the decode worker, the clock and the transfer engine.*)
(***************************************************************************)
\* Metadata on toDecode is no response.
LEMMA RecvMetadataInv == ASSUME Inv, RecvMetadata PROVE Inv'
<1>. USE DEF Inv, RecvMetadata, client, decodeRecord, running, engine, prefill
<1>1. /\ toDecode' \in Seq(ToDecode) /\ Replied' = Replied
      /\ DistinctIds(toDecode', "response")
  BY TailElements, TailIds, SMTT(60) DEF Types, OneStation, Replied
<1>2. /\ Waiting' = Waiting /\ Asked' = Asked /\ Encoding' = Encoding
      /\ InFlight' = InFlight /\ Transferring' = Transferring
  BY SameSets DEF PrefillStations
<1>3. Types' BY <1>1, <1>2 DEF Types
<1>4. Room' /\ WaitsOnce' BY <1>1, <1>2 DEF Room, WaitsOnce, AtStation
<1>5. OneStation' BY <1>1, <1>2 DEF OneStation
<1>6. Recorded' /\ OwnBlocks' BY <1>1, <1>2 DEF Recorded, OwnBlocks, AtStation
<1>7. Ended' BY <1>2 DEF Ended
<1>. QED BY <1>3, <1>4, <1>5, <1>6, <1>7

\* A response is the only sign of its request: it makes the transfer known,
\* into the blocks held, or is discarded.
LEMMA ResponseInv == ASSUME Inv, handle_prefill_response PROVE Inv'
<1>. USE DEF Inv, handle_prefill_response, client, running, engine, prefill
<1>. DEFINE r == Head(toDecode).id
<1>1. /\ toDecode' \in Seq(ToDecode) /\ r \in Requests
      /\ Replied = Replied' \cup {r} /\ r \notin Replied'
      /\ DistinctIds(toDecode', "response")
  BY TailElements, TailIds, MessageKinds DEF Types, OneStation, Replied
<1>2. Waiting' = Waiting /\ Asked' = Asked /\ Encoding' = Encoding
  BY SameSets DEF PrefillStations
<1>3. r \notin AtStation' BY <1>1, <1>2 DEF OneStation, AtStation
<1>4. OneStation' BY <1>1, <1>2 DEF OneStation
<1>5. Room' BY DEF Room
<1>6. CASE r \notin InFlight /\ UNCHANGED <<answer, phase, expired>>
  <2>1. InFlight' = InFlight /\ Transferring' = Transferring BY <1>6, SameSets
  <2>2. Types' BY <1>1, <1>6, <2>1 DEF Types
  <2>3. WaitsOnce' BY <1>1, <1>2, <2>1 DEF WaitsOnce, AtStation
  <2>4. Recorded' BY <1>1, <1>2, <2>1 DEF Recorded, AtStation
  <2>5. OwnBlocks' BY <1>1, <1>2, <2>1 DEF OwnBlocks
  <2>6. Ended' BY <1>2, <1>6, <2>1 DEF Ended
  <2>. QED BY <1>4, <1>5, <2>2, <2>3, <2>4, <2>5, <2>6
<1>7. CASE /\ r \in InFlight
           /\ \E what \in {"stream", "first"} : Tell(r, what)
           /\ phase' = [phase EXCEPT ![r] = "TRANSFERRING"]
           /\ expired' = expired \ {r}
  <2>1. /\ phase' \in [Requests -> Phases]
        /\ InFlight' = InFlight /\ Transferring' = Transferring \cup {r}
    <3>1. phase \in [Requests -> Phases] /\ "TRANSFERRING" \in Phases
      BY DEF Types, Phases
    <3>2. /\ phase' \in [Requests -> Phases]
          /\ InFlight' = InFlight \cup {r} /\ Transferring' = Transferring \cup {r}
      BY <1>1, <1>7, <3>1, PhaseChange
    <3>. QED BY <1>7, <3>2
  <2>2. PICK what \in {"stream", "first"} :
          /\ answer' \in [Requests -> Answers] /\ answer'[r] = Told(r, what)
          /\ \A x \in Requests \ {r} : answer'[x] = answer[x]
    <3>1. {"stream", "first"} \subseteq Answers BY DEF Answers, Terminal
    <3>. QED BY <1>1, <1>7, <3>1, TellOne DEF Types
  <2>3. r \notin Transferring BY <1>1 DEF Recorded, AtStation
  <2>4. Types' BY <1>1, <1>7, <2>1, <2>2 DEF Types
  <2>5. WaitsOnce' BY <1>1, <1>2, <2>1 DEF WaitsOnce, AtStation
  <2>6. Recorded' BY <1>1, <1>2, <1>3, <1>7, <2>1, SMTT(60) DEF Recorded, AtStation
  <2>7. OwnBlocks' BY <1>1, <1>2, <1>7, <2>1 DEF OwnBlocks
  <2>8. Ended'
    <3>1. ~Over(r) /\ r \notin cancelled
      BY <1>1, <1>7, <2>3 DEF Ended, Over, Terminal
    <3>2. answer'[r] \in {"stream", "first"} BY <2>2, <3>1 DEF Told, Over, Terminal
    <3>3. r \in submitted \ Waiting BY <1>7 DEF WaitsOnce
    <3>. QED BY <1>2, <2>1, <2>2, <3>1, <3>2, <3>3 DEF Ended
  <2>. QED BY <1>4, <1>5, <2>4, <2>5, <2>6, <2>7, <2>8
<1>. QED BY <1>6, <1>7

\* A cancellation sent to the prefill worker is no request for prefill.
LEMMA SendCancel ==
  ASSUME Inv, NEW r \in Requests, toPrefill' = Append(toPrefill, Message("cancel", r))
  PROVE  /\ toPrefill' \in Seq(ToPrefill) /\ Asked' = Asked
         /\ DistinctIds(toPrefill', "prefill")
         /\ \A i \in DOMAIN toPrefill' : toPrefill'[i].kind = "prefill"
              => i \in DOMAIN toPrefill /\ toPrefill'[i] = toPrefill[i]
<1>. DEFINE m == Message("cancel", r)
<1>1. m \in ToPrefill /\ m.kind # "prefill" BY MessageKinds DEF Message
<1>2. /\ toPrefill \in Seq(ToPrefill) /\ DistinctIds(toPrefill, "prefill")
      /\ toPrefill' = Append(toPrefill, m)
  BY DEF Inv, Types, OneStation
<1>. HIDE DEF m
<1>3. toPrefill' \in Seq(ToPrefill) BY <1>1, <1>2, AppendElements, SMTT(60)
<1>4. Ids(toPrefill', "prefill") = Ids(toPrefill, "prefill") BY <1>1, <1>2, AppendIds, SMTT(60)
<1>5. DistinctIds(toPrefill', "prefill") BY <1>1, <1>2, AppendIds, SMTT(60)
<1>6. \A i \in DOMAIN toPrefill' : toPrefill'[i].kind = "prefill"
        => i \in DOMAIN toPrefill /\ toPrefill'[i] = toPrefill[i]
  BY <1>1, <1>2, AppendIndex, SMTT(60)
<1>. QED BY <1>3, <1>4, <1>5, <1>6 DEF Asked

\* A request leaves the record and gives its blocks back, and the prefill
\* worker may be told: the core of an eviction and of a cancellation.
LEMMA ForgetCore ==
  ASSUME Inv, NEW r \in Requests, Forget(r), Release(r), r \in InFlight,
         \/ UNCHANGED toPrefill
         \/ toPrefill' = Append(toPrefill, Message("cancel", r)),
         UNCHANGED <<submitted, requestQueue, pending_reqs, left, running, toDecode,
                     engine, prefill>>
  PROVE  /\ InFlight' = InFlight \ {r} /\ Transferring' = Transferring \ {r}
         /\ Waiting' = Waiting /\ Room' /\ WaitsOnce' /\ OneStation'
         /\ Recorded' /\ OwnBlocks'
         /\ phase' \in [Requests -> Phases] /\ held' \in [Requests -> SUBSET Blocks]
         /\ expired' \subseteq InFlight' /\ toPrefill' \in Seq(ToPrefill)
<1>. USE DEF Inv, running, engine, prefill
<1>1. /\ phase' \in [Requests -> Phases]
      /\ InFlight' = InFlight \ {r} /\ Transferring' = Transferring \ {r}
  <2>1. phase \in [Requests -> Phases] /\ "none" \in Phases BY DEF Types, Phases
  <2>2. phase' = [phase EXCEPT ![r] = "none"] BY DEF Forget
  <2>. QED BY <2>1, <2>2, PhaseChange
<1>2. Waiting' = Waiting /\ Replied' = Replied /\ Encoding' = Encoding
  BY SameSets DEF PrefillStations
<1>3. /\ toPrefill' \in Seq(ToPrefill) /\ Asked' = Asked
      /\ DistinctIds(toPrefill', "prefill")
  <2>1. CASE UNCHANGED toPrefill BY <2>1, SameSets DEF Types, OneStation
  <2>2. CASE toPrefill' = Append(toPrefill, Message("cancel", r)) BY <2>2, SendCancel
  <2>. QED BY <2>1, <2>2
<1>4. /\ held' \in [Requests -> SUBSET Blocks]
      /\ \A x \in Requests \ {r} : held'[x] = held[x]
  BY DEF Types, Release
<1>5. expired' \subseteq InFlight' BY <1>1 DEF Types, Forget
<1>6. Room' BY DEF Room
<1>7. WaitsOnce' BY <1>1, <1>2, <1>3 DEF WaitsOnce, AtStation
<1>8. OneStation' BY <1>2, <1>3 DEF OneStation
<1>9. Recorded' BY <1>1, <1>2, <1>3 DEF Recorded, AtStation
<1>10. OwnBlocks'
  <2>1. ASSUME NEW i \in DOMAIN toPrefill', toPrefill'[i].kind = "prefill",
               toPrefill'[i].id \in InFlight'
        PROVE  toPrefill'[i].blocks = held'[toPrefill'[i].id]
    <3>1. i \in DOMAIN toPrefill /\ toPrefill'[i] = toPrefill[i]
      <4>1. CASE UNCHANGED toPrefill BY <2>1, <4>1
      <4>2. CASE toPrefill' = Append(toPrefill, Message("cancel", r))
        BY <2>1, <4>2, SendCancel
      <4>. QED BY <4>1, <4>2
    <3>2. toPrefill[i].id \in InFlight /\ toPrefill[i].id \in Requests \ {r}
      BY <1>1, <2>1, <3>1 DEF InFlight
    <3>. QED BY <1>4, <2>1, <3>1, <3>2 DEF OwnBlocks
  <2>2. ASSUME NEW x \in InFlight' \cap (Encoding \cup Replied \cup Transferring)'
        PROVE  dst'[x] = held'[x]
    <3>1. x \in InFlight \cap (Encoding \cup Replied \cup Transferring)
          /\ x \in Requests \ {r}
      BY <1>1, <1>2, <2>2 DEF InFlight
    <3>. QED BY <1>4, <3>1 DEF OwnBlocks
  <2>. QED BY <2>1, <2>2 DEF OwnBlocks
<1>. QED BY <1>1, <1>2, <1>3, <1>4, <1>5, <1>6, <1>7, <1>8, <1>9, <1>10

\* An eviction answers a request that has no terminal answer: it is not
\* marked cancelled.
LEMMA EvictInv == ASSUME Inv, NEW r \in Requests, EvictOne(r) PROVE Inv'
<1>. USE DEF Inv, client, running, engine, prefill
<1>1. /\ Forget(r) /\ Release(r) /\ r \in InFlight
      /\ \/ UNCHANGED toPrefill
         \/ toPrefill' = Append(toPrefill, Message("cancel", r))
      /\ UNCHANGED <<client, pending_reqs, running, toDecode, engine, prefill>>
  BY DEF EvictOne, Types
<1>2. /\ InFlight' = InFlight \ {r} /\ Transferring' = Transferring \ {r}
      /\ Waiting' = Waiting /\ Room' /\ WaitsOnce' /\ OneStation'
      /\ Recorded' /\ OwnBlocks'
      /\ phase' \in [Requests -> Phases] /\ held' \in [Requests -> SUBSET Blocks]
      /\ expired' \subseteq InFlight' /\ toPrefill' \in Seq(ToPrefill)
  BY <1>1, ForgetCore
<1>3. cancelled' = cancelled \ {r} BY <1>1 DEF Forget
<1>4. CASE r \in cancelled /\ UNCHANGED answer
  <2>1. Types' BY <1>1, <1>2, <1>4 DEF Types
  <2>2. Ended' BY <1>1, <1>2, <1>3, <1>4 DEF Ended
  <2>. QED BY <1>2, <2>1, <2>2
<1>5. CASE r \notin cancelled /\ Tell(r, "cancelled")
  <2>1. /\ answer' \in [Requests -> Answers]
        /\ answer'[r] = Told(r, "cancelled")
        /\ \A x \in Requests \ {r} : answer'[x] = answer[x]
    <3>1. answer \in [Requests -> Answers] /\ "cancelled" \in Answers
      BY DEF Types, Answers, Terminal
    <3>. QED BY <1>5, <3>1, TellOne
  <2>2. Types' BY <1>1, <1>2, <2>1 DEF Types
  <2>3. Ended'
    <3>1. answer'[r] \in {"cancelled", "twice"}
      BY <1>1, <1>5, <2>1 DEF Ended, Told, Over, Terminal
    <3>2. r \in submitted \ (Waiting \cup tg) BY <1>1 DEF WaitsOnce, Recorded
    <3>. QED BY <1>1, <1>2, <1>3, <2>1, <3>1, <3>2 DEF Ended
  <2>. QED BY <1>2, <2>2, <2>3
<1>. QED BY <1>4, <1>5 DEF EvictOne

\* The cancellation of a request awaiting its response is its terminal answer.
LEMMA CancelAwaitingInv == ASSUME Inv, NEW r \in Requests, CancelAwaiting(r) PROVE Inv'
<1>. USE DEF Inv, running, engine, prefill
<1>1. /\ Forget(r) /\ Release(r) /\ r \in InFlight /\ r \notin Transferring
      /\ toPrefill' = Append(toPrefill, Message("cancel", r))
      /\ cancelQueue' = cancelQueue \ {r}
      /\ Tell(r, "cancelled")
      /\ UNCHANGED <<submitted, requestQueue, left, pending_reqs, running, toDecode,
                     engine, prefill>>
  BY DEF CancelAwaiting, InFlight, Transferring
<1>2. /\ InFlight' = InFlight \ {r} /\ Transferring' = Transferring \ {r}
      /\ Waiting' = Waiting /\ Room' /\ WaitsOnce' /\ OneStation'
      /\ Recorded' /\ OwnBlocks'
      /\ phase' \in [Requests -> Phases] /\ held' \in [Requests -> SUBSET Blocks]
      /\ expired' \subseteq InFlight' /\ toPrefill' \in Seq(ToPrefill)
  BY <1>1, ForgetCore
<1>3. cancelled' = cancelled \ {r} BY <1>1 DEF Forget
<1>4. /\ answer' \in [Requests -> Answers]
      /\ answer'[r] = Told(r, "cancelled")
      /\ \A x \in Requests \ {r} : answer'[x] = answer[x]
  <2>1. answer \in [Requests -> Answers] /\ "cancelled" \in Answers
    BY DEF Types, Answers, Terminal
  <2>. QED BY <1>1, <2>1, TellOne
<1>5. Types' BY <1>1, <1>2, <1>4 DEF Types
<1>6. Ended'
  <2>1. answer'[r] \in {"cancelled", "twice"}
    <3>1. r \notin cancelled BY <1>1 DEF Ended
    <3>. QED BY <1>1, <1>4, <3>1 DEF Ended, Told, Over, Terminal
  <2>2. r \in submitted \ (Waiting \cup tg) BY <1>1 DEF WaitsOnce, Recorded
  <2>. QED BY <1>1, <1>2, <1>3, <1>4, <2>1, <2>2 DEF Ended
<1>. QED BY <1>2, <1>5, <1>6

\* The cancellation of a running request is its terminal answer.
LEMMA CancelRunningInv == ASSUME Inv, NEW r \in Requests, CancelRunning(r) PROVE Inv'
<1>. USE DEF Inv, decodeRecord, engine, prefill
<1>1. /\ r \in tg /\ tg' = tg \ {r} /\ cancelQueue' = cancelQueue \ {r}
      /\ held' = [held EXCEPT ![r] = {}] /\ Tell(r, "cancelled")
      /\ UNCHANGED <<submitted, requestQueue, left, pending_reqs, decodeRecord,
                     toPrefill, toDecode, engine, prefill>>
  BY DEF CancelRunning, Release
<1>2. /\ Waiting' = Waiting /\ Asked' = Asked /\ Replied' = Replied
      /\ Encoding' = Encoding /\ InFlight' = InFlight
      /\ Transferring' = Transferring
  BY <1>1, SameSets DEF PrefillStations
<1>3. r \in submitted \ Waiting /\ r \notin InFlight
  BY <1>1 DEF WaitsOnce, Recorded
<1>4. /\ answer' \in [Requests -> Answers]
      /\ answer'[r] = Told(r, "cancelled")
      /\ \A x \in Requests \ {r} : answer'[x] = answer[x]
  <2>1. answer \in [Requests -> Answers] /\ "cancelled" \in Answers
    BY DEF Types, Answers, Terminal
  <2>. QED BY <1>1, <2>1, TellOne
<1>5. /\ held' \in [Requests -> SUBSET Blocks]
      /\ \A x \in InFlight : held'[x] = held[x]
  BY <1>1, <1>3 DEF Types, InFlight
<1>6. Types' BY <1>1, <1>2, <1>4, <1>5 DEF Types
<1>7. Room' BY <1>1 DEF Room
<1>8. WaitsOnce' BY <1>1, <1>2 DEF WaitsOnce, AtStation
<1>9. OneStation' BY <1>1, <1>2 DEF OneStation
<1>10. Recorded' BY <1>1, <1>2 DEF Recorded, AtStation
<1>11. OwnBlocks' BY <1>1, <1>2, <1>5 DEF OwnBlocks
<1>12. Ended'
  <2>1. answer'[r] \in {"cancelled", "twice"}
    BY <1>1, <1>4 DEF Ended, Told, Over, Terminal
  <2>. QED BY <1>1, <1>2, <1>3, <1>4, <2>1 DEF Ended
<1>. QED BY <1>6, <1>7, <1>8, <1>9, <1>10, <1>11, <1>12

\* A cancellation that is only logged.
LEMMA CancelUnknownInv == ASSUME Inv, NEW r \in Requests, CancelUnknown(r) PROVE Inv'
<1>. USE DEF Inv, CancelUnknown, decodeRecord, running, engine, prefill
<1>1. /\ Waiting' = Waiting /\ Asked' = Asked /\ Replied' = Replied
      /\ Encoding' = Encoding /\ InFlight' = InFlight
      /\ Transferring' = Transferring
  BY SameSets DEF PrefillStations
<1>2. Types' BY <1>1 DEF Types
<1>3. Room' /\ WaitsOnce' BY <1>1 DEF Room, WaitsOnce, AtStation
<1>4. OneStation' BY <1>1 DEF OneStation
<1>5. Recorded' /\ OwnBlocks' BY <1>1 DEF Recorded, OwnBlocks, AtStation
<1>6. Ended' BY <1>1 DEF Ended
<1>. QED BY <1>2, <1>3, <1>4, <1>5, <1>6

\* The cancellation of a request whose transfer is known is its terminal
\* answer, and marks it.
LEMMA CancelTransferringInv ==
  ASSUME Inv, NEW r \in Requests, CancelTransferring(r) PROVE Inv'
<1>. USE DEF Inv, running, engine, prefill
<1>1. /\ r \in Transferring /\ r \in cancelQueue /\ cancelQueue' = cancelQueue \ {r}
      /\ cancelled' = cancelled \cup {r} /\ Tell(r, "cancelled")
      /\ toPrefill' = Append(toPrefill, Message("cancel", r))
      /\ UNCHANGED <<submitted, requestQueue, left, pending_reqs, phase, expired, held,
                     running, toDecode, engine, prefill>>
  BY DEF CancelTransferring, Transferring
<1>2. /\ Waiting' = Waiting /\ Replied' = Replied /\ Encoding' = Encoding
      /\ InFlight' = InFlight /\ Transferring' = Transferring
  BY <1>1, SameSets DEF PrefillStations
<1>4. /\ toPrefill' \in Seq(ToPrefill) /\ Asked' = Asked
      /\ DistinctIds(toPrefill', "prefill")
      /\ \A i \in DOMAIN toPrefill' : toPrefill'[i].kind = "prefill"
           => i \in DOMAIN toPrefill /\ toPrefill'[i] = toPrefill[i]
  BY <1>1, SendCancel
<1>5. r \in InFlight /\ r \in submitted \ (Waiting \cup tg)
  BY <1>1 DEF WaitsOnce, Recorded, InFlight, Transferring
<1>6. /\ answer' \in [Requests -> Answers]
      /\ answer'[r] = Told(r, "cancelled")
      /\ \A x \in Requests \ {r} : answer'[x] = answer[x]
  <2>1. answer \in [Requests -> Answers] /\ "cancelled" \in Answers
    BY DEF Types, Answers, Terminal
  <2>. QED BY <1>1, <2>1, TellOne
<1>7. Types' BY <1>1, <1>2, <1>4, <1>6 DEF Types
<1>8. Room' BY <1>1 DEF Room
<1>9. WaitsOnce' BY <1>1, <1>2, <1>4 DEF WaitsOnce, AtStation
<1>10. OneStation' BY <1>1, <1>2, <1>4 DEF OneStation
<1>11. Recorded' BY <1>1, <1>2, <1>4 DEF Recorded, AtStation
<1>12. OwnBlocks' BY <1>1, <1>2, <1>4 DEF OwnBlocks
<1>13. Ended'
  <2>1. answer'[r] \in {"cancelled", "twice"}
    <3>1. r \notin cancelled BY <1>1 DEF Ended
    <3>. QED BY <1>5, <1>6, <3>1 DEF Ended, Told, Over, Terminal
  <2>. QED BY <1>1, <1>2, <1>5, <1>6, <2>1 DEF Ended, Types
<1>. QED BY <1>7, <1>8, <1>9, <1>10, <1>11, <1>12, <1>13

\* Completed transfers start to run; a request with the terminal answer is
\* marked cancelled and dropped.
LEMMA CompletedInv == ASSUME Inv, check_for_completed_transfers PROVE Inv'
<1>. USE DEF Inv, client, engine, prefill
<1>. DEFINE dropped == Complete \cap cancelled
<1>1. /\ phase' = [r \in Requests |-> IF r \in Complete THEN "none" ELSE phase[r]]
      /\ cancelled' = cancelled \ Complete /\ expired' = expired \ Complete
      /\ held' = [r \in Requests |-> IF r \in dropped THEN {} ELSE held[r]]
      /\ tg' = tg \cup (Complete \ dropped)
      /\ UNCHANGED <<client, answer, pending_reqs, toPrefill, toDecode, engine, prefill>>
  BY DEF check_for_completed_transfers
<1>2. Complete \subseteq Transferring /\ Transferring \subseteq InFlight
      /\ InFlight \subseteq Requests
  BY DEF Complete, Transferring, InFlight
<1>3. Waiting' = Waiting /\ Asked' = Asked /\ Replied' = Replied /\ Encoding' = Encoding
  BY <1>1, SameSets DEF PrefillStations
<1>4. /\ phase' \in [Requests -> Phases]
      /\ InFlight' = InFlight \ Complete /\ Transferring' = Transferring \ Complete
  BY <1>1 DEF Types, InFlight, Transferring, Phases
<1>5. /\ held' \in [Requests -> SUBSET Blocks]
      /\ \A x \in InFlight' : held'[x] = held[x]
  BY <1>1, <1>2, <1>4 DEF Types
<1>6. Types' BY <1>1, <1>2, <1>4, <1>5 DEF Types
<1>7. Room' BY <1>1 DEF Room
<1>8. WaitsOnce' BY <1>1, <1>2, <1>3, <1>4 DEF WaitsOnce, AtStation
<1>9. OneStation' BY <1>1, <1>3 DEF OneStation
<1>10. Recorded' BY <1>1, <1>2, <1>3, <1>4 DEF Recorded, AtStation
<1>11. OwnBlocks' BY <1>1, <1>3, <1>4, <1>5 DEF OwnBlocks
<1>12. Ended' BY <1>1, <1>2, <1>3, <1>4 DEF Ended
<1>. QED BY <1>6, <1>7, <1>8, <1>9, <1>10, <1>11, <1>12

\* Only running requests are answered for and released.
LEMMA ScheduleInv == ASSUME Inv, schedule PROVE Inv'
<1>. USE DEF Inv, client, decodeRecord, engine, prefill
<1>. DEFINE answered == ResponsesOf(prevBatch)
<1>1. PICK done \in SUBSET answered :
        /\ {r \in answered : answer[r] = "first"} \subseteq done
        /\ TellAll([r \in answered |-> IF r \in done THEN "done" ELSE "stream"])
        /\ tg' = tg \ done
        /\ held' = [r \in Requests |-> IF r \in done THEN {} ELSE held[r]]
  BY DEF schedule
<1>2. UNCHANGED <<client, pending_reqs, decodeRecord, toPrefill, toDecode, engine, prefill>>
  BY DEF schedule
<1>3. answered \subseteq tg /\ tg \subseteq Requests BY DEF ResponsesOf, Types
<1>4. \A r \in Requests : answer'[r] =
         IF r \in answered THEN Told(r, IF r \in done THEN "done" ELSE "stream")
           ELSE answer[r]
  BY <1>1 DEF TellAll
<1>5. answer' \in [Requests -> Answers]
  BY <1>1 DEF TellAll, Told, Types, Answers, Terminal
<1>. HIDE DEF answered
<1>6. /\ Waiting' = Waiting /\ Asked' = Asked /\ Replied' = Replied
      /\ Encoding' = Encoding /\ InFlight' = InFlight
      /\ Transferring' = Transferring
  BY <1>2, SameSets DEF PrefillStations
<1>7. /\ held' \in [Requests -> SUBSET Blocks]
      /\ \A x \in InFlight : held'[x] = held[x]
  <2>1. done \cap InFlight = {} BY <1>1, <1>3 DEF Recorded
  <2>2. InFlight \subseteq Requests BY DEF InFlight
  <2>. QED BY <1>1, <2>1, <2>2 DEF Types
<1>8. Types' BY <1>1, <1>2, <1>5, <1>6, <1>7 DEF Types
<1>9. Room' BY <1>2 DEF Room
<1>10. WaitsOnce' BY <1>1, <1>2, <1>6 DEF WaitsOnce, AtStation
<1>11. OneStation' BY <1>2, <1>6 DEF OneStation
<1>12. Recorded' BY <1>1, <1>2, <1>6 DEF Recorded, AtStation
<1>13. OwnBlocks' BY <1>2, <1>6, <1>7 DEF OwnBlocks
<1>14. Ended'
  <2>1. ASSUME NEW r \in Requests
        PROVE  /\ answer'[r] # "repeated"
               /\ answer'[r] = "first" =>
                    /\ r \in (submitted \ Waiting)'
                    /\ r \in InFlight' => r \in (Transferring \ cancelled)'
               /\ answer'[r] \in {"done", "cancelled", "twice"} =>
                    r \in (submitted \ (Waiting \cup tg))' /\ (r \in InFlight' => r \in cancelled')
    <3>1. CASE r \in answered
      <4>1. r \in tg /\ r \in submitted \ Waiting /\ r \notin InFlight
        BY <1>3, <3>1 DEF WaitsOnce, Recorded
      <4>2. \/ answer'[r] = "twice" /\ r \in done
            \/ answer'[r] = IF r \in done THEN "done" ELSE "stream"
        BY <1>1, <1>4, <3>1, <4>1 DEF Ended, Told, Over, Terminal
      <4>. QED BY <1>1, <1>2, <1>6, <4>1, <4>2
    <3>2. CASE r \notin answered BY <1>1, <1>2, <1>4, <1>6, <3>2 DEF Ended
    <3>. QED BY <3>1, <3>2
  <2>2. /\ (cancelled \subseteq Transferring \cap left)'
        /\ (cancelled \cap cancelQueue = {})'
    BY <1>2, <1>6 DEF Ended
  <2>. QED BY <2>1, <2>2 DEF Ended
<1>. QED BY <1>8, <1>9, <1>10, <1>11, <1>12, <1>13, <1>14

\* The clock and the transfer engine.
LEMMA AgeLandInv == ASSUME Inv, NEW r \in Requests, Age(r) \/ Land(r) PROVE Inv'
<1>. USE DEF Inv, Age, Land, client, decodeRecord, running, engine, prefill
<1>1. /\ Waiting' = Waiting /\ Asked' = Asked /\ Replied' = Replied
      /\ Encoding' = Encoding /\ InFlight' = InFlight
      /\ Transferring' = Transferring
  BY SameSets DEF PrefillStations
<1>2. Types' BY <1>1 DEF Types
<1>3. Room' /\ WaitsOnce' BY <1>1 DEF Room, WaitsOnce, AtStation
<1>4. OneStation' BY <1>1 DEF OneStation
<1>5. Recorded' /\ OwnBlocks' BY <1>1 DEF Recorded, OwnBlocks, AtStation
<1>6. Ended' BY <1>1 DEF Ended
<1>. QED BY <1>2, <1>3, <1>4, <1>5, <1>6

-----------------------------------------------------------------------------
(* The steps of the prefill worker. *)

\* A message other than a request for prefill leaves toPrefill.
LEMMA TakeOther ==
  ASSUME Inv, toPrefill # <<>>, Head(toPrefill).kind # "prefill",
         toPrefill' = Tail(toPrefill), UNCHANGED <<held, phase>>
  PROVE  /\ toPrefill' \in Seq(ToPrefill) /\ Asked' = Asked
         /\ DistinctIds(toPrefill', "prefill")
         /\ \A i \in DOMAIN toPrefill' :
              toPrefill'[i].kind = "prefill" /\ toPrefill'[i].id \in InFlight'
                => toPrefill'[i].blocks = held'[toPrefill'[i].id]
<1>. USE DEF Inv
<1>1. toPrefill \in Seq(ToPrefill) BY DEF Types
<1>2. toPrefill' \in Seq(ToPrefill) BY <1>1, TailElements
<1>3. Asked' = Asked /\ DistinctIds(toPrefill', "prefill")
  BY <1>1, TailIds, SMTT(60) DEF Asked, OneStation
<1>4. \A i \in DOMAIN toPrefill' :
        i + 1 \in DOMAIN toPrefill /\ toPrefill'[i] = toPrefill[i + 1]
  BY <1>1, TailIndex
<1>5. InFlight' = InFlight BY SameSets
<1>. QED BY <1>2, <1>3, <1>4, <1>5 DEF OwnBlocks

\* A cancellation only marks the request: it leaves its station when its turn
\* to reply comes.
LEMMA HandleCancelInv == ASSUME Inv, handle_cancel_request PROVE Inv'
<1>. USE DEF Inv, client, decodeRecord, running, engine
<1>1. /\ toPrefill # <<>> /\ Head(toPrefill).kind # "prefill"
      /\ toPrefill' = Tail(toPrefill)
      /\ UNCHANGED <<decode, toDecode, engine, ppc, gate, ce, pending_first_token,
                     responses, active_transfers>>
  BY DEF handle_cancel_request, NextRequest
<1>2. UNCHANGED <<client, answer, pending_reqs, decodeRecord, held, running>>
  BY <1>1 DEF decode
<1>3. /\ toPrefill' \in Seq(ToPrefill) /\ Asked' = Asked
      /\ DistinctIds(toPrefill', "prefill")
      /\ \A i \in DOMAIN toPrefill' :
           toPrefill'[i].kind = "prefill" /\ toPrefill'[i].id \in InFlight'
             => toPrefill'[i].blocks = held'[toPrefill'[i].id]
  BY <1>1, <1>2, TakeOther
<1>4. /\ Waiting' = Waiting /\ Replied' = Replied /\ Encoding' = Encoding
      /\ InFlight' = InFlight /\ Transferring' = Transferring
  BY <1>1, <1>2, SameSets DEF PrefillStations
<1>5. Types' BY <1>1, <1>2, <1>3, <1>4 DEF Types
<1>6. Room' BY <1>1 DEF Room
<1>7. WaitsOnce' BY <1>2, <1>3, <1>4 DEF WaitsOnce, AtStation
<1>8. OneStation' BY <1>1, <1>3, <1>4 DEF OneStation
<1>9. Recorded' BY <1>2, <1>3, <1>4 DEF Recorded, AtStation
<1>10. OwnBlocks' BY <1>1, <1>2, <1>3, <1>4 DEF OwnBlocks
<1>11. Ended' BY <1>2, <1>4 DEF Ended
<1>. QED BY <1>5, <1>6, <1>7, <1>8, <1>9, <1>10, <1>11

\* Metadata on toPrefill is no request for prefill; it is answered in kind.
LEMMA HandleMetadataInv == ASSUME Inv, handle_transfer_engine_request PROVE Inv'
<1>. USE DEF Inv, client, decodeRecord, running, engine
<1>1. /\ toPrefill # <<>> /\ Head(toPrefill).kind # "prefill"
      /\ toPrefill' = Tail(toPrefill)
      /\ toDecode' \in {toDecode, Append(toDecode, Metadata)}
      /\ UNCHANGED <<decode, engine, ppc, gate, ce, pending_first_token, responses,
                     active_transfers>>
  BY DEF handle_transfer_engine_request, NextRequest
<1>2. UNCHANGED <<client, answer, pending_reqs, decodeRecord, held, running>>
  BY <1>1 DEF decode
<1>3. /\ toPrefill' \in Seq(ToPrefill) /\ Asked' = Asked
      /\ DistinctIds(toPrefill', "prefill")
      /\ \A i \in DOMAIN toPrefill' :
           toPrefill'[i].kind = "prefill" /\ toPrefill'[i].id \in InFlight'
             => toPrefill'[i].blocks = held'[toPrefill'[i].id]
  BY <1>1, <1>2, TakeOther
<1>4. /\ toDecode' \in Seq(ToDecode) /\ Replied' = Replied
      /\ DistinctIds(toDecode', "response")
  <2>1. /\ toDecode \in Seq(ToDecode) /\ Metadata \in ToDecode
        /\ Metadata.kind # "response"
    BY MessageKinds DEF Types, Metadata
  <2>2. CASE toDecode' = toDecode BY <2>1, <2>2 DEF OneStation, Replied
  <2>3. CASE toDecode' = Append(toDecode, Metadata)
    BY <2>1, <2>3, AppendElements, AppendIds, SMTT(60) DEF OneStation, Replied
  <2>. QED BY <1>1, <2>2, <2>3
<1>5. /\ Waiting' = Waiting /\ Encoding' = Encoding
      /\ InFlight' = InFlight /\ Transferring' = Transferring
  BY <1>1, <1>2, SameSets DEF PrefillStations
<1>6. Types' BY <1>1, <1>2, <1>3, <1>4, <1>5 DEF Types
<1>7. Room' BY <1>1 DEF Room
<1>8. WaitsOnce' BY <1>2, <1>3, <1>4, <1>5 DEF WaitsOnce, AtStation
<1>9. OneStation' BY <1>1, <1>3, <1>4, <1>5 DEF OneStation
<1>10. Recorded' BY <1>2, <1>3, <1>4, <1>5 DEF Recorded, AtStation
<1>11. OwnBlocks' BY <1>1, <1>2, <1>3, <1>4, <1>5 DEF OwnBlocks
<1>12. Ended' BY <1>2, <1>5 DEF Ended
<1>. QED BY <1>6, <1>7, <1>8, <1>9, <1>10, <1>11, <1>12

\* A request for prefill moves from toPrefill to the gate or the queue, and
\* its destination becomes known.
LEMMA HandlePrefillInv == ASSUME Inv, handle_prefill_request PROVE Inv'
<1>. USE DEF Inv, client, decodeRecord, running
<1>. DEFINE r == Head(toPrefill).id
<1>1. /\ toPrefill # <<>> /\ Head(toPrefill).kind = "prefill"
      /\ toPrefill' = Tail(toPrefill)
      /\ gate' = gate \cup ({r} \cap Constrained)
      /\ ce' = IF r \in Constrained THEN ce ELSE Append(ce, r)
      /\ dst' = [dst EXCEPT ![r] = Head(toPrefill).blocks]
      /\ UNCHANGED <<decode, toDecode, write, ppc, pending_first_token, responses,
                     active_transfers>>
  BY DEF handle_prefill_request, NextRequest
<1>2. UNCHANGED <<client, answer, pending_reqs, decodeRecord, held, running>>
  BY <1>1 DEF decode
<1>3. /\ toPrefill \in Seq(ToPrefill) /\ 1 \in DOMAIN toPrefill
      /\ Head(toPrefill) = toPrefill[1] /\ Head(toPrefill) \in ToPrefill
  BY <1>1, SMTT(60) DEF Types
<1>4. r \in Requests /\ Head(toPrefill).blocks \subseteq Blocks
  BY <1>1, <1>3, MessageKinds
<1>5. /\ toPrefill' \in Seq(ToPrefill) /\ Asked = Asked' \cup {r} /\ r \notin Asked'
      /\ DistinctIds(toPrefill', "prefill")
  BY <1>1, <1>3, TailElements, TailIds DEF Asked, OneStation
<1>6. r \notin Encoding \cup Replied \cup Transferring \cup tg
  BY <1>5 DEF OneStation, Recorded, AtStation
<1>7. /\ gate' \subseteq Requests /\ ce' \in Seq(Requests) /\ Distinct(ce')
      /\ gate' \cup Elements(ce') = gate \cup Elements(ce) \cup {r}
      /\ gate' \cap Elements(ce') = {}
  <2>1. /\ ce \in Seq(Requests) /\ Distinct(ce) /\ r \notin Elements(ce)
        /\ r \notin gate /\ gate \subseteq Requests /\ gate \cap Elements(ce) = {}
    BY <1>6 DEF Types, OneStation, Encoding
  <2>2. CASE r \in Constrained
    <3>1. gate' = gate \cup {r} /\ ce' = ce BY <1>1, <2>2
    <3>. HIDE DEF r
    <3>. QED BY <1>4, <2>1, <3>1
  <2>3. CASE r \notin Constrained
    <3>1. gate' = gate /\ ce' = Append(ce, r) BY <1>1, <2>3
    <3>. HIDE DEF r
    <3>2. /\ ce' \in Seq(Requests) /\ Distinct(ce')
          /\ Elements(ce') = Elements(ce) \cup {r}
      BY <1>4, <2>1, <3>1, AppendElements, SMTT(60)
    <3>. QED BY <2>1, <3>1, <3>2
  <2>. QED BY <2>2, <2>3
<1>8. Encoding' = Encoding \cup {r} BY <1>1, <1>7 DEF Encoding
<1>9. /\ Waiting' = Waiting /\ Replied' = Replied
      /\ InFlight' = InFlight /\ Transferring' = Transferring
  BY <1>1, <1>2, SameSets
<1>10. /\ dst' \in [Requests -> SUBSET Blocks] /\ dst'[r] = Head(toPrefill).blocks
       /\ \A x \in Requests \ {r} : dst'[x] = dst[x]
  BY <1>1, <1>4 DEF Types
<1>11. Types' BY <1>1, <1>2, <1>5, <1>7, <1>9, <1>10 DEF Types
<1>12. Room' BY <1>1 DEF Room
<1>13. AtStation' = AtStation BY <1>5, <1>8, <1>9 DEF AtStation
<1>14. WaitsOnce' BY <1>2, <1>9, <1>13 DEF WaitsOnce
<1>15. OneStation'
  <2>1. /\ Asked' \cap (Encoding' \cup Replied') = {} /\ Encoding' \cap Replied' = {}
    BY <1>5, <1>6, <1>8, <1>9 DEF OneStation
  <2>2. (gate' \cup Elements(ce')) \cap (Elements(pending_first_token)
                                          \cup Elements(responses)) = {}
    BY <1>6, <1>7 DEF OneStation, Encoding
  <2>. QED BY <1>1, <1>5, <1>7, <2>1, <2>2 DEF OneStation
<1>16. Recorded' BY <1>2, <1>9, <1>13 DEF Recorded
<1>17. OwnBlocks'
  <2>1. \A i \in DOMAIN toPrefill' :
          i + 1 \in DOMAIN toPrefill /\ toPrefill'[i] = toPrefill[i + 1]
    BY <1>1, <1>3, TailIndex
  <2>2. r \in InFlight => dst'[r] = held[r] BY <1>1, <1>3, <1>10 DEF OwnBlocks
  <2>3. ASSUME NEW x \in InFlight' \cap (Encoding \cup Replied \cup Transferring)'
        PROVE  dst'[x] = held'[x]
    <3>1. CASE x = r BY <1>2, <1>9, <2>2, <2>3, <3>1
    <3>2. CASE x # r
      <4>1. x \in Requests /\ x \in InFlight \cap (Encoding \cup Replied \cup Transferring)
        BY <1>8, <1>9, <2>3, <3>2 DEF InFlight
      <4>. QED BY <1>2, <1>10, <3>2, <4>1 DEF OwnBlocks
    <3>. QED BY <3>1, <3>2
  <2>. QED BY <1>2, <1>9, <2>1, <2>3, SMTT(60) DEF OwnBlocks
<1>18. Ended' BY <1>2, <1>9 DEF Ended
<1>. QED BY <1>11, <1>12, <1>14, <1>15, <1>16, <1>17, <1>18

\* Landed transfers give their slots back.
LEMMA CleanupInv == ASSUME Inv, cleanup_active_transfers PROVE Inv'
<1>. USE DEF Inv, client, decodeRecord, running, engine
<1>1. /\ ppc = "requests" /\ active_transfers' \subseteq active_transfers
      /\ UNCHANGED <<decode, toPrefill, toDecode, engine, gate, ce,
                     pending_first_token, responses>>
  BY DEF cleanup_active_transfers
<1>2. UNCHANGED <<client, answer, pending_reqs, decodeRecord, held, running>>
  BY <1>1 DEF decode
<1>3. /\ Waiting' = Waiting /\ Asked' = Asked /\ Replied' = Replied
      /\ Encoding' = Encoding /\ InFlight' = InFlight
      /\ Transferring' = Transferring
  BY <1>1, <1>2, SameSets DEF PrefillStations
<1>4. Room'
  <2>1. /\ IsFiniteSet(active_transfers')
        /\ Cardinality(active_transfers') <= Cardinality(active_transfers)
    BY <1>1, FS_Subset DEF Room
  <2>2. /\ Cardinality(active_transfers') \in Nat /\ Cardinality(active_transfers) \in Nat
    BY <2>1, FS_CardinalityType DEF Room
  <2>3. Len(pending_first_token) \in Nat /\ Len(responses) \in Nat BY SMTT(60) DEF Types
  <2>. QED BY <1>1, <2>1, <2>2, <2>3, BoundsAssumption, SMTT(60) DEF Room
<1>5. Types' BY <1>1, <1>2, <1>3 DEF Types
<1>6. WaitsOnce' BY <1>2, <1>3 DEF WaitsOnce, AtStation
<1>7. OneStation' BY <1>1, <1>3 DEF OneStation
<1>8. Recorded' /\ OwnBlocks' BY <1>1, <1>2, <1>3 DEF Recorded, OwnBlocks, AtStation
<1>9. Ended' BY <1>2, <1>3 DEF Ended
<1>. QED BY <1>4, <1>5, <1>6, <1>7, <1>8, <1>9

\* A request passes the gate.
LEMMA GrammarReadyInv == ASSUME Inv, NEW r \in Requests, GrammarReady(r) PROVE Inv'
<1>. USE DEF Inv, client, decodeRecord, running, engine
<1>1. /\ r \in gate /\ gate' = gate \ {r} /\ ce' = Append(ce, r)
      /\ UNCHANGED <<decode, toPrefill, toDecode, engine, ppc, pending_first_token,
                     responses, active_transfers>>
  BY DEF GrammarReady
<1>2. UNCHANGED <<client, answer, pending_reqs, decodeRecord, held, running>>
  BY <1>1 DEF decode
<1>3. r \notin Elements(ce) BY <1>1 DEF OneStation
<1>4. /\ ce' \in Seq(Requests) /\ Distinct(ce') /\ Elements(ce') = Elements(ce) \cup {r}
  BY <1>1, <1>3, AppendElements, SMTT(60) DEF Types, OneStation
<1>5. Encoding' = Encoding BY <1>1, <1>4 DEF Encoding
<1>6. /\ Waiting' = Waiting /\ Asked' = Asked /\ Replied' = Replied
      /\ InFlight' = InFlight /\ Transferring' = Transferring
  BY <1>1, <1>2, SameSets
<1>7. Types' BY <1>1, <1>2, <1>4, <1>6 DEF Types
<1>8. Room' BY <1>1 DEF Room
<1>9. WaitsOnce' BY <1>2, <1>5, <1>6 DEF WaitsOnce, AtStation
<1>10. OneStation' BY <1>1, <1>4, <1>5, <1>6 DEF OneStation
<1>11. Recorded' /\ OwnBlocks'
  BY <1>1, <1>2, <1>5, <1>6 DEF Recorded, OwnBlocks, AtStation
<1>12. Ended' BY <1>2, <1>6 DEF Ended
<1>. QED BY <1>7, <1>8, <1>9, <1>10, <1>11, <1>12

\* A request is dropped at the gate.
LEMMA GrammarFailedInv == ASSUME Inv, NEW r \in Requests, GrammarFailed(r) PROVE Inv'
<1>. USE DEF Inv, client, decodeRecord, running, engine
<1>1. /\ gate' \subseteq gate
      /\ UNCHANGED <<decode, toPrefill, toDecode, engine, ppc, ce, pending_first_token,
                     responses, active_transfers>>
  BY DEF GrammarFailed
<1>2. UNCHANGED <<client, answer, pending_reqs, decodeRecord, held, running>>
  BY <1>1 DEF decode
<1>3. Encoding' \subseteq Encoding BY <1>1 DEF Encoding
<1>4. /\ Waiting' = Waiting /\ Asked' = Asked /\ Replied' = Replied
      /\ InFlight' = InFlight /\ Transferring' = Transferring
  BY <1>1, <1>2, SameSets
<1>5. Types' BY <1>1, <1>2, <1>4 DEF Types
<1>6. Room' BY <1>1 DEF Room
<1>7. WaitsOnce' BY <1>2, <1>3, <1>4, SMTT(60) DEF WaitsOnce, AtStation
<1>8. OneStation' BY <1>1, <1>3, <1>4 DEF OneStation
<1>9. Recorded' BY <1>2, <1>3, <1>4 DEF Recorded, AtStation
<1>10. OwnBlocks' BY <1>1, <1>2, <1>3, <1>4 DEF OwnBlocks
<1>11. Ended' BY <1>2, <1>4 DEF Ended
<1>. QED BY <1>5, <1>6, <1>7, <1>8, <1>9, <1>10, <1>11

\* A batch is taken from the queue, as large as there is room.
LEMMA PrefillScheduleInv == ASSUME Inv, PrefillSchedule PROVE Inv'
<1>. USE DEF Inv, client, decodeRecord, running, engine
<1>1. /\ responses = <<>> /\ responses' = pending_first_token
      /\ pending_first_token' = SubSeq(ce, 1, BatchSize)
      /\ ce' = SubSeq(ce, BatchSize + 1, Len(ce))
      /\ ppc' = IF pending_first_token = <<>> THEN "requests" ELSE "transfer"
      /\ UNCHANGED <<decode, toPrefill, toDecode, engine, gate, active_transfers>>
  BY DEF PrefillSchedule, Room
<1>2. UNCHANGED <<client, answer, pending_reqs, decodeRecord, held, running>>
  BY <1>1 DEF decode
<1>3. /\ Len(ce) \in Nat /\ Len(pending_first_token) \in Nat
      /\ Cardinality(active_transfers) \in Nat /\ Len(responses) = 0
      /\ Len(pending_first_token) + Cardinality(active_transfers) <= PrefillSlots
  <2>1. Len(ce) \in Nat /\ Len(pending_first_token) \in Nat /\ Len(responses) = 0
    BY <1>1, SMTT(60) DEF Types
  <2>2. Cardinality(active_transfers) \in Nat BY FS_CardinalityType DEF Room
  <2>. QED BY <2>1, <2>2, BoundsAssumption, SMTT(60) DEF Room
<1>4. /\ BatchSize \in 0 .. Len(ce)
      /\ BatchSize + Len(pending_first_token) + Cardinality(active_transfers)
           <= PrefillSlots
  BY <1>3, BoundsAssumption, SMTT(60) DEF BatchSize, SlotsInUse
<1>5. /\ pending_first_token' \in Seq(Requests) /\ Len(pending_first_token') = BatchSize
      /\ ce' \in Seq(Requests)
      /\ Elements(ce) = Elements(pending_first_token') \cup Elements(ce')
      /\ Distinct(pending_first_token') /\ Distinct(ce')
      /\ Elements(pending_first_token') \cap Elements(ce') = {}
  <2>1. ce \in Seq(Requests) /\ Distinct(ce) BY DEF Types, OneStation
  <2>. QED BY <1>1, <1>4, <2>1, CutElements, SMTT(60)
<1>6. Elements(responses) = {} BY <1>1, SMTT(60) DEF Elements
<1>7. Elements(responses') = Elements(pending_first_token) BY <1>1
<1>8. Encoding' = Encoding BY <1>1, <1>5, <1>6, <1>7 DEF Encoding
<1>9. /\ Waiting' = Waiting /\ Asked' = Asked /\ Replied' = Replied
      /\ InFlight' = InFlight /\ Transferring' = Transferring
  BY <1>1, <1>2, SameSets
<1>10. Types' BY <1>1, <1>2, <1>5, <1>9 DEF Types
<1>11. Room'
  <2>1. /\ Len(pending_first_token') + Len(responses') + Cardinality(active_transfers')
             <= PrefillSlots
    BY <1>1, <1>3, <1>4, <1>5, BoundsAssumption
  <2>2. IsFiniteSet(active_transfers') BY <1>1 DEF Room
  <2>3. ppc' \in {"requests", "batch"} => responses' = <<>> BY <1>1
  <2>. QED BY <2>1, <2>2, <2>3 DEF Room
<1>12. WaitsOnce' BY <1>2, <1>8, <1>9 DEF WaitsOnce, AtStation
<1>13. OneStation' BY <1>1, <1>5, <1>7, <1>8, <1>9 DEF OneStation
<1>14. Recorded' /\ OwnBlocks'
  BY <1>1, <1>2, <1>8, <1>9 DEF Recorded, OwnBlocks, AtStation
<1>15. Ended' BY <1>2, <1>9 DEF Ended
<1>. QED BY <1>10, <1>11, <1>12, <1>13, <1>14, <1>15

\* A reply moves its request to toDecode; a cancelled one ends there.
LEMMA InitiateInv == ASSUME Inv, initiate_transfer_and_send_reply PROVE Inv'
<1>. USE DEF Inv, client, decodeRecord, running
<1>. DEFINE r == Head(responses)
<1>1. /\ ppc = "transfer" /\ responses # <<>> /\ responses' = Tail(responses)
      /\ ppc' = IF Len(responses) = 1 THEN "requests" ELSE "transfer"
      /\ UNCHANGED <<decode, toPrefill, dst, gate, ce, pending_first_token>>
  BY DEF initiate_transfer_and_send_reply
<1>2. UNCHANGED <<client, answer, pending_reqs, decodeRecord, held, running>>
  BY <1>1 DEF decode
<1>3. \/ UNCHANGED <<active_transfers, write, toDecode>>
      \/ /\ active_transfers' = active_transfers \cup {r}
         /\ write' = [write EXCEPT ![r] = "posted"]
         /\ toDecode' = Append(toDecode, Message("response", r))
  BY DEF initiate_transfer_and_send_reply
<1>4. /\ responses' \in Seq(Requests) /\ r \in Requests /\ Distinct(responses')
      /\ Elements(responses) = Elements(responses') \cup {r}
      /\ r \notin Elements(responses')
  BY <1>1, TailElements DEF Types, OneStation
<1>5. r \notin Replied /\ r \notin Asked BY <1>4 DEF OneStation, Encoding
<1>6. Encoding = Encoding' \cup {r} /\ r \notin Encoding'
  BY <1>1, <1>4 DEF Encoding, OneStation
<1>7. /\ toDecode' \in Seq(ToDecode) /\ Replied' \subseteq Replied \cup {r}
      /\ DistinctIds(toDecode', "response")
      /\ write' \in [Requests -> {"none", "posted", "landed"}]
  <2>1. CASE UNCHANGED <<active_transfers, write, toDecode>>
    BY <2>1, SameSets DEF Types, OneStation
  <2>2. CASE /\ write' = [write EXCEPT ![r] = "posted"]
             /\ toDecode' = Append(toDecode, Message("response", r))
    <3>. DEFINE m == Message("response", r)
    <3>1. m \in ToDecode /\ m.kind = "response" /\ m.id = r
      BY <1>4, MessageKinds DEF Message
    <3>2. toDecode \in Seq(ToDecode) /\ toDecode' = Append(toDecode, m)
      BY <2>2 DEF Types
    <3>3. write' \in [Requests -> {"none", "posted", "landed"}]
      BY <1>4, <2>2 DEF Types
    <3>. HIDE DEF m, r
    <3>4. toDecode' \in Seq(ToDecode) BY <3>1, <3>2, AppendElements
    <3>5. Ids(toDecode', "response") = Ids(toDecode, "response") \cup {r}
          /\ DistinctIds(toDecode', "response")
      <4>1. r \notin Ids(toDecode, "response") /\ DistinctIds(toDecode, "response")
        BY <1>5 DEF Replied, OneStation
      <4>. QED BY <3>1, <3>2, <4>1, AppendIds, SMTT(60)
    <3>. QED BY <3>3, <3>4, <3>5 DEF Replied
  <2>. QED BY <1>3, <2>1, <2>2
<1>8. /\ Waiting' = Waiting /\ Asked' = Asked
      /\ InFlight' = InFlight /\ Transferring' = Transferring
  BY <1>1, <1>2, SameSets
<1>9. active_transfers' \subseteq Requests BY <1>3, <1>4 DEF Types
<1>10. Types' BY <1>1, <1>2, <1>4, <1>7, <1>8, <1>9 DEF Types
<1>11. Room'
  <2>1. /\ Len(responses) \in Nat \ {0} /\ Len(responses') = Len(responses) - 1
        /\ Len(pending_first_token) \in Nat
        /\ Len(responses) = 1 => responses' = <<>>
    BY <1>1, SMTT(60) DEF Types
  <2>2. /\ IsFiniteSet(active_transfers')
        /\ Cardinality(active_transfers') \in Nat /\ Cardinality(active_transfers) \in Nat
        /\ Cardinality(active_transfers') <= Cardinality(active_transfers) + 1
    <3>1. IsFiniteSet(active_transfers) /\ Cardinality(active_transfers) \in Nat
      BY FS_CardinalityType DEF Room
    <3>2. CASE UNCHANGED active_transfers BY <3>1, <3>2, SMTT(60)
    <3>3. CASE active_transfers' = active_transfers \cup {r}
      <4>. HIDE DEF r
      <4>1. /\ IsFiniteSet(active_transfers')
            /\ Cardinality(active_transfers') =
                 IF r \in active_transfers THEN Cardinality(active_transfers)
                   ELSE Cardinality(active_transfers) + 1
        BY <3>1, <3>3, FS_AddElement
      <4>. QED BY <3>1, <4>1, SMTT(60)
    <3>. QED BY <1>3, <3>2, <3>3
  <2>. QED BY <1>1, <2>1, <2>2, BoundsAssumption, SMTT(60) DEF Room
<1>12. WaitsOnce' BY <1>2, <1>6, <1>7, <1>8, SMTT(60) DEF WaitsOnce, AtStation
<1>13. OneStation'
  <2>1. /\ Asked' \cap (Encoding' \cup Replied') = {} /\ Encoding' \cap Replied' = {}
    BY <1>5, <1>6, <1>7, <1>8 DEF OneStation
  <2>. QED BY <1>1, <1>4, <1>7, <2>1 DEF OneStation
<1>14. Recorded' BY <1>2, <1>6, <1>7, <1>8 DEF Recorded, AtStation
<1>15. OwnBlocks' BY <1>1, <1>2, <1>6, <1>7, <1>8 DEF OwnBlocks
<1>16. Ended' BY <1>2, <1>8 DEF Ended
<1>. QED BY <1>10, <1>11, <1>12, <1>13, <1>14, <1>15, <1>16

-----------------------------------------------------------------------------
(* The theorems. *)

\* The invariant holds initially.
LEMMA InitInv == Init => Inv
<1>. SUFFICES ASSUME Init PROVE Inv OBVIOUS
<1>1. Elements(<<>>) = {} BY SMTT(60) DEF Elements
<1>2. Waiting = {} /\ Encoding = {} BY <1>1 DEF Init, Waiting, Encoding
<1>3. Asked = {} /\ Replied = {} BY SMTT(60) DEF Init, Asked, Replied, Ids
<1>4. InFlight = {} /\ Transferring = {} BY DEF Init, InFlight, Transferring
<1>5. Types BY <1>4, SMTT(60) DEF Init, Types, Phases, Answers
<1>6. Room BY FS_EmptySet, BoundsAssumption, SMTT(60) DEF Init, Room
<1>7. WaitsOnce BY <1>1, <1>2, <1>3, <1>4, SMTT(60) DEF Init, WaitsOnce, AtStation, Distinct
<1>8. OneStation
  BY <1>1, <1>2, <1>3, SMTT(60) DEF Init, OneStation, AtStation, Distinct, DistinctIds
<1>9. Recorded /\ OwnBlocks
  BY <1>2, <1>3, <1>4 DEF Init, Recorded, OwnBlocks, AtStation
<1>10. Ended BY <1>2, <1>4 DEF Init, Ended, Terminal
<1>. QED BY <1>5, <1>6, <1>7, <1>8, <1>9, <1>10 DEF Inv

\* No step of the workers, the clients, the clock or the transfer engine
\* breaks the invariant.
LEMMA NextInv == Inv /\ [Next]_vars => Inv'
<1>. SUFFICES ASSUME Inv, [Next]_vars PROVE Inv' OBVIOUS
<1>1. CASE ClientStep BY <1>1, SubmitInv, CancelInv DEF ClientStep
<1>2. CASE DecodeStep
  <2>1. CASE RepliesDrained \/ ReserveFails \/ ReserveDone
    BY <2>1, MoveOnInv DEF RepliesDrained, ReserveFails, ReserveDone
  <2>. QED BY <1>2, <2>1, RecvMetadataInv, ResponseInv, EvictInv, DrainInv, ReserveInv,
              CancelRunningInv, CancelUnknownInv, CancelTransferringInv,
              CancelAwaitingInv, CompletedInv, ScheduleInv DEF DecodeStep
<1>3. CASE PrefillStep
  BY <1>3, HandleCancelInv, HandleMetadataInv, HandlePrefillInv, CleanupInv,
     GrammarReadyInv, GrammarFailedInv, PrefillScheduleInv, InitiateInv
     DEF PrefillStep
<1>4. CASE \E r \in Requests : Age(r) \/ Land(r) BY <1>4, AgeLandInv
<1>5. CASE UNCHANGED vars BY <1>5, MoveOnInv DEF vars
<1>. QED BY <1>1, <1>2, <1>3, <1>4, <1>5 DEF Next

\* The invariant holds throughout.
THEOREM ServingInvariant == Spec => []Inv
BY InitInv, NextInv, PTL DEF Spec

\* No result follows a terminal one, whatever still holds the request, but the
\* one second end of a request that was done with its first token.
THEOREM AnsweredOnce == Spec => []OneTerminalAnswer
<1>1. Inv => OneTerminalAnswer BY DEF Inv, Ended, OneTerminalAnswer
<1>. QED BY <1>1, ServingInvariant, PTL

\* The steps that add to the running requests, and the steps that change what
\* a request holds.
LEMMA WhoChangesWhat ==
  ASSUME [Next]_vars
  PROVE  /\ check_for_completed_transfers \/ tg' \subseteq tg
         /\ \/ UNCHANGED held
            \/ ReserveOne \/ check_for_completed_transfers \/ schedule
            \/ \E r \in Requests : EvictOne(r) \/ CancelRunning(r) \/ CancelAwaiting(r)
<1>1. CASE ClientStep
  BY <1>1 DEF ClientStep, Submit, Cancel, running
<1>2. CASE DecodeStep
  <2>1. CASE RecvMetadata BY <2>1 DEF RecvMetadata, running
  <2>2. CASE handle_prefill_response BY <2>2 DEF handle_prefill_response, running
  <2>3. CASE RepliesDrained \/ ReserveFails \/ ReserveDone
    BY <2>3 DEF RepliesDrained, ReserveFails, ReserveDone, running
  <2>4. CASE \E r \in Requests : EvictOne(r) BY <2>4 DEF EvictOne, running
  <2>5. CASE DrainRequests BY <2>5 DEF DrainRequests, running
  <2>6. CASE ReserveOne BY <2>6 DEF ReserveOne, running
  <2>7. CASE \E r \in Requests : CancelRunning(r) BY <2>7 DEF CancelRunning
  <2>8. CASE \E r \in Requests : CancelUnknown(r) BY <2>8 DEF CancelUnknown, running
  <2>9. CASE \E r \in Requests : CancelTransferring(r)
    BY <2>9 DEF CancelTransferring, running
  <2>10. CASE \E r \in Requests : CancelAwaiting(r) BY <2>10 DEF CancelAwaiting, running
  <2>11. CASE check_for_completed_transfers BY <2>11
  <2>12. CASE schedule BY <2>12 DEF schedule
  <2>. QED BY <1>2, <2>1, <2>2, <2>3, <2>4, <2>5, <2>6, <2>7, <2>8, <2>9, <2>10,
              <2>11, <2>12 DEF DecodeStep
<1>3. CASE PrefillStep
  <2>1. UNCHANGED decode
    BY <1>3 DEF PrefillStep, handle_cancel_request, handle_transfer_engine_request,
       handle_prefill_request, cleanup_active_transfers, GrammarReady, GrammarFailed,
       PrefillSchedule, initiate_transfer_and_send_reply
  <2>. QED BY <2>1 DEF decode, running
<1>4. CASE \E r \in Requests : Age(r) \/ Land(r) BY <1>4 DEF Age, Land, running
<1>5. CASE UNCHANGED vars BY <1>5 DEF vars, running
<1>. QED BY <1>1, <1>2, <1>3, <1>4, <1>5 DEF Next

\* A request starts to run only when its own transfer has landed, in the very
\* blocks it holds, which it keeps (check_for_completed_transfers).
THEOREM RunsOnOwnCache == Spec => RunsOnItsOwnCache
<1>1. Inv /\ [Next]_vars =>
        [\A r \in Requests :
           (r \in tg' /\ r \notin tg) =>
              /\ write[r] = "landed" /\ dst[r] = held[r]
              /\ held'[r] = held[r]]_vars
  <2>. SUFFICES ASSUME Inv, [Next]_vars, NEW r \in Requests, r \in tg', r \notin tg
                PROVE  write[r] = "landed" /\ dst[r] = held[r] /\ held'[r] = held[r]
    OBVIOUS
  <2>1. check_for_completed_transfers BY WhoChangesWhat
  <2>2. r \in Complete \ cancelled /\ held'[r] = held[r]
    BY <2>1 DEF check_for_completed_transfers
  <2>3. r \in Transferring /\ r \in InFlight /\ write[r] = "landed"
    BY <2>2 DEF Complete, Transferring, InFlight
  <2>. QED BY <2>2, <2>3 DEF Inv, OwnBlocks
<1>. QED BY <1>1, ServingInvariant, PTL DEF Spec, RunsOnItsOwnCache

\* Once the decode worker knows of a transfer, the blocks stay until the
\* write has landed, unless the TTL has passed: a cancellation does not
\* release them.
THEOREM KnownWritePins == Spec => KnownWritePinsBlocks
<1>1. Inv /\ [Next]_vars =>
        [\A r \in Transferring :
           (held'[r] # held[r] /\ write[r] # "landed") => r \in expired]_vars
  <2>. SUFFICES ASSUME Inv, [Next]_vars, NEW r \in Transferring, held'[r] # held[r],
                       write[r] # "landed"
                PROVE  r \in expired
    OBVIOUS
  <2>1. /\ r \in Requests /\ r \in InFlight /\ r \notin tg /\ r \notin Waiting
        /\ phase[r] = "TRANSFERRING" /\ held \in [Requests -> SUBSET Blocks]
    BY DEF Inv, Types, Recorded, WaitsOnce, InFlight, Transferring
  <2>2. ~ ReserveOne
    <3>. SUFFICES ASSUME ReserveOne PROVE FALSE OBVIOUS
    <3>1. Head(pending_reqs) \in Waiting
      <4>1. pending_reqs \in Seq(Requests) /\ pending_reqs # <<>>
        BY DEF Inv, Types, ReserveOne, CanReserve
      <4>2. Head(pending_reqs) \in Elements(pending_reqs) BY <4>1, TailElements, SMTT(60)
      <4>. QED BY <4>2 DEF Waiting
    <3>2. held'[r] = held[r] BY <2>1, <3>1 DEF ReserveOne
    <3>. QED BY <3>2
  <2>3. ~ check_for_completed_transfers
    BY <2>1 DEF check_for_completed_transfers, Complete
  <2>4. ~ schedule BY <2>1 DEF schedule, ResponsesOf
  <2>5. PICK x \in Requests : EvictOne(x) \/ CancelRunning(x) \/ CancelAwaiting(x)
    BY <2>2, <2>3, <2>4, WhoChangesWhat
  <2>6. x = r BY <2>1, <2>5 DEF EvictOne, CancelRunning, CancelAwaiting, Release
  <2>. QED BY <2>1, <2>5, <2>6 DEF EvictOne, CancelRunning, CancelAwaiting
<1>. QED BY <1>1, ServingInvariant, PTL DEF Spec, KnownWritePinsBlocks

-----------------------------------------------------------------------------
(* The accounts: what the decode worker counts and what the prefill worker *)
(* must know to reply.                                                     *)

\* Where the loops are, and who has left.
Labels ==
    /\ left \subseteq submitted
    /\ dpc \in {"replies", "evict", "reserve", "cancel", "batch"}
    /\ ppc \in {"requests", "batch", "transfer"}
    /\ prevBatch \subseteq Requests /\ outstanding_cancelled \subseteq Requests

\* The counter of a replica is the number of its recorded requests.
InFlightOf(d) == {r \in InFlight : replica_idx[r] = d}
Counted ==
    /\ IsFiniteSet(InFlight)
    /\ replica_idx \in [Requests -> Replicas \cup {NoReplica}]
    /\ \A r \in InFlight : replica_idx[r] \in Replicas
    /\ prefill_reqs_per_replica = [d \in Replicas |-> Cardinality(InFlightOf(d))]

\* A request that may still generate has not used up its tokens.
MayRun == (Requests \ submitted) \cup Waiting \cup InFlight \cup tg
Budget ==
    /\ generated \in [Requests -> 0 .. MaxTokens]
    /\ \A r \in MayRun : generated[r] < MaxTokens

\* The metadata of the decode worker's engine is ahead of every request for
\* prefill, and the prefill worker knows where to reply.
Introduced(q, known) == known \/ \E i \in DOMAIN q : q[i].kind = "metadata"
IntroducedFirst(q, known) ==
    \A i \in DOMAIN q : q[i].kind = "prefill" =>
        known \/ \E j \in DOMAIN q : j < i /\ q[j].kind = "metadata"
Addressed ==
    /\ Encoding \subseteq reply_context
    /\ Encoding # {} => connected
    /\ IntroducedFirst(toPrefill, connected)
    /\ "prefill" \in remote_endpoints => Introduced(toPrefill, connected)

Accounts == Labels /\ Counted /\ Budget /\ Addressed

\* The steps that change the records of the decode worker.
LEMMA WhoChangesRecords ==
  ASSUME [Next]_vars
  PROVE  \/ UNCHANGED <<phase, replica_idx, prefill_reqs_per_replica>>
         \/ handle_prefill_response \/ ReserveOne \/ check_for_completed_transfers
         \/ \E r \in Requests : EvictOne(r) \/ CancelAwaiting(r)
<1>. USE DEF decodeRecord
<1>1. CASE ClientStep BY <1>1 DEF ClientStep, Submit, Cancel
<1>2. CASE DecodeStep
  <2>1. CASE RecvMetadata \/ RepliesDrained \/ ReserveFails \/ ReserveDone \/ DrainRequests
    BY <2>1 DEF RecvMetadata, RepliesDrained, ReserveFails, ReserveDone, DrainRequests
  <2>2. CASE \E r \in Requests : CancelRunning(r) \/ CancelUnknown(r) \/ CancelTransferring(r)
    BY <2>2 DEF CancelRunning, CancelUnknown, CancelTransferring
  <2>3. CASE schedule BY <2>3 DEF schedule
  <2>. QED BY <1>2, <2>1, <2>2, <2>3 DEF DecodeStep
<1>3. CASE PrefillStep
  <2>1. UNCHANGED decode
    BY <1>3 DEF PrefillStep, handle_cancel_request, handle_transfer_engine_request,
       handle_prefill_request, cleanup_active_transfers, GrammarReady, GrammarFailed,
       PrefillSchedule, initiate_transfer_and_send_reply
  <2>. QED BY <2>1 DEF decode
<1>4. CASE \E r \in Requests : Age(r) \/ Land(r) BY <1>4 DEF Age, Land
<1>5. CASE UNCHANGED vars BY <1>5 DEF vars
<1>. QED BY <1>1, <1>2, <1>3, <1>4, <1>5 DEF Next

\* A recorded request is forgotten: its replica counts one less.
LEMMA ForgetCounted ==
  ASSUME Inv, Counted, NEW r \in InFlight, Forget(r)
  PROVE  Counted' /\ InFlight' = InFlight \ {r}
<1>1. r \in Requests /\ InFlight' = InFlight \ {r} /\ replica_idx' = replica_idx
  BY PhaseChange DEF Inv, Types, InFlight, Forget, Phases
<1>2. IsFiniteSet(InFlight') BY <1>1, FS_RemoveElement DEF Counted
<1>3. PICK e \in Replicas : e = replica_idx[r] BY DEF Counted
<1>4. prefill_reqs_per_replica'
        = [d \in Replicas |-> IF d = e THEN prefill_reqs_per_replica[d] - 1
                              ELSE prefill_reqs_per_replica[d]]
  BY <1>3 DEF Forget, Counted
<1>5. ASSUME NEW d \in Replicas
      PROVE  prefill_reqs_per_replica'[d] = Cardinality(InFlightOf(d)')
  <2>1. prefill_reqs_per_replica[d] = Cardinality(InFlightOf(d)) BY DEF Counted
  <2>2. IsFiniteSet(InFlightOf(d)) BY FS_Subset DEF Counted, InFlightOf
  <2>3. CASE d = e
    <3>1. r \in InFlightOf(d) /\ InFlightOf(d)' = InFlightOf(d) \ {r}
      BY <1>1, <1>3, <2>3 DEF InFlightOf
    <3>2. Cardinality(InFlightOf(d) \ {r}) = Cardinality(InFlightOf(d)) - 1
      BY <2>2, <3>1, FS_RemoveElement
    <3>. QED BY <1>4, <2>1, <2>3, <3>1, <3>2
  <2>4. CASE d # e
    <3>1. InFlightOf(d)' = InFlightOf(d) BY <1>1, <1>3, <2>4 DEF InFlightOf
    <3>. QED BY <1>4, <2>1, <2>4, <3>1
  <2>. QED BY <2>3, <2>4
<1>6. prefill_reqs_per_replica' = [d \in Replicas |-> Cardinality(InFlightOf(d)')]
  BY <1>4, <1>5
<1>. QED BY <1>1, <1>2, <1>6 DEF Counted

\* A reservation: the replica chosen counts one more.
LEMMA ReserveCounted == ASSUME Inv, Counted, ReserveOne PROVE Counted'
<1>1. PICK r, e : /\ r = Head(pending_reqs) /\ e \in Replicas
                  /\ phase' = [phase EXCEPT ![r] = "AWAITING_PREFILL"]
                  /\ replica_idx' = [replica_idx EXCEPT ![r] = e]
                  /\ prefill_reqs_per_replica'
                       = [prefill_reqs_per_replica EXCEPT ![e] = @ + 1]
  BY DEF ReserveOne
<1>2. r \in Requests /\ r \notin InFlight
  <2>1. pending_reqs \in Seq(Requests) /\ pending_reqs # <<>>
    BY DEF Inv, Types, ReserveOne, CanReserve
  <2>2. r \in Requests /\ r \in Elements(pending_reqs) BY <1>1, <2>1, TailElements, SMTT(60)
  <2>. QED BY <2>2 DEF Inv, WaitsOnce, Waiting
<1>3. InFlight' = InFlight \cup {r}
  BY <1>1, <1>2, PhaseChange DEF Inv, Types, Phases
<1>4. IsFiniteSet(InFlight') BY <1>3, FS_AddElement DEF Counted
<1>5. /\ replica_idx' \in [Requests -> Replicas \cup {NoReplica}] /\ replica_idx'[r] = e
      /\ \A x \in Requests \ {r} : replica_idx'[x] = replica_idx[x]
  BY <1>1, <1>2 DEF Counted
<1>6. InFlight \subseteq Requests BY DEF InFlight
<1>7. prefill_reqs_per_replica'
        = [d \in Replicas |-> IF d = e THEN prefill_reqs_per_replica[d] + 1
                              ELSE prefill_reqs_per_replica[d]]
  BY <1>1 DEF Counted
<1>8. ASSUME NEW d \in Replicas
      PROVE  prefill_reqs_per_replica'[d] = Cardinality(InFlightOf(d)')
  <2>1. prefill_reqs_per_replica[d] = Cardinality(InFlightOf(d)) BY DEF Counted
  <2>2. IsFiniteSet(InFlightOf(d)) BY FS_Subset DEF Counted, InFlightOf
  <2>3. CASE d = e
    <3>1. r \notin InFlightOf(d) /\ InFlightOf(d)' = InFlightOf(d) \cup {r}
      BY <1>2, <1>3, <1>5, <1>6, <2>3 DEF InFlightOf
    <3>2. Cardinality(InFlightOf(d) \cup {r}) = Cardinality(InFlightOf(d)) + 1
      BY <2>2, <3>1, FS_AddElement
    <3>. QED BY <1>7, <2>1, <2>3, <3>1, <3>2
  <2>4. CASE d # e
    <3>1. InFlightOf(d)' = InFlightOf(d)
      BY <1>2, <1>3, <1>5, <1>6, <2>4 DEF InFlightOf
    <3>. QED BY <1>7, <2>1, <2>4, <3>1
  <2>. QED BY <2>3, <2>4
<1>9. prefill_reqs_per_replica' = [d \in Replicas |-> Cardinality(InFlightOf(d)')]
  BY <1>7, <1>8
<1>10. \A x \in InFlight' : replica_idx'[x] \in Replicas
  BY <1>1, <1>3, <1>5, <1>6 DEF Counted
<1>. QED BY <1>4, <1>5, <1>9, <1>10 DEF Counted

\* Completed transfers: each replica counts as many less as it has of them.
LEMMA CompletedCounted ==
  ASSUME Inv, Counted, check_for_completed_transfers
  PROVE  Counted' /\ InFlight' = InFlight \ Complete
<1>1. PICK C : C = Complete OBVIOUS
<1>2. /\ phase' = [r \in Requests |-> IF r \in C THEN "none" ELSE phase[r]]
      /\ prefill_reqs_per_replica' = [d \in Replicas |->
           prefill_reqs_per_replica[d] - Cardinality({r \in C : replica_idx[r] = d})]
      /\ replica_idx' = replica_idx
  BY <1>1 DEF check_for_completed_transfers
<1>3. C \subseteq InFlight BY <1>1 DEF Complete, Transferring, InFlight
<1>4. InFlight' = InFlight \ C BY <1>2 DEF InFlight
<1>5. IsFiniteSet(InFlight') BY <1>4, FS_Difference DEF Counted
<1>6. ASSUME NEW d \in Replicas
      PROVE  prefill_reqs_per_replica'[d] = Cardinality(InFlightOf(d)')
  <2>1. prefill_reqs_per_replica[d] = Cardinality(InFlightOf(d)) BY DEF Counted
  <2>2. IsFiniteSet(InFlightOf(d)) BY FS_Subset DEF Counted, InFlightOf
  <2>3. InFlightOf(d)' = InFlightOf(d) \ C BY <1>2, <1>4 DEF InFlightOf
  <2>4. {r \in C : replica_idx[r] = d} = InFlightOf(d) \cap C BY <1>3 DEF InFlightOf
  <2>5. Cardinality(InFlightOf(d) \ C)
          = Cardinality(InFlightOf(d)) - Cardinality(InFlightOf(d) \cap C)
    BY <2>2, FS_Difference
  <2>. QED BY <1>2, <2>1, <2>3, <2>4, <2>5
<1>7. prefill_reqs_per_replica' = [d \in Replicas |-> Cardinality(InFlightOf(d)')]
  BY <1>2, <1>6
<1>. QED BY <1>1, <1>2, <1>4, <1>5, <1>7 DEF Counted

\* The counters stay exact on every way in and out of self.requests.
LEMMA CountedNext == ASSUME Inv, Counted, [Next]_vars PROVE Counted'
<1>1. CASE UNCHANGED <<phase, replica_idx, prefill_reqs_per_replica>>
  <2>1. InFlight' = InFlight BY <1>1 DEF InFlight
  <2>2. \A d : InFlightOf(d)' = InFlightOf(d) BY <1>1, <2>1 DEF InFlightOf
  <2>. QED BY <1>1, <2>1, <2>2 DEF Counted
<1>2. CASE handle_prefill_response
  <2>1. UNCHANGED <<replica_idx, prefill_reqs_per_replica>>
    BY <1>2 DEF handle_prefill_response
  <2>2. InFlight' = InFlight
    BY <1>2 DEF handle_prefill_response, InFlight, Inv, Types
  <2>3. \A d : InFlightOf(d)' = InFlightOf(d) BY <2>1, <2>2 DEF InFlightOf
  <2>. QED BY <2>1, <2>2, <2>3 DEF Counted
<1>3. CASE ReserveOne BY <1>3, ReserveCounted
<1>4. CASE check_for_completed_transfers BY <1>4, CompletedCounted
<1>5. ASSUME NEW r \in Requests, EvictOne(r) \/ CancelAwaiting(r) PROVE Counted'
  <2>1. r \in InFlight /\ Forget(r)
    BY <1>5 DEF EvictOne, CancelAwaiting, InFlight, Inv, Types
  <2>. QED BY <2>1, ForgetCounted
<1>. QED BY <1>1, <1>2, <1>3, <1>4, <1>5, WhoChangesRecords

\* No step brings back a request that can no longer run.
LEMMA MayRunShrinks == ASSUME Inv, [Next]_vars PROVE MayRun' \subseteq MayRun
<1>1. CASE UNCHANGED <<submitted, requestQueue, pending_reqs, phase, tg>>
  BY <1>1 DEF MayRun, Waiting, InFlight
<1>2. ASSUME NEW r \in Requests, Submit(r) PROVE MayRun' \subseteq MayRun
  <2>1. Elements(requestQueue') = Elements(requestQueue) \cup {r}
    BY <1>2, AppendElements, SMTT(60) DEF Submit, Inv, Types
  <2>2. /\ submitted' = submitted \cup {r} /\ r \notin submitted
        /\ UNCHANGED <<pending_reqs, phase, tg>>
    BY <1>2 DEF Submit, decodeRecord, running
  <2>. QED BY <2>1, <2>2 DEF MayRun, Waiting, InFlight
<1>3. CASE DrainRequests
  <2>1. PICK n \in 0 .. Len(requestQueue) :
          /\ pending_reqs' = pending_reqs \o SubSeq(requestQueue, 1, n)
          /\ requestQueue' = SubSeq(requestQueue, n + 1, Len(requestQueue))
    <3>1. Len(requestQueue) \in Nat BY SMTT(60) DEF Inv, Types
    <3>2. PICK n : n = IF Len(requestQueue) < 2 * MaxBatch
                         THEN Len(requestQueue) ELSE 2 * MaxBatch
      OBVIOUS
    <3>3. n \in 0 .. Len(requestQueue) BY <3>1, <3>2, BoundsAssumption, SMTT(60)
    <3>. QED BY <1>3, <3>2, <3>3 DEF DrainRequests
  <2>2. PICK a \in Seq(Requests) : a = SubSeq(requestQueue, 1, n)
    BY CutElements DEF Inv, Types
  <2>3. Elements(requestQueue) = Elements(a) \cup Elements(requestQueue')
    BY <2>1, <2>2, CutElements DEF Inv, Types
  <2>4. Elements(pending_reqs') = Elements(pending_reqs) \cup Elements(a)
    <3>1. pending_reqs' = pending_reqs \o a BY <2>1, <2>2
    <3>2. pending_reqs \in Seq(Requests) BY DEF Inv, Types
    <3>3. Elements(pending_reqs \o a) = Elements(pending_reqs) \cup Elements(a)
      BY <3>2, JoinElements, SMTT(60)
    <3>. QED BY <3>1, <3>3
  <2>5. UNCHANGED <<submitted, phase, tg>> BY <1>3 DEF DrainRequests, decodeRecord, running
  <2>. QED BY <2>3, <2>4, <2>5 DEF MayRun, Waiting, InFlight
<1>4. CASE ReserveOne
  <2>1. PICK r : r = Head(pending_reqs) OBVIOUS
  <2>2. pending_reqs \in Seq(Requests) /\ pending_reqs # <<>>
    BY <1>4 DEF Inv, Types, ReserveOne, CanReserve
  <2>3. r \in Requests /\ Elements(pending_reqs) = Elements(Tail(pending_reqs)) \cup {r}
    BY <2>1, <2>2, TailElements
  <2>4. /\ pending_reqs' = Tail(pending_reqs) /\ UNCHANGED <<submitted, requestQueue, tg>>
        /\ phase' = [phase EXCEPT ![r] = "AWAITING_PREFILL"]
    BY <1>4, <2>1 DEF ReserveOne, client, running
  <2>5. InFlight' = InFlight \cup {r}
    BY <2>3, <2>4, PhaseChange DEF Inv, Types, Phases
  <2>. QED BY <2>3, <2>4, <2>5 DEF MayRun, Waiting
<1>5. ASSUME NEW r \in Requests, EvictOne(r) \/ CancelAwaiting(r)
      PROVE  MayRun' \subseteq MayRun
  <2>1. UNCHANGED <<submitted, requestQueue, pending_reqs, tg>>
    BY <1>5 DEF EvictOne, CancelAwaiting, client, running
  <2>2. InFlight' = InFlight \ {r}
    BY <1>5, PhaseChange DEF EvictOne, CancelAwaiting, Forget, Inv, Types, Phases
  <2>. QED BY <2>1, <2>2 DEF MayRun, Waiting
<1>6. CASE handle_prefill_response
  <2>1. UNCHANGED <<submitted, requestQueue, pending_reqs, tg>>
    BY <1>6 DEF handle_prefill_response, client, running
  <2>2. InFlight' = InFlight
    BY <1>6 DEF handle_prefill_response, InFlight, Inv, Types
  <2>. QED BY <2>1, <2>2 DEF MayRun, Waiting
<1>7. CASE check_for_completed_transfers
  <2>1. UNCHANGED <<submitted, requestQueue, pending_reqs>>
    BY <1>7 DEF check_for_completed_transfers, client
  <2>2. tg' \subseteq tg \cup Complete BY <1>7 DEF check_for_completed_transfers
  <2>3. InFlight' \subseteq InFlight /\ Complete \subseteq InFlight
    BY <1>7 DEF check_for_completed_transfers, InFlight, Complete, Transferring
  <2>. QED BY <2>1, <2>2, <2>3 DEF MayRun, Waiting
<1>8. CASE schedule \/ \E r \in Requests : CancelRunning(r)
  <2>1. tg' \subseteq tg /\ UNCHANGED <<submitted, requestQueue, pending_reqs, phase>>
    BY <1>8 DEF schedule, CancelRunning, client, decodeRecord
  <2>. QED BY <2>1 DEF MayRun, Waiting, InFlight
<1>9. \/ UNCHANGED <<submitted, requestQueue, pending_reqs, phase, tg>>
      \/ \E r \in Requests : \/ Submit(r) \/ EvictOne(r) \/ CancelAwaiting(r)
                             \/ CancelRunning(r)
      \/ DrainRequests \/ ReserveOne \/ handle_prefill_response
      \/ check_for_completed_transfers \/ schedule
  <2>. USE DEF client, decodeRecord, running
  <2>1. CASE ClientStep BY <2>1 DEF ClientStep, Cancel
  <2>2. CASE DecodeStep
    <3>1. CASE RecvMetadata \/ RepliesDrained \/ ReserveFails \/ ReserveDone
      BY <3>1 DEF RecvMetadata, RepliesDrained, ReserveFails, ReserveDone
    <3>2. CASE \E r \in Requests : CancelUnknown(r) \/ CancelTransferring(r)
      BY <3>2 DEF CancelUnknown, CancelTransferring
    <3>. QED BY <2>2, <3>1, <3>2 DEF DecodeStep
  <2>3. CASE PrefillStep
    <3>1. UNCHANGED decode
      BY <2>3 DEF PrefillStep, handle_cancel_request, handle_transfer_engine_request,
         handle_prefill_request, cleanup_active_transfers, GrammarReady, GrammarFailed,
         PrefillSchedule, initiate_transfer_and_send_reply
    <3>. QED BY <3>1 DEF decode
  <2>4. CASE \E r \in Requests : Age(r) \/ Land(r) BY <2>4 DEF Age, Land
  <2>5. CASE UNCHANGED vars BY <2>5 DEF vars
  <2>. QED BY <2>1, <2>2, <2>3, <2>4, <2>5 DEF Next
<1>. QED BY <1>1, <1>2, <1>3, <1>4, <1>5, <1>6, <1>7, <1>8, <1>9

\* Only the decode worker's batch counts tokens, and it lets go of a request
\* with its last one.
LEMMA BudgetNext == ASSUME Inv, Budget, [Next]_vars PROVE Budget'
<1>1. CASE schedule
  <2>1. PICK done \in SUBSET ResponsesOf(prevBatch) :
          /\ \A r \in ResponsesOf(prevBatch) : generated[r] + 1 >= MaxTokens => r \in done
          /\ generated' = [r \in Requests |->
               IF r \in ResponsesOf(prevBatch) THEN generated[r] + 1 ELSE generated[r]]
          /\ tg' = tg \ done
    BY <1>1 DEF schedule
  <2>2. /\ generated \in [Requests -> 0 .. MaxTokens]
        /\ \A r \in MayRun : generated[r] < MaxTokens
    BY DEF Budget
  <2>3. ResponsesOf(prevBatch) \subseteq tg /\ tg \subseteq MayRun /\ tg \subseteq Requests
    BY DEF ResponsesOf, MayRun, Inv, Types
  <2>4. MaxTokens \in Nat BY BoundsAssumption
  <2>5. generated' \in [Requests -> 0 .. MaxTokens]
    <3>1. \A r \in Requests : generated[r] \in 0 .. MaxTokens BY <2>2
    <3>2. \A r \in ResponsesOf(prevBatch) : generated[r] < MaxTokens BY <2>2, <2>3
    <3>. QED BY <2>1, <2>4, <3>1, <3>2, SMTT(60)
  <2>6. MayRun' \subseteq MayRun /\ MayRun' \cap done = {}
    <3>1. UNCHANGED <<submitted, requestQueue, pending_reqs, phase>>
      BY <1>1 DEF schedule, client, decodeRecord
    <3>2. UNCHANGED <<Waiting, InFlight>> BY <3>1, SameSets
    <3>3. MayRun' = (Requests \ submitted) \cup Waiting \cup InFlight \cup (tg \ done)
      BY <2>1, <3>1, <3>2 DEF MayRun
    <3>4. done \subseteq tg BY <2>3
    <3>5. tg \subseteq submitted \ Waiting /\ tg \cap InFlight = {}
      BY DEF Inv, WaitsOnce, Recorded
    <3>. QED BY <3>3, <3>4, <3>5 DEF MayRun
  <2>7. ASSUME NEW r \in MayRun' PROVE generated'[r] < MaxTokens
    <3>1. r \in MayRun /\ r \notin done BY <2>6, <2>7
    <3>2. r \in Requests
      BY <3>1 DEF MayRun, Inv, Types, WaitsOnce, InFlight
    <3>3. generated[r] \in Nat /\ generated[r] < MaxTokens BY <2>2, <2>4, <3>1, <3>2, SMTT(60)
    <3>4. CASE r \in ResponsesOf(prevBatch)
      <4>1. ~(generated[r] + 1 >= MaxTokens) BY <2>1, <3>1, <3>4
      <4>2. generated'[r] = generated[r] + 1 BY <2>1, <3>2, <3>4
      <4>. QED BY <4>1, <4>2, <3>3, <2>4, SMTT(60)
    <3>5. CASE r \notin ResponsesOf(prevBatch) BY <2>1, <3>2, <3>3, <3>5
    <3>. QED BY <3>4, <3>5
  <2>. QED BY <2>5, <2>7 DEF Budget
<1>2. CASE UNCHANGED generated BY <1>2, MayRunShrinks DEF Budget
<1>3. schedule \/ UNCHANGED generated
  <2>. USE DEF running
  <2>1. CASE ClientStep BY <2>1 DEF ClientStep, Submit, Cancel
  <2>2. CASE DecodeStep
    <3>1. CASE RecvMetadata \/ handle_prefill_response \/ RepliesDrained \/ DrainRequests
      BY <3>1 DEF RecvMetadata, handle_prefill_response, RepliesDrained, DrainRequests
    <3>2. CASE ReserveOne \/ ReserveFails \/ ReserveDone \/ check_for_completed_transfers
      BY <3>2 DEF ReserveOne, ReserveFails, ReserveDone, check_for_completed_transfers
    <3>3. CASE \E r \in Requests : EvictOne(r) \/ CancelRunning(r) \/ CancelUnknown(r)
                                   \/ CancelTransferring(r) \/ CancelAwaiting(r)
      BY <3>3 DEF EvictOne, CancelRunning, CancelUnknown, CancelTransferring, CancelAwaiting
    <3>. QED BY <2>2, <3>1, <3>2, <3>3 DEF DecodeStep
  <2>3. CASE PrefillStep
    <3>1. UNCHANGED decode
      BY <2>3 DEF PrefillStep, handle_cancel_request, handle_transfer_engine_request,
         handle_prefill_request, cleanup_active_transfers, GrammarReady, GrammarFailed,
         PrefillSchedule, initiate_transfer_and_send_reply
    <3>. QED BY <3>1 DEF decode
  <2>4. CASE \E r \in Requests : Age(r) \/ Land(r) BY <2>4 DEF Age, Land
  <2>5. CASE UNCHANGED vars BY <2>5 DEF vars
  <2>. QED BY <2>1, <2>2, <2>3, <2>4, <2>5 DEF Next
<1>. QED BY <1>1, <1>2, <1>3

\* A message appended to the prefill worker's queue follows the metadata.
LEMMA IntroducedAppend ==
  ASSUME NEW q \in Seq(ToPrefill), NEW m, NEW known, IntroducedFirst(q, known),
         m.kind = "prefill" => Introduced(q, known)
  PROVE  /\ IntroducedFirst(Append(q, m), known)
         /\ Introduced(q, known) \/ m.kind = "metadata" => Introduced(Append(q, m), known)
<1>1. /\ DOMAIN Append(q, m) = 1 .. Len(q) + 1 /\ DOMAIN q = 1 .. Len(q) /\ Len(q) \in Nat
      /\ \A i \in 1 .. Len(q) : Append(q, m)[i] = q[i]
      /\ Append(q, m)[Len(q) + 1] = m
  BY SMTT(60)
<1>2. IntroducedFirst(Append(q, m), known) BY <1>1, SMTT(60) DEF IntroducedFirst, Introduced
<1>3. ASSUME Introduced(q, known) \/ m.kind = "metadata"
      PROVE  Introduced(Append(q, m), known)
  BY <1>1, <1>3, SMTT(60) DEF Introduced
<1>. QED BY <1>2, <1>3

\* The first message is taken: the rest of the queue still follows the
\* metadata, if the worker remembers that it was the metadata.
LEMMA IntroducedTail ==
  ASSUME NEW q \in Seq(ToPrefill), q # <<>>, NEW known, NEW knows,
         IntroducedFirst(q, known), known => knows,
         Head(q).kind = "metadata" => knows
  PROVE  /\ IntroducedFirst(Tail(q), knows)
         /\ Introduced(q, known) => Introduced(Tail(q), knows)
         /\ Head(q).kind = "prefill" => known
<1>1. /\ Len(q) \in Nat \ {0} /\ DOMAIN q = 1 .. Len(q) /\ Head(q) = q[1]
      /\ DOMAIN Tail(q) = 1 .. Len(q) - 1
      /\ \A i \in 1 .. Len(q) - 1 : Tail(q)[i] = q[i + 1]
  BY SMTT(60)
<1>2. ASSUME NEW i \in DOMAIN q, q[i].kind = "metadata"
      PROVE  knows \/ (i - 1 \in DOMAIN Tail(q) /\ Tail(q)[i - 1].kind = "metadata")
  BY <1>1, <1>2, SMTT(60)
<1>3. ASSUME NEW i \in DOMAIN Tail(q), Tail(q)[i].kind = "prefill"
      PROVE  knows \/ \E j \in DOMAIN Tail(q) : j < i /\ Tail(q)[j].kind = "metadata"
  <2>1. i + 1 \in DOMAIN q /\ q[i + 1].kind = "prefill" /\ i \in Nat BY <1>1, <1>3, SMTT(60)
  <2>2. CASE known BY <2>2
  <2>3. CASE \E j \in DOMAIN q : j < i + 1 /\ q[j].kind = "metadata"
    <3>1. PICK j \in DOMAIN q : j < i + 1 /\ q[j].kind = "metadata" BY <2>3
    <3>2. knows \/ (j - 1 \in DOMAIN Tail(q) /\ Tail(q)[j - 1].kind = "metadata")
      BY <1>2, <3>1
    <3>3. j - 1 < i BY <1>1, <2>1, <3>1, SMTT(60)
    <3>. QED BY <3>2, <3>3
  <2>. QED BY <2>1, <2>2, <2>3 DEF IntroducedFirst
<1>4. IntroducedFirst(Tail(q), knows) BY <1>3 DEF IntroducedFirst
<1>5. Introduced(q, known) => Introduced(Tail(q), knows) BY <1>2 DEF Introduced
<1>6. Head(q).kind = "prefill" => known BY <1>1, SMTT(60) DEF IntroducedFirst
<1>. QED BY <1>4, <1>5, <1>6

\* A cancellation sent to the prefill worker changes nobody's place.
LEMMA CancelAddressed ==
  ASSUME Inv, Addressed, NEW r \in Requests,
         \/ UNCHANGED toPrefill
         \/ toPrefill' = Append(toPrefill, Message("cancel", r)),
         UNCHANGED <<remote_endpoints, prefill>>
  PROVE  Addressed'
<1>1. UNCHANGED <<Encoding, connected, reply_context, remote_endpoints>>
  BY DEF prefill, Encoding
<1>2. CASE UNCHANGED toPrefill BY <1>1, <1>2 DEF Addressed
<1>3. CASE toPrefill' = Append(toPrefill, Message("cancel", r))
  <2>1. toPrefill \in Seq(ToPrefill) BY DEF Inv, Types
  <2>2. Message("cancel", r).kind # "prefill" BY DEF Message
  <2>3. /\ IntroducedFirst(toPrefill', connected)
        /\ Introduced(toPrefill, connected) => Introduced(toPrefill', connected)
    BY <1>3, <2>1, <2>2, IntroducedAppend DEF Addressed
  <2>4. IntroducedFirst(toPrefill, connected)' /\ (Introduced(toPrefill, connected) =>
          Introduced(toPrefill, connected)')
    BY <1>1, <2>3
  <2>. QED BY <1>1, <2>4 DEF Addressed
<1>. QED BY <1>2, <1>3

\* The decode worker sends its metadata before its first request for prefill.
LEMMA ReserveAddressed == ASSUME Inv, Addressed, ReserveOne PROVE Addressed'
<1>. DEFINE q == IF "prefill" \in remote_endpoints THEN toPrefill
                   ELSE Append(toPrefill, Metadata)
<1>1. PICK blocks : toPrefill' = Append(q, PrefillRequest(Head(pending_reqs), blocks))
  BY DEF ReserveOne
<1>2. UNCHANGED <<Encoding, connected, reply_context>> BY DEF ReserveOne, prefill, Encoding
<1>3. toPrefill \in Seq(ToPrefill) /\ Metadata \in ToPrefill BY DEF Inv, Types, ToPrefill
<1>4. q \in Seq(ToPrefill) BY <1>3, AppendElements
<1>5. Metadata.kind = "metadata" BY DEF Metadata
<1>6. IntroducedFirst(q, connected) /\ Introduced(q, connected)
  BY <1>3, <1>5, IntroducedAppend DEF Addressed
<1>7. /\ IntroducedFirst(toPrefill', connected) /\ Introduced(toPrefill', connected)
  <2>. HIDE DEF q
  <2>. QED BY <1>1, <1>4, <1>6, IntroducedAppend
<1>8. IntroducedFirst(toPrefill, connected)' /\ Introduced(toPrefill, connected)'
  BY <1>2, <1>7
<1>. QED BY <1>2, <1>8 DEF Addressed

\* The prefill worker takes a message.
LEMMA TakeAddressed ==
  ASSUME Inv, Addressed, UNCHANGED decode,
         handle_cancel_request \/ handle_transfer_engine_request \/ handle_prefill_request
  PROVE  Addressed'
<1>1. /\ toPrefill \in Seq(ToPrefill) /\ toPrefill # <<>> /\ toPrefill' = Tail(toPrefill)
      /\ UNCHANGED remote_endpoints
  BY DEF handle_cancel_request, handle_transfer_engine_request, handle_prefill_request,
         NextRequest, Inv, Types, decode
<1>2. connected => connected'
  BY DEF handle_cancel_request, handle_transfer_engine_request, handle_prefill_request
<1>3. Head(toPrefill).kind = "metadata" => connected'
  BY DEF handle_cancel_request, handle_transfer_engine_request, handle_prefill_request,
         NextRequest
<1>4. /\ IntroducedFirst(toPrefill, connected)'
      /\ Introduced(toPrefill, connected) => Introduced(toPrefill, connected)'
      /\ Head(toPrefill).kind = "prefill" => connected
  <2>1. IntroducedFirst(toPrefill, connected) BY DEF Addressed
  <2>2. /\ IntroducedFirst(Tail(toPrefill), connected')
        /\ Introduced(toPrefill, connected) => Introduced(Tail(toPrefill), connected')
        /\ Head(toPrefill).kind = "prefill" => connected
    BY <1>1, <1>2, <1>3, <2>1, IntroducedTail, SMTT(60)
  <2>. QED BY <1>1, <2>2
<1>5. CASE handle_cancel_request \/ handle_transfer_engine_request
  <2>1. UNCHANGED <<Encoding, reply_context>>
    BY <1>5 DEF handle_cancel_request, handle_transfer_engine_request, Encoding
  <2>. QED BY <1>1, <1>2, <1>4, <2>1 DEF Addressed
<1>6. CASE handle_prefill_request
  <2>1. PICK r : r = Head(toPrefill).id OBVIOUS
  <2>2. /\ gate' = gate \cup ({r} \cap Constrained)
        /\ ce' = IF r \in Constrained THEN ce ELSE Append(ce, r)
        /\ reply_context' = reply_context \cup {r}
        /\ UNCHANGED <<pending_first_token, responses, connected>>
        /\ Head(toPrefill).kind = "prefill"
    BY <1>6, <2>1 DEF handle_prefill_request, NextRequest
  <2>3. r \in Requests
    <3>1. Head(toPrefill) \in ToPrefill BY <1>1, SMTT(60)
    <3>. QED BY <2>1, <2>2, <3>1, MessageKinds
  <2>4. Elements(ce') \subseteq Elements(ce) \cup {r}
    BY <2>2, <2>3, AppendElements, SMTT(60) DEF Inv, Types
  <2>5. Encoding' \subseteq Encoding \cup {r} BY <2>2, <2>4 DEF Encoding
  <2>6. connected' BY <1>4, <2>2
  <2>. QED BY <1>1, <1>4, <2>2, <2>5, <2>6 DEF Addressed
<1>. QED BY <1>5, <1>6

\* The prefill worker's own steps move requests on and let go of a reply
\* context only with its request.
LEMMA EncodeAddressed ==
  ASSUME Inv, Addressed, UNCHANGED decode,
         \/ cleanup_active_transfers \/ PrefillSchedule \/ initiate_transfer_and_send_reply
         \/ \E r \in Requests : GrammarReady(r) \/ GrammarFailed(r)
  PROVE  Addressed'
<1>1. UNCHANGED <<toPrefill, connected, remote_endpoints>>
  BY DEF cleanup_active_transfers, PrefillSchedule, initiate_transfer_and_send_reply,
         GrammarReady, GrammarFailed, decode
<1>2. /\ ce \in Seq(Requests) /\ pending_first_token \in Seq(Requests)
      /\ responses \in Seq(Requests)
  BY DEF Inv, Types
<1>3. Encoding' \subseteq Encoding /\ Encoding' \subseteq reply_context'
  <2>0. Encoding \subseteq reply_context BY DEF Addressed
  <2>1. CASE cleanup_active_transfers
    BY <2>0, <2>1 DEF cleanup_active_transfers, Encoding
  <2>2. CASE PrefillSchedule
    <3>1. /\ responses' = pending_first_token /\ pending_first_token' = SubSeq(ce, 1, BatchSize)
          /\ ce' = SubSeq(ce, BatchSize + 1, Len(ce)) /\ UNCHANGED <<gate, reply_context>>
      BY <2>2 DEF PrefillSchedule
    <3>2. BatchSize \in 0 .. Len(ce)
      <4>1. /\ Len(ce) \in Nat /\ Len(pending_first_token) \in Nat /\ Len(responses) \in Nat
        BY <1>2, SMTT(60)
      <4>2. Cardinality(active_transfers) \in Nat
        BY FS_CardinalityType DEF Inv, Room
      <4>3. PrefillSlots \in Nat BY BoundsAssumption
      <4>4. SlotsInUse \in Nat /\ SlotsInUse <= PrefillSlots
        BY <4>1, <4>2, <4>3, SMTT(60) DEF SlotsInUse, Inv, Room
      <4>. QED BY <4>1, <4>3, <4>4, SMTT(60) DEF BatchSize
    <3>3. Elements(ce) = Elements(pending_first_token') \cup Elements(ce')
      BY <1>2, <3>1, <3>2, CutElements
    <3>4. Encoding' \subseteq Encoding BY <3>1, <3>3 DEF Encoding
    <3>. QED BY <2>0, <3>1, <3>4
  <2>3. CASE initiate_transfer_and_send_reply
    <3>1. PICK r : r = Head(responses) OBVIOUS
    <3>2. /\ responses # <<>> /\ responses' = Tail(responses)
          /\ reply_context' = reply_context \ {r}
          /\ UNCHANGED <<gate, ce, pending_first_token>>
      BY <2>3, <3>1 DEF initiate_transfer_and_send_reply
    <3>3. /\ Elements(responses) = Elements(responses') \cup {r}
          /\ r \notin Elements(responses')
      BY <1>2, <3>1, <3>2, TailElements DEF Inv, OneStation
    <3>4. r \notin gate \cup Elements(ce) \cup Elements(pending_first_token)
      BY <3>3 DEF Inv, OneStation
    <3>5. Encoding' \subseteq Encoding \ {r} BY <3>2, <3>3, <3>4 DEF Encoding
    <3>. QED BY <2>0, <3>2, <3>5
  <2>4. ASSUME NEW r \in Requests, GrammarReady(r)
        PROVE  Encoding' \subseteq Encoding /\ Encoding' \subseteq reply_context'
    <3>1. /\ r \in gate /\ gate' = gate \ {r} /\ ce' = Append(ce, r)
          /\ UNCHANGED <<reply_context, pending_first_token, responses>>
      BY <2>4 DEF GrammarReady
    <3>2. Elements(ce') = Elements(ce) \cup {r} BY <1>2, <3>1, AppendElements, SMTT(60)
    <3>3. Encoding' \subseteq Encoding BY <3>1, <3>2 DEF Encoding
    <3>. QED BY <2>0, <3>1, <3>3
  <2>5. ASSUME NEW r \in Requests, GrammarFailed(r)
        PROVE  Encoding' \subseteq Encoding /\ Encoding' \subseteq reply_context'
    <3>1. /\ r \in gate /\ gate' = gate \ {r} /\ reply_context' = reply_context \ {r}
          /\ UNCHANGED <<ce, pending_first_token, responses>>
      BY <2>5 DEF GrammarFailed
    <3>2. r \notin Elements(ce) \cup Elements(pending_first_token) \cup Elements(responses)
      BY <3>1 DEF Inv, OneStation
    <3>3. Encoding' \subseteq Encoding \ {r} BY <3>1, <3>2 DEF Encoding
    <3>. QED BY <2>0, <3>1, <3>3
  <2>. QED BY <2>1, <2>2, <2>3, <2>4, <2>5
<1>4. UNCHANGED <<IntroducedFirst(toPrefill, connected), Introduced(toPrefill, connected)>>
  BY <1>1
<1>. QED BY <1>1, <1>3, <1>4 DEF Addressed

\* The metadata stays ahead, and the reply contexts stay, on every step.
LEMMA AddressedNext == ASSUME Inv, Addressed, [Next]_vars PROVE Addressed'
<1>0. ASSUME UNCHANGED <<toPrefill, remote_endpoints, prefill>> PROVE Addressed'
  <2>1. UNCHANGED <<Encoding, connected, reply_context, toPrefill, remote_endpoints>>
    BY <1>0 DEF prefill, Encoding
  <2>. QED BY <2>1 DEF Addressed
<1>1. CASE ClientStep BY <1>0, <1>1 DEF ClientStep, Submit, Cancel
<1>2. CASE DecodeStep
  <2>1. CASE RecvMetadata \/ handle_prefill_response \/ RepliesDrained \/ DrainRequests
    BY <1>0, <2>1 DEF RecvMetadata, handle_prefill_response, RepliesDrained, DrainRequests
  <2>2. CASE ReserveFails \/ ReserveDone \/ check_for_completed_transfers \/ schedule
    BY <1>0, <2>2 DEF ReserveFails, ReserveDone, check_for_completed_transfers, schedule
  <2>3. CASE \E r \in Requests : CancelRunning(r) \/ CancelUnknown(r)
    BY <1>0, <2>3 DEF CancelRunning, CancelUnknown
  <2>4. ASSUME NEW r \in Requests, EvictOne(r) \/ CancelTransferring(r) \/ CancelAwaiting(r)
        PROVE  Addressed'
    <3>1. /\ \/ UNCHANGED toPrefill
             \/ toPrefill' = Append(toPrefill, Message("cancel", r))
          /\ UNCHANGED <<remote_endpoints, prefill>>
      BY <2>4 DEF EvictOne, CancelTransferring, CancelAwaiting
    <3>. QED BY <3>1, CancelAddressed
  <2>. QED BY <1>2, <2>1, <2>2, <2>3, <2>4, ReserveAddressed DEF DecodeStep
<1>3. CASE PrefillStep
  <2>1. UNCHANGED decode
    BY <1>3 DEF PrefillStep, handle_cancel_request, handle_transfer_engine_request,
       handle_prefill_request, cleanup_active_transfers, GrammarReady, GrammarFailed,
       PrefillSchedule, initiate_transfer_and_send_reply
  <2>. QED BY <1>3, <2>1, TakeAddressed, EncodeAddressed DEF PrefillStep
<1>4. CASE \E r \in Requests : Age(r) \/ Land(r) BY <1>0, <1>4 DEF Age, Land
<1>5. CASE UNCHANGED vars BY <1>0, <1>5 DEF vars
<1>. QED BY <1>1, <1>2, <1>3, <1>4, <1>5 DEF Next

\* Both loops go from step to step, and who leaves has submitted.
LEMMA LabelsNext == ASSUME Inv, Labels, [Next]_vars PROVE Labels'
<1>. USE DEF Labels
<1>1. CASE ClientStep BY <1>1 DEF ClientStep, Submit, Cancel, running, prefill
<1>2. CASE DecodeStep
  <2>0. UNCHANGED prefill
    <3>1. CASE RecvMetadata \/ handle_prefill_response \/ RepliesDrained \/ DrainRequests
      BY <3>1 DEF RecvMetadata, handle_prefill_response, RepliesDrained, DrainRequests
    <3>2. CASE ReserveOne \/ ReserveFails \/ ReserveDone
               \/ check_for_completed_transfers \/ schedule
      BY <3>2 DEF ReserveOne, ReserveFails, ReserveDone, check_for_completed_transfers,
                  schedule
    <3>3. CASE \E r \in Requests : EvictOne(r) \/ CancelRunning(r) \/ CancelUnknown(r)
                                   \/ CancelTransferring(r) \/ CancelAwaiting(r)
      BY <3>3 DEF EvictOne, CancelRunning, CancelUnknown, CancelTransferring, CancelAwaiting
    <3>. QED BY <1>2, <3>1, <3>2, <3>3 DEF DecodeStep
  <2>1. UNCHANGED <<ppc, outstanding_cancelled>> BY <2>0 DEF prefill
  <2>2. CASE RecvMetadata \/ handle_prefill_response \/ RepliesDrained \/ DrainRequests
    BY <2>1, <2>2 DEF RecvMetadata, handle_prefill_response, RepliesDrained, DrainRequests,
       client, running
  <2>3. CASE ReserveOne \/ ReserveFails \/ ReserveDone \/ check_for_completed_transfers
    BY <2>1, <2>3 DEF ReserveOne, ReserveFails, ReserveDone, check_for_completed_transfers,
       client, running
  <2>4. CASE schedule BY <2>1, <2>4 DEF schedule, client, Inv, Types
  <2>5. CASE \E r \in Requests : EvictOne(r) \/ CancelRunning(r) \/ CancelUnknown(r)
                                 \/ CancelTransferring(r) \/ CancelAwaiting(r)
    BY <2>1, <2>5 DEF EvictOne, CancelRunning, CancelUnknown, CancelTransferring,
       CancelAwaiting, client, running
  <2>. QED BY <1>2, <2>2, <2>3, <2>4, <2>5 DEF DecodeStep
<1>3. CASE PrefillStep
  <2>1. UNCHANGED decode
    BY <1>3 DEF PrefillStep, handle_cancel_request, handle_transfer_engine_request,
       handle_prefill_request, cleanup_active_transfers, GrammarReady, GrammarFailed,
       PrefillSchedule, initiate_transfer_and_send_reply
  <2>2. UNCHANGED <<submitted, left, dpc, prevBatch>> BY <2>1 DEF decode, client, running
  <2>3. CASE handle_cancel_request
    <3>1. Head(toPrefill) \in ToPrefill /\ Head(toPrefill).kind = "cancel"
      BY <2>3, SMTT(60) DEF handle_cancel_request, NextRequest, Inv, Types
    <3>2. Head(toPrefill).id \in Requests BY <3>1, MessageKinds
    <3>. QED BY <2>2, <2>3, <3>2 DEF handle_cancel_request
  <2>4. CASE handle_transfer_engine_request \/ handle_prefill_request
             \/ cleanup_active_transfers \/ PrefillSchedule
    BY <2>2, <2>4 DEF handle_transfer_engine_request, handle_prefill_request,
       cleanup_active_transfers, PrefillSchedule
  <2>5. CASE \E r \in Requests : GrammarReady(r) \/ GrammarFailed(r)
    BY <2>2, <2>5 DEF GrammarReady, GrammarFailed
  <2>6. CASE initiate_transfer_and_send_reply
    BY <2>2, <2>6 DEF initiate_transfer_and_send_reply
  <2>. QED BY <1>3, <2>3, <2>4, <2>5, <2>6 DEF PrefillStep
<1>4. CASE \E r \in Requests : Age(r) \/ Land(r)
  BY <1>4 DEF Age, Land, client, running, prefill
<1>5. CASE UNCHANGED vars BY <1>5 DEF vars, client, running, prefill
<1>. QED BY <1>1, <1>2, <1>3, <1>4, <1>5 DEF Next

\* At the start nothing is counted, sent or generated.
LEMMA InitAccounts == Init => Accounts
<1>. SUFFICES ASSUME Init PROVE Accounts OBVIOUS
<1>1. Elements(<<>>) = {} BY SMTT(60) DEF Elements
<1>2. InFlight = {} /\ Encoding = {} BY <1>1 DEF Init, InFlight, Encoding
<1>3. Labels BY DEF Init, Labels
<1>4. Counted
  <2>1. \A d \in Replicas : InFlightOf(d) = {} BY <1>2 DEF InFlightOf
  <2>2. \A d \in Replicas : Cardinality(InFlightOf(d)) = 0 BY <2>1, FS_EmptySet
  <2>. QED BY <1>2, <2>2, FS_EmptySet DEF Init, Counted
<1>5. Budget
  <2>1. MayRun \subseteq Requests BY <1>1, <1>2 DEF Init, MayRun, Waiting
  <2>2. generated = [r \in Requests |-> 0] BY DEF Init
  <2>. QED BY <2>1, <2>2, BoundsAssumption, SMTT(60) DEF Budget
<1>6. Addressed BY <1>2, SMTT(60) DEF Init, Addressed, IntroducedFirst
<1>. QED BY <1>3, <1>4, <1>5, <1>6 DEF Accounts

\* The decode worker's counters, token budgets and the prefill worker's
\* ability to reply hold together with the serving invariant.
THEOREM AccountsInvariant == Spec => []Accounts
<1>1. Inv /\ Accounts /\ [Next]_vars => Accounts'
  BY LabelsNext, CountedNext, BudgetNext, AddressedNext DEF Accounts
<1>. QED BY <1>1, InitAccounts, ServingInvariant, PTL DEF Spec

\* Every variable keeps its type, the counter of a replica is the number of
\* its recorded requests on every way out of self.requests, and whatever the
\* prefill worker has encoded can be sent.
THEOREM TypeCorrect == Spec => []TypeOK
<1>1. Inv /\ Accounts => TypeOK
  <2>. SUFFICES ASSUME Inv, Accounts PROVE TypeOK OBVIOUS
  <2>1. Elements(pending_first_token \o responses)
          = Elements(pending_first_token) \cup Elements(responses)
    BY JoinElements, SMTT(60) DEF Inv, Types
  <2>2. Elements(pending_first_token \o responses) \subseteq Encoding BY <2>1 DEF Encoding
  <2>3. Encoding \subseteq Requests
    BY DEF Inv, WaitsOnce, AtStation, Types
  <2>4. \A r \in Elements(pending_first_token \o responses) : connected /\ r \in reply_context
    BY <2>2 DEF Accounts, Addressed
  <2>5. gate \cup Elements(ce) \cup Elements(pending_first_token \o responses)
          \cup active_transfers \cup outstanding_cancelled \subseteq Requests
    BY <2>2, <2>3 DEF Encoding, Accounts, Labels, Inv, Types
  <2>6. \A d \in Replicas : prefill_reqs_per_replica[d]
                              = Cardinality({r \in InFlight : replica_idx[r] = d})
    BY DEF Accounts, Counted, InFlightOf
  <2>7. cancelled \subseteq Transferring BY DEF Inv, Ended
  <2>8. generated \in [Requests -> 0 .. MaxTokens] BY DEF Accounts, Budget
  <2>9. replica_idx \in [Requests -> Replicas \cup {NoReplica}] BY DEF Accounts, Counted
  <2>. QED BY <2>4, <2>5, <2>6, <2>7, <2>8, <2>9
       DEF TypeOK, Accounts, Labels, Inv, Types, Answers
<1>. QED BY <1>1, ServingInvariant, AccountsInvariant, PTL

=============================================================================
