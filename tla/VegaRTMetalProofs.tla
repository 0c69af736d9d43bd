------------------------- MODULE VegaRTMetalProofs -------------------------
(***************************************************************************)
(* Theorems about VegaRTMetal, for any number of threads, draining or not, *)
(* of calls, dispatches in a batch and pending buffers: the ownership of   *)
(* command buffers, the teardown of a context, what a drain observes and   *)
(* the limits on batches and on buffers in flight.                         *)
(***************************************************************************)
EXTENDS VegaRTMetal, TLAPS

\* The prover of every leaf that names no other.
USE ZenonT(120)

States == {"encoding", "committed", "done", "failed"}

\* Appending an element adds it, and repeats nothing if the element is new.
LEMMA AppendRange ==
  ASSUME NEW S, NEW s \in Seq(S), NEW e \in S
  PROVE  /\ Append(s, e) \in Seq(S)
         /\ Range(Append(s, e)) = Range(s) \cup {e}
         /\ IsInjective(s) /\ e \notin Range(s) => IsInjective(Append(s, e))
<1>. DEFINE u == Append(s, e)
<1>1. /\ u \in Seq(S) /\ Len(s) \in Nat /\ DOMAIN s = 1 .. Len(s)
      /\ DOMAIN u = 1 .. Len(s) + 1 /\ u[Len(s) + 1] = e
      /\ \A i \in 1 .. Len(s) : u[i] = s[i]
  BY SMTT(60)
<1>. HIDE DEF u
<1>2. /\ Len(s) + 1 \in DOMAIN u /\ DOMAIN s \subseteq DOMAIN u
      /\ \A i \in DOMAIN u : i \in DOMAIN s \/ i = Len(s) + 1
  BY <1>1, SMTT(60)
<1>3. Range(u) = Range(s) \cup {e} BY <1>1, <1>2 DEF Range
<1>4. IsInjective(s) /\ e \notin Range(s) => IsInjective(u)
  BY <1>1, <1>2 DEF Range, IsInjective
<1>. QED BY <1>1, <1>3, <1>4 DEF u

\* Taking the head of a sequence without repetitions takes it for good.
LEMMA TailRange ==
  ASSUME NEW S, NEW s \in Seq(S), s # <<>>
  PROVE  /\ Tail(s) \in Seq(S) /\ Head(s) \in S
         /\ Range(s) = Range(Tail(s)) \cup {Head(s)}
         /\ IsInjective(s) => IsInjective(Tail(s)) /\ Head(s) \notin Range(Tail(s))
<1>1. /\ Tail(s) \in Seq(S) /\ Head(s) = s[1] /\ Len(s) \in Nat \ {0}
      /\ DOMAIN s = 1 .. Len(s) /\ DOMAIN Tail(s) = 1 .. Len(s) - 1
      /\ s[1] \in S /\ \A i \in 1 .. Len(s) - 1 : Tail(s)[i] = s[i + 1]
  BY SMTT(60)
<1>2. ASSUME NEW i \in 1 .. Len(s)
      PROVE  s[i] \in Range(Tail(s)) \cup {Head(s)}
  <2>1. CASE i = 1 BY <1>1, <2>1
  <2>2. CASE i # 1
    <3>1. i - 1 \in 1 .. Len(s) - 1 /\ Tail(s)[i - 1] = s[i] BY <1>1, <2>2, SMTT(60)
    <3>. QED BY <1>1, <3>1 DEF Range
  <2>. QED BY <2>1, <2>2
<1>3. Range(Tail(s)) \cup {Head(s)} \subseteq Range(s) BY <1>1, SMTT(60) DEF Range
<1>4. Range(s) = Range(Tail(s)) \cup {Head(s)}
  BY <1>1, <1>2, <1>3, SMTT(60) DEF Range
<1>5. ASSUME IsInjective(s)
      PROVE  IsInjective(Tail(s)) /\ Head(s) \notin Range(Tail(s))
  BY <1>1, <1>5, SMTT(60) DEF Range, IsInjective
<1>. QED BY <1>1, <1>4, <1>5

\* The sequence without elements is the only one of length zero.
LEMMA EmptyLength ==
  ASSUME NEW S
  PROVE  Len(<<>>) = 0 /\ \A s \in Seq(S) : s # <<>> => Len(s) \in Nat \ {0}
  BY SMTT(60)

\* A sequence of one element.
LEMMA OneRange ==
  ASSUME NEW S, NEW e \in S
  PROVE  /\ <<e>> \in Seq(S) /\ Range(<<e>>) = {e} /\ IsInjective(<<e>>)
         /\ Head(<<e>>) = e /\ Tail(<<e>>) = <<>>
  BY SMTT(60) DEF Range, IsInjective

\* A sequence of length one is its head.
LEMMA OneLong ==
  ASSUME NEW S, NEW s \in Seq(S), Len(s) = 1
  PROVE  /\ s = <<Head(s)>> /\ Head(s) \in S /\ Tail(s) = <<>> /\ s # <<>>
<1>1. /\ Head(s) = s[1] /\ Head(s) \in S /\ Len(Tail(s)) = 0 /\ Tail(s) \in Seq(S)
      /\ s # <<>>
  BY SMTT(60)
<1>2. /\ <<Head(s)>> \in Seq(S) /\ Len(<<Head(s)>>) = 1 /\ <<Head(s)>>[1] = s[1]
  BY <1>1, SMTT(60)
<1>3. s = <<Head(s)>> BY <1>2, SMTT(60)
<1>. QED BY <1>1, <1>3, EmptyLength

\* The sequence without elements.
LEMMA EmptyRange == \A S : <<>> \in Seq(S) /\ Range(<<>>) = {} /\ IsInjective(<<>>)
  BY SMTT(60) DEF Range, IsInjective

\* Appending to the sequence of statuses creates the command buffer Fresh.
LEMMA Created ==
  ASSUME status \in Seq(States), NEW s \in States, status' = Append(status, s)
  PROVE  /\ Fresh \in Nat \ {0} /\ Fresh \notin Buffers
         /\ Buffers' = Buffers \cup {Fresh}
         /\ status' \in Seq(States) /\ Len(status') = Len(status) + 1
         /\ \A cb \in Buffers : status'[cb] = status[cb]
         /\ status'[Fresh] = s
  BY SMTT(60) DEF Fresh, Buffers

\* Joining with one element, or none.
LEMMA JoinOne ==
  ASSUME NEW S, NEW s \in Seq(S), NEW e \in S
  PROVE  s \o <<e>> = Append(s, e) /\ s \o <<>> = s
  BY SMTT(60)

-----------------------------------------------------------------------------
(* The invariant. *)

Types ==
  /\ mode \in {"batched", "queued", "sync"}
  /\ status \in Seq(States) /\ released \in Seq(Nat) /\ Len(released) = Len(status)
  /\ queue \in Seq(Nat) /\ pending \in Seq(Nat) /\ waiting \in [Threads -> Seq(Nat)]
  /\ Range(queue) \cup Range(pending) \subseteq Buffers
  /\ openBatch \in Buffers \cup {None}
  /\ \A t \in Threads : Range(waiting[t]) \subseteq Buffers

\* A buffer is committed once, and not while it is the open batch; the device
\* finishes the committed ones in order.
Device ==
  /\ IsInjective(queue)
  /\ \A k \in DOMAIN queue : status[queue[k]] # "encoding"
  /\ openBatch # None => status[openBatch] = "encoding"
  /\ \A i, j \in DOMAIN queue : i < j /\ Finished(queue[j]) => Finished(queue[i])

\* What a thread waits for fits the call it is in.
Locals ==
  /\ pc \in [Threads -> {"idle", "reap", "queued", "sync", "drain", "blit"}]
  /\ op \in [Threads -> Calls \cup {"none", "destroy"}]
  /\ \A t \in Threads :
       /\ pc[t] = "idle" => waiting[t] = <<>>
       /\ pc[t] \in {"reap", "queued", "sync"} => Len(waiting[t]) = 1
       /\ pc[t] = "blit" => Len(waiting[t]) <= 1

\* The thread that destroys the context has taken everything, and is alone.
Teardown ==
  \A t \in Threads : op[t] = "destroy" =>
    /\ pending = <<>> /\ openBatch = None /\ pc[t] \in {"drain", "idle"}
    /\ \A u \in Threads \ {t} : pc[u] = "idle"

Data == Types /\ Device /\ OwnedUntilWaited
Inv == Data /\ Locals /\ Teardown

\* Buffers are numbered from 1; None is the number of no buffer.
LEMMA Numbers ==
  ASSUME Types
  PROVE  /\ Buffers = 1 .. Len(status) /\ Len(status) \in Nat /\ Buffers \subseteq Nat
         /\ None \notin Buffers /\ openBatch \in Nat /\ None \in Nat
<1>1. Buffers = 1 .. Len(status) /\ Len(status) \in Nat BY SMTT(60) DEF Types, Buffers
<1>2. Buffers \subseteq Nat /\ None \notin Buffers /\ None \in Nat BY <1>1, SMTT(60) DEF None
<1>. QED BY <1>1, <1>2 DEF Types

\* Who holds a buffer, before and after a step.
LEMMA HeldBy ==
  ASSUME NEW x
  PROVE  /\ x \in Held <=> \/ x = openBatch \/ x \in Range(pending)
                           \/ \E t \in Threads : x \in Range(waiting[t])
         /\ x \in Held' <=> \/ x = openBatch' \/ x \in Range(pending')
                            \/ \E t \in Threads : x \in Range(waiting'[t])
  BY DEF Held

-----------------------------------------------------------------------------
(* What the actions do to the buffers. *)

\* A step that does not touch the buffers.
LEMMA SameData ==
  ASSUME Data, UNCHANGED <<mode, status, queue, pending, openBatch, waiting, released>>
  PROVE  Data'
<1>1. Buffers' = Buffers /\ Held' = Held BY DEF Buffers, Held
<1>2. Types' BY <1>1 DEF Data, Types
<1>3. Device' BY DEF Data, Device, Finished
<1>4. OwnedUntilWaited' BY <1>1 DEF Data, OwnedUntilWaited, OneHolder, Finished
<1>. QED BY <1>2, <1>3, <1>4 DEF Data

\* A thread that has waited for the first of its buffers gives it up.
LEMMA ReleaseHead ==
  ASSUME Data, NEW t \in Threads, NEW cb, waiting[t] # <<>>, cb = Head(waiting[t]),
         Finished(cb),
         waiting' = [waiting EXCEPT ![t] = Tail(@)],
         released' = [released EXCEPT ![cb] = @ + 1],
         UNCHANGED <<mode, status, queue, pending, openBatch>>
  PROVE  Data'
<1>. USE DEF Data
<1>1. /\ Tail(waiting[t]) \in Seq(Nat) /\ cb \in Nat
      /\ Range(waiting[t]) = Range(Tail(waiting[t])) \cup {cb}
      /\ IsInjective(Tail(waiting[t])) /\ cb \notin Range(Tail(waiting[t]))
  BY TailRange DEF Types, OwnedUntilWaited, OneHolder
<1>2. /\ waiting' \in [Threads -> Seq(Nat)] /\ waiting'[t] = Tail(waiting[t])
      /\ \A u \in Threads \ {t} : waiting'[u] = waiting[u]
  BY <1>1 DEF Types
<1>3. cb \in Buffers /\ released[cb] = 0
  BY <1>1, SMTT(60) DEF Types, OwnedUntilWaited, Held
<1>4. /\ released' \in Seq(Nat) /\ Len(released') = Len(released)
      /\ released'[cb] = 1 /\ \A x \in Buffers \ {cb} : released'[x] = released[x]
  BY <1>3, SMTT(60) DEF Types, Buffers
<1>5. Buffers' = Buffers BY DEF Buffers
<1>6. Types' BY <1>1, <1>2, <1>4, <1>5 DEF Types
<1>7. Device' BY DEF Device, Finished
<1>8. Held' = Held \ {cb}
  <2>1. cb # openBatch /\ cb \notin Range(pending) BY <1>1 DEF OwnedUntilWaited, OneHolder
  <2>2. \A u \in Threads : Range(waiting'[u]) = Range(waiting[u]) \ {cb}
    BY <1>1, <1>2, SMTT(60) DEF OwnedUntilWaited, OneHolder
  <2>3. ASSUME NEW x PROVE x \in Held' <=> x \in Held \ {cb}
    <3>1. CASE x = cb
      <4>1. \A u \in Threads : x \notin Range(waiting'[u]) BY <2>2, <3>1
      <4>2. x # openBatch' /\ x \notin Range(pending') BY <2>1, <3>1
      <4>. QED BY <3>1, <4>1, <4>2, HeldBy
    <3>2. CASE x # cb
      <4>1. \A u \in Threads : x \in Range(waiting'[u]) <=> x \in Range(waiting[u])
        BY <2>2, <3>2
      <4>. QED BY <3>2, <4>1, HeldBy
    <3>. QED BY <3>1, <3>2
  <2>. QED BY <2>3
<1>9. OwnedUntilWaited'
  <2>1. ASSUME NEW u \in Threads
        PROVE  /\ IsInjective(waiting'[u])
               /\ Range(waiting'[u]) \cap (Range(pending') \cup {openBatch'}) = {}
               /\ \A v \in Threads \ {u} : Range(waiting'[u]) \cap Range(waiting'[v]) = {}
    BY <1>1, <1>2 DEF OwnedUntilWaited, OneHolder
  <2>2. \A x \in Buffers :
           \/ x \in Held' /\ released'[x] = 0
           \/ x \notin Held' /\ released'[x] = 1 /\ status'[x] \in {"done", "failed"}
    BY <1>4, <1>8 DEF OwnedUntilWaited, Finished
  <2>. QED BY <1>5, <2>1, <2>2 DEF OwnedUntilWaited, OneHolder, Finished
<1>. QED BY <1>6, <1>7, <1>9

\* The device finishes the first of the committed buffers that is left.
LEMMA DeviceData == ASSUME Data, DeviceStep PROVE Data'
<1>. USE DEF Data, Finished
<1>1. PICK k \in 1 .. Len(queue) :
        /\ ~Finished(queue[k]) /\ \A j \in 1 .. (k - 1) : Finished(queue[j])
        /\ \E s \in {"done", "failed"} : status' = [status EXCEPT ![queue[k]] = s]
  BY DEF DeviceStep
<1>2. PICK s \in {"done", "failed"} : status' = [status EXCEPT ![queue[k]] = s]
  BY <1>1
<1>3. /\ queue[k] \in Buffers /\ k \in DOMAIN queue /\ k \in Nat
      /\ DOMAIN queue = 1 .. Len(queue) /\ Len(queue) \in Nat
      /\ Range(queue) \subseteq Buffers
  BY SMTT(60) DEF Types, Range
<1>4. /\ status' \in Seq(States) /\ Len(status') = Len(status) /\ Buffers' = Buffers
      /\ status'[queue[k]] = s /\ \A x \in Buffers \ {queue[k]} : status'[x] = status[x]
  BY <1>2, <1>3, SMTT(60) DEF Types, Buffers, States
<1>5. UNCHANGED <<mode, queue, pending, openBatch, waiting, released>>
  BY DEF DeviceStep, ctx, thread
<1>6. Types' BY <1>4, <1>5 DEF Types
<1>7. Device'
  <2>1. \A i \in DOMAIN queue : queue[i] \in Buffers BY <1>3 DEF Range
  <2>2. \A i \in DOMAIN queue : status'[queue[i]] # "encoding"
    BY <1>4, <2>1 DEF Device
  <2>3. openBatch # None => status'[openBatch] = "encoding"
    BY <1>3, <1>4 DEF Device, Types
  <2>4. ASSUME NEW i \in DOMAIN queue, NEW j \in DOMAIN queue, i < j,
               status'[queue[j]] \in {"done", "failed"}
        PROVE  status'[queue[i]] \in {"done", "failed"}
    <3>1. CASE j = k
      <4>1. i \in 1 .. (k - 1) BY <1>3, <2>4, <3>1, SMTT(60)
      <4>. QED BY <1>1, <1>4, <2>1, <4>1
    <3>2. CASE j # k
      <4>1. queue[j] # queue[k] BY <1>3, <3>2 DEF Device, IsInjective
      <4>2. Finished(queue[i]) BY <1>4, <2>1, <2>4, <4>1 DEF Device
      <4>. QED BY <1>1, <1>4, <2>1, <4>2
    <3>. QED BY <3>1, <3>2
  <2>. QED BY <1>5, <2>2, <2>3, <2>4 DEF Device
<1>8. Held' = Held BY <1>5 DEF Held
<1>9. OwnedUntilWaited' BY <1>1, <1>4, <1>5, <1>8 DEF OwnedUntilWaited, OneHolder
<1>. QED BY <1>6, <1>7, <1>9

\* A step that releases nothing keeps the ownership if it holds what was held
\* and what it creates, each once, and leaves what was released alone.
LEMMA KeepsOwned ==
  ASSUME OwnedUntilWaited, OneHolder', NEW New, Buffers' = Buffers \cup New,
         \A x \in New : released'[x] = 0,
         \A x \in Buffers : released'[x] = released[x],
         \A x \in Buffers \ Held : status'[x] = status[x],
         \A x \in Buffers' : x \in Held' <=> x \in Held \cup New
  PROVE  OwnedUntilWaited'
<1>. SUFFICES ASSUME NEW x \in Buffers'
              PROVE  \/ x \in Held' /\ released'[x] = 0
                     \/ /\ x \notin Held' /\ released'[x] = 1
                        /\ status'[x] \in {"done", "failed"}
  BY DEF OwnedUntilWaited, Finished
<1>1. CASE x \in New BY <1>1
<1>2. CASE x \notin New BY <1>2 DEF OwnedUntilWaited, Finished
<1>. QED BY <1>1, <1>2

\* What a thread waits for changes; what the others wait for does not.
LEMMA WaitingOf ==
  ASSUME Types, NEW t \in Threads, NEW w \in Seq(Nat),
         waiting' = [waiting EXCEPT ![t] = w]
  PROVE  /\ waiting' \in [Threads -> Seq(Nat)] /\ waiting'[t] = w
         /\ \A u \in Threads \ {t} : waiting'[u] = waiting[u]
  BY DEF Types

\* A buffer is committed: it is new to the queue, and unfinished.
LEMMA CommitDevice ==
  ASSUME Types, Device, NEW cb \in Nat, cb \notin Range(queue),
         queue' = Append(queue, cb), cb # openBatch', cb \in Buffers',
         status'[cb] = "committed",
         \A x \in Range(queue) : status'[x] = status[x],
         openBatch' # None => status'[openBatch'] = "encoding"
  PROVE  Device' /\ queue' \in Seq(Nat) /\ Range(queue') = Range(queue) \cup {cb}
<1>1. /\ queue' \in Seq(Nat) /\ Range(queue') = Range(queue) \cup {cb}
      /\ IsInjective(queue')
  BY AppendRange, SMTT(60) DEF Types, Device
<1>2. /\ DOMAIN queue = 1 .. Len(queue) /\ Len(queue) \in Nat
      /\ DOMAIN queue' = 1 .. Len(queue) + 1 /\ queue'[Len(queue) + 1] = cb
      /\ \A k \in DOMAIN queue : queue'[k] = queue[k]
  BY SMTT(60) DEF Types
<1>3. \A k \in DOMAIN queue : status'[queue'[k]] = status[queue[k]]
  BY <1>2 DEF Range
<1>4. \A k \in DOMAIN queue' : k \in DOMAIN queue \/ k = Len(queue) + 1
  BY <1>2, SMTT(60)
<1>5. \A k \in DOMAIN queue' : status'[queue'[k]] # "encoding"
  BY <1>2, <1>3, <1>4 DEF Device
<1>6. ASSUME NEW i \in DOMAIN queue', NEW j \in DOMAIN queue', i < j,
             status'[queue'[j]] \in {"done", "failed"}
      PROVE  status'[queue'[i]] \in {"done", "failed"}
  <2>1. j # Len(queue) + 1 BY <1>2, <1>6
  <2>2. i \in DOMAIN queue /\ j \in DOMAIN queue BY <1>2, <1>6, <2>1, SMTT(60)
  <2>. QED BY <1>3, <1>6, <2>2 DEF Device, Finished
<1>. QED BY <1>1, <1>5, <1>6 DEF Device, Finished

\* A thread commits a buffer of its own and waits for it.
LEMMA CommitOwn ==
  ASSUME Data, NEW t \in Threads, waiting[t] = <<>>,
         status' = Append(status, "committed"), released' = Append(released, 0),
         queue' = Append(queue, Fresh), waiting' = [waiting EXCEPT ![t] = <<Fresh>>],
         UNCHANGED <<mode, pending, openBatch>>
  PROVE  Data'
<1>. USE DEF Data
<1>1. /\ Fresh \in Nat \ {0} /\ Fresh \notin Buffers
      /\ Buffers' = Buffers \cup {Fresh}
      /\ status' \in Seq(States) /\ Len(status') = Len(status) + 1
      /\ \A cb \in Buffers : status'[cb] = status[cb]
      /\ status'[Fresh] = "committed"
  BY Created DEF Types, States
<1>2. /\ released' \in Seq(Nat) /\ Len(released') = Len(released) + 1
      /\ released'[Fresh] = 0 /\ \A cb \in Buffers : released'[cb] = released[cb]
  BY SMTT(60) DEF Types, Fresh, Buffers
<1>3. PICK new : new = Fresh OBVIOUS
<1>4. /\ <<new>> \in Seq(Nat) /\ Range(<<new>>) = {new} /\ IsInjective(<<new>>)
  BY <1>1, <1>3, OneRange
<1>5. /\ waiting' \in [Threads -> Seq(Nat)] /\ waiting'[t] = <<new>>
      /\ \A u \in Threads \ {t} : waiting'[u] = waiting[u]
  BY <1>3, <1>4, WaitingOf
<1>6. new \notin Range(queue) \cup Range(pending) \cup {openBatch}
        /\ \A u \in Threads : new \notin Range(waiting[u])
  BY <1>1, <1>3 DEF Types, None
<1>7. Device' /\ queue' \in Seq(Nat) /\ Range(queue') = Range(queue) \cup {new}
  <2>1. openBatch' # None => status'[openBatch'] = "encoding"
    BY <1>1 DEF Types, Device
  <2>2. \A x \in Range(queue) : status'[x] = status[x] BY <1>1 DEF Types
  <2>3. /\ new \in Nat /\ new \notin Range(queue) /\ queue' = Append(queue, new)
        /\ new # openBatch' /\ new \in Buffers' /\ status'[new] = "committed"
    BY <1>1, <1>3, <1>6
  <2>. QED BY <2>1, <2>2, <2>3, CommitDevice
<1>8. Types' BY <1>1, <1>2, <1>3, <1>4, <1>5, <1>7 DEF Types
<1>9. OneHolder'
  BY <1>4, <1>5, <1>6, SMTT(60) DEF OwnedUntilWaited, OneHolder
<1>10. Range(waiting[t]) = {} BY EmptyRange
<1>11. ASSUME NEW x PROVE x \in Held' <=> x \in Held \cup {new}
  <2>1. \A u \in Threads : x \in Range(waiting'[u]) <=>
                             x \in Range(waiting[u]) \/ (u = t /\ x = new)
    BY <1>4, <1>5, <1>10, SMTT(60)
  <2>. QED BY <2>1, HeldBy
<1>12. OwnedUntilWaited'
  BY <1>1, <1>2, <1>3, <1>9, <1>11, KeepsOwned
<1>. QED BY <1>7, <1>8, <1>12

\* A drain commits the open batch and takes it and what is pending.
LEMMA SwapData ==
  ASSUME Data, NEW t \in Threads, NEW call, waiting[t] = <<>>, DrainSwap(t, call)
  PROVE  /\ Data' /\ pending' = <<>> /\ openBatch' = None
         /\ Range(waiting'[t]) = Range(pending) \cup ({openBatch} \ {None})
         /\ \A u \in Threads \ {t} : waiting'[u] = waiting[u]
         /\ \A x \in Buffers : status'[x] = status[x] \/ x = openBatch
         /\ openBatch # None => queue' = Append(queue, openBatch)
         /\ openBatch = None => queue' = queue
<1>. USE DEF Data
<1>1. /\ pending \in Seq(Nat) /\ queue \in Seq(Nat) /\ openBatch \in Nat
      /\ None \notin Buffers /\ Range(pending) \subseteq Buffers
      /\ Range(queue) \subseteq Buffers /\ openBatch \in Buffers \cup {None}
  BY Numbers DEF Types
<1>2. /\ pending' = <<>> /\ openBatch' = None
      /\ UNCHANGED <<mode, released>>
  BY DEF DrainSwap
<1>3. PICK b : b = openBatch OBVIOUS
<1>4. PICK w : w = IF b = None THEN pending ELSE Append(pending, b) OBVIOUS
<1>5. /\ w \in Seq(Nat) /\ Range(w) = Range(pending) \cup ({b} \ {None})
      /\ IsInjective(w)
  BY <1>1, <1>3, <1>4, AppendRange, SMTT(60) DEF OwnedUntilWaited, OneHolder
<1>6. waiting' = [waiting EXCEPT ![t] = w]
  <2>1. CASE b = None
    <3>1. pending \o <<>> = pending BY <1>1, SMTT(60)
    <3>. QED BY <1>3, <1>4, <2>1, <3>1 DEF DrainSwap
  <2>2. CASE b # None
    <3>1. pending \o <<b>> = Append(pending, b) BY <1>1, <1>3, JoinOne
    <3>. QED BY <1>3, <1>4, <2>2, <3>1 DEF DrainSwap
  <2>. QED BY <2>1, <2>2
<1>7. /\ waiting' \in [Threads -> Seq(Nat)] /\ waiting'[t] = w
      /\ \A u \in Threads \ {t} : waiting'[u] = waiting[u]
  BY <1>5, <1>6, WaitingOf
<1>8. /\ status' = [x \in Buffers |-> IF x = b /\ b # None THEN "committed" ELSE status[x]]
      /\ b # None => queue' = Append(queue, b)
      /\ b = None => queue' = queue
  <2>1. CASE b = None
    <3>1. Range(<<>>) = {} /\ queue \o <<>> = queue BY <1>1, EmptyRange, SMTT(60)
    <3>. QED BY <1>3, <2>1, <3>1 DEF DrainSwap
  <2>2. CASE b # None
    <3>1. Range(<<b>>) = {b} /\ queue \o <<b>> = Append(queue, b)
      BY <1>1, <1>3, JoinOne, OneRange
    <3>. QED BY <1>3, <2>2, <3>1 DEF DrainSwap
  <2>. QED BY <2>1, <2>2
<1>9. /\ status' \in Seq(States) /\ Len(status') = Len(status) /\ Buffers' = Buffers
      /\ \A x \in Buffers : x # b => status'[x] = status[x]
      /\ b # None => status'[b] = "committed"
  <2>1. /\ Buffers = 1 .. Len(status) /\ Len(status) \in Nat
    BY Numbers
  <2>4. \A x \in Buffers : status[x] \in States BY <2>1, SMTT(60) DEF Types
  <2>2. status' \in [1 .. Len(status) -> States] BY <1>8, <2>1, <2>4 DEF States
  <2>3. /\ status' \in Seq(States) /\ Len(status') = Len(status)
        /\ DOMAIN status' = 1 .. Len(status)
    BY <2>1, <2>2, SMTT(60)
  <2>. QED BY <1>1, <1>3, <1>8, <2>1, <2>3 DEF Buffers
<1>10. Device' /\ queue' \in Seq(Nat) /\ Range(queue') \subseteq Buffers
  <2>1. CASE b = None
    <3>1. \A x \in Buffers : status'[x] = status[x] BY <1>1, <1>9, <2>1
    <3>2. status' = status BY <1>8, <1>9, <2>1, <3>1, SMTT(60) DEF Types, Buffers
    <3>. QED BY <1>1, <1>2, <1>3, <1>8, <2>1, <3>2 DEF Device, Finished
  <2>2. CASE b # None
    <3>1. b \notin Range(queue)
      BY <1>3, <2>2 DEF Device, Range
    <3>2. \A x \in Range(queue) : status'[x] = status[x] BY <1>1, <1>9, <3>1
    <3>3. /\ b \in Nat /\ queue' = Append(queue, b) /\ b # openBatch'
          /\ b \in Buffers' /\ status'[b] = "committed"
      BY <1>1, <1>2, <1>3, <1>8, <1>9, <2>2
    <3>4. Device' /\ queue' \in Seq(Nat) /\ Range(queue') = Range(queue) \cup {b}
      BY <1>2, <3>1, <3>2, <3>3, CommitDevice
    <3>. QED BY <1>1, <1>9, <3>3, <3>4
  <2>. QED BY <2>1, <2>2
<1>11. Types'
  <2>1. Range(w) \subseteq Buffers BY <1>1, <1>3, <1>5
  <2>2. Range(pending') = {} /\ pending' \in Seq(Nat) BY <1>2, EmptyRange
  <2>. QED BY <1>2, <1>7, <1>9, <1>10, <2>1, <2>2 DEF Types
<1>12. OneHolder'
  <2>1. Range(pending') = {} /\ IsInjective(pending') BY <1>2, EmptyRange
  <2>2. \A u \in Threads : None \notin Range(waiting'[u])
    BY <1>11, <1>9, <1>1 DEF Types
  <2>3. \A u \in Threads \ {t} : Range(w) \cap Range(waiting[u]) = {}
    BY <1>3, <1>5 DEF OwnedUntilWaited, OneHolder
  <2>. QED BY <1>2, <1>5, <1>7, <2>1, <2>2, <2>3 DEF OwnedUntilWaited, OneHolder
<1>13. ASSUME NEW x \in Buffers PROVE x \in Held' <=> x \in Held
  <2>1. Range(pending') = {} /\ Range(waiting[t]) = {} BY <1>2, EmptyRange
  <2>2. x # None BY <1>1
  <2>3. x \in Range(waiting'[t]) <=> x \in Range(pending) \/ x = openBatch
    BY <1>3, <1>5, <1>7, <2>2
  <2>4. \A u \in Threads \ {t} : x \in Range(waiting'[u]) <=> x \in Range(waiting[u])
    BY <1>7
  <2>. QED BY <1>2, <2>1, <2>2, <2>3, <2>4, HeldBy
<1>14. OwnedUntilWaited'
  <2>1. \A x \in Buffers \ Held : status'[x] = status[x]
    BY <1>3, <1>9, HeldBy
  <2>2. Buffers' = Buffers \cup {} BY <1>9
  <2>. QED BY <1>2, <1>9, <1>12, <1>13, <2>1, <2>2, KeepsOwned
<1>. QED BY <1>2, <1>3, <1>5, <1>7, <1>8, <1>9, <1>10, <1>11, <1>14

\* A launch that does not wait puts its buffer into pending.
LEMMA KeepData ==
  ASSUME Data, NEW t \in Threads, Len(waiting[t]) = 1,
         pending' = pending \o waiting[t], waiting' = [waiting EXCEPT ![t] = <<>>],
         UNCHANGED <<mode, status, queue, openBatch, released>>
  PROVE  Data'
<1>. USE DEF Data
<1>1. PICK b : b = Head(waiting[t]) OBVIOUS
<1>2. /\ waiting[t] \in Seq(Nat) /\ b \in Nat /\ waiting[t] = <<b>>
  <2>1. waiting[t] \in Seq(Nat) BY DEF Types
  <2>. QED BY <1>1, <2>1, OneLong
<1>3. Range(waiting[t]) = {b} BY <1>2, OneRange
<1>4. /\ pending' \in Seq(Nat) /\ Range(pending') = Range(pending) \cup {b}
      /\ IsInjective(pending')
  <2>1. pending' = Append(pending, b) BY <1>2, JoinOne DEF Types
  <2>2. b \notin Range(pending) BY <1>3 DEF OwnedUntilWaited, OneHolder
  <2>3. pending \in Seq(Nat) /\ IsInjective(pending)
    BY DEF Types, OwnedUntilWaited, OneHolder
  <2>4. /\ Append(pending, b) \in Seq(Nat) /\ IsInjective(Append(pending, b))
        /\ Range(Append(pending, b)) = Range(pending) \cup {b}
    BY <1>2, <2>2, <2>3, AppendRange, SMTT(60)
  <2>. QED BY <2>1, <2>4
<1>5. /\ waiting' \in [Threads -> Seq(Nat)] /\ waiting'[t] = <<>>
      /\ \A u \in Threads \ {t} : waiting'[u] = waiting[u]
  BY EmptyRange, WaitingOf
<1>6. Range(waiting'[t]) = {} /\ IsInjective(waiting'[t]) BY <1>5, EmptyRange
<1>7. Buffers' = Buffers BY DEF Buffers
<1>8. Types' BY <1>3, <1>4, <1>5, <1>6, <1>7 DEF Types
<1>9. Device' BY DEF Device, Finished
<1>10. OneHolder' BY <1>3, <1>4, <1>5, <1>6 DEF OwnedUntilWaited, OneHolder
<1>11. ASSUME NEW x PROVE x \in Held' <=> x \in Held
  <2>1. \A u \in Threads \ {t} : x \in Range(waiting'[u]) <=> x \in Range(waiting[u])
    BY <1>5
  <2>2. x \in Range(waiting[t]) <=> x = b BY <1>3
  <2>3. x \in Range(pending') <=> x \in Range(pending) \/ x = b BY <1>4
  <2>. QED BY <1>6, <2>1, <2>2, <2>3, HeldBy
<1>12. Buffers' = Buffers \cup {} BY <1>7
<1>13. OwnedUntilWaited' BY <1>10, <1>11, <1>12, KeepsOwned
<1>. QED BY <1>8, <1>9, <1>13

\* The batch a launch encodes into is new or the open one: nobody else has it.
LEMMA Opened ==
  ASSUME Data
  PROVE  /\ Batch \in Nat /\ Batch # None
         /\ OpenedStatus \in Seq(States) /\ OpenedReleased \in Seq(Nat)
         /\ Len(OpenedReleased) = Len(OpenedStatus)
         /\ DOMAIN OpenedStatus = Buffers \cup {Batch}
         /\ OpenedStatus[Batch] = "encoding" /\ OpenedReleased[Batch] = 0
         /\ \A x \in Buffers : /\ OpenedStatus[x] = status[x]
                               /\ OpenedReleased[x] = released[x]
         /\ Batch \notin Range(queue) \cup Range(pending)
         /\ \A u \in Threads : Batch \notin Range(waiting[u])
         /\ openBatch \in {None, Batch} /\ (Batch \in Buffers => Batch = openBatch)
<1>. USE DEF Data
<1>0. /\ Buffers = 1 .. Len(status) /\ Len(status) \in Nat /\ None \notin Buffers
      /\ openBatch \in Nat
  BY Numbers
<1>1. CASE openBatch = None
  <2>1. /\ Batch = Fresh /\ OpenedStatus = Append(status, "encoding")
        /\ OpenedReleased = Append(released, 0)
    BY <1>1 DEF Batch, OpenedStatus, OpenedReleased
  <2>2. /\ status \in Seq(States) /\ released \in Seq(Nat) /\ Fresh = Len(status) + 1
        /\ Len(released) = Len(status)
    BY DEF Types, Fresh
  <2>3. /\ OpenedStatus \in Seq(States) /\ Len(OpenedStatus) = Len(status) + 1
        /\ DOMAIN OpenedStatus = 1 .. Len(status) + 1
        /\ OpenedStatus[Fresh] = "encoding"
        /\ \A x \in 1 .. Len(status) : OpenedStatus[x] = status[x]
    BY <2>1, <2>2, SMTT(60) DEF States
  <2>4. /\ OpenedReleased \in Seq(Nat) /\ Len(OpenedReleased) = Len(status) + 1
        /\ OpenedReleased[Fresh] = 0
        /\ \A x \in 1 .. Len(status) : OpenedReleased[x] = released[x]
    BY <2>1, <2>2, SMTT(60)
  <2>5. Fresh \in Nat /\ Fresh # None /\ Fresh \notin Buffers
        /\ 1 .. Len(status) + 1 = Buffers \cup {Fresh}
    BY <1>0, <2>2, SMTT(60) DEF None
  <2>6. /\ Fresh \notin Range(queue) \cup Range(pending)
        /\ \A u \in Threads : Fresh \notin Range(waiting[u])
    BY <2>5 DEF Types
  <2>. QED BY <1>0, <1>1, <2>1, <2>3, <2>4, <2>5, <2>6
<1>2. CASE openBatch # None
  <2>1. Batch = openBatch /\ OpenedStatus = status /\ OpenedReleased = released
    BY <1>2 DEF Batch, OpenedStatus, OpenedReleased
  <2>2. openBatch \in Buffers /\ status[openBatch] = "encoding"
    BY <1>2 DEF Types, Device
  <2>3. openBatch \notin Range(queue) BY <1>2 DEF Device, Range
  <2>4. released[openBatch] = 0 BY <2>2, HeldBy DEF OwnedUntilWaited
  <2>5. /\ openBatch \notin Range(pending)
        /\ \A u \in Threads : openBatch \notin Range(waiting[u])
    BY DEF OwnedUntilWaited, OneHolder
  <2>6. /\ status \in Seq(States) /\ released \in Seq(Nat)
        /\ Len(released) = Len(status) /\ DOMAIN status = Buffers
    BY DEF Types, Buffers
  <2>. QED BY <1>0, <1>2, <2>1, <2>2, <2>3, <2>4, <2>5, <2>6
<1>. QED BY <1>1, <1>2

\* A launch whose argument does not resolve leaves the batch open.
LEMMA UnresolvedData ==
  ASSUME Data, NEW t \in Threads, LaunchUnresolved(t) PROVE Data'
<1>. USE DEF Data
<1>1. /\ status' = OpenedStatus /\ released' = OpenedReleased /\ openBatch' = Batch
      /\ UNCHANGED <<mode, queue, pending, waiting>>
  BY DEF LaunchUnresolved, thread
<1>2. PICK b : b = Batch OBVIOUS
<1>3. Buffers' = Buffers \cup {b} BY <1>1, <1>2, Opened DEF Buffers
<1>4. /\ released'[b] = 0 /\ status'[b] = "encoding"
      /\ \A x \in Buffers : status'[x] = status[x] /\ released'[x] = released[x]
  BY <1>1, <1>2, Opened
<1>5. Types' BY <1>1, <1>2, <1>3, Opened DEF Types
<1>6. Device'
  <2>1. \A k \in DOMAIN queue : queue[k] \in Buffers BY DEF Types, Range
  <2>. QED BY <1>1, <1>2, <1>4, <2>1, SMTT(60) DEF Device, Finished
<1>7. OneHolder' BY <1>1, Opened DEF OwnedUntilWaited, OneHolder
<1>8. ASSUME NEW x \in Buffers' PROVE x \in Held' <=> x \in Held \cup {b}
  <2>1. x # None BY <1>3, <1>2, Numbers, Opened
  <2>. QED BY <1>1, <1>2, <2>1, HeldBy, Opened
<1>9. OwnedUntilWaited' BY <1>3, <1>4, <1>7, <1>8, KeepsOwned
<1>. QED BY <1>5, <1>6, <1>9

\* A launch into a batch: the batch stays open, or is full and committed, and
\* the thread may have to wait for the oldest of the pending ones.
LEMMA BatchedData ==
  ASSUME Data, NEW t \in Threads, waiting[t] = <<>>, LaunchBatched(t)
  PROVE  /\ Data' /\ \A u \in Threads \ {t} : waiting'[u] = waiting[u]
         /\ \/ waiting'[t] = <<>> /\ pc' = [pc EXCEPT ![t] = "idle"]
            \/ Len(waiting'[t]) = 1 /\ pc' = [pc EXCEPT ![t] = "reap"]
<1>. USE DEF Data
<1>1. PICK b : b = Batch OBVIOUS
<1>2. PICK full \in BOOLEAN : full <=> Full(openBatchDispatches + 1)
  <2>1. CASE Full(openBatchDispatches + 1) BY <2>1
  <2>2. CASE ~Full(openBatchDispatches + 1) BY <2>2
  <2>. QED BY <2>1, <2>2
<1>3. PICK all : all = IF full THEN Append(pending, b) ELSE pending OBVIOUS
<1>4. PICK w : w = IF TooMany(all) THEN <<Head(all)>> ELSE <<>> OBVIOUS
<1>5. /\ status' = IF full THEN [OpenedStatus EXCEPT ![b] = "committed"] ELSE OpenedStatus
      /\ queue' = IF full THEN Append(queue, b) ELSE queue
      /\ openBatch' = IF full THEN None ELSE b
      /\ pending' = Rest(all) /\ waiting' = [waiting EXCEPT ![t] = w]
      /\ released' = OpenedReleased /\ mode' = mode
      /\ pc' = [pc EXCEPT ![t] = IF TooMany(all) THEN "reap" ELSE "idle"]
  BY <1>1, <1>2, <1>3, <1>4 DEF LaunchBatched
<1>6. /\ b \in Nat /\ b # None /\ b \notin Range(queue) \cup Range(pending)
      /\ \A u \in Threads : b \notin Range(waiting[u])
      /\ openBatch \in {None, b} /\ (b \in Buffers => b = openBatch)
      /\ OpenedReleased[b] = 0 /\ \A x \in Buffers : OpenedReleased[x] = released[x]
  BY <1>1, Opened
<1>7. /\ pending \in Seq(Nat) /\ IsInjective(pending) /\ queue \in Seq(Nat)
      /\ Range(pending) \subseteq Buffers /\ Range(queue) \subseteq Buffers
  BY DEF Types, OwnedUntilWaited, OneHolder
<1>8. /\ all \in Seq(Nat) /\ IsInjective(all)
      /\ Range(all) = Range(pending) \cup (IF full THEN {b} ELSE {})
  <2>1. /\ Append(pending, b) \in Seq(Nat) /\ IsInjective(Append(pending, b))
        /\ Range(Append(pending, b)) = Range(pending) \cup {b}
    BY <1>6, <1>7, AppendRange, SMTT(60)
  <2>. QED BY <1>3, <1>7, <2>1
<1>9. /\ pending' \in Seq(Nat) /\ IsInjective(pending')
      /\ w \in Seq(Nat) /\ IsInjective(w)
      /\ Range(all) = Range(pending') \cup Range(w) /\ Range(pending') \cap Range(w) = {}
  <2>1. CASE TooMany(all)
    <3>1. all # <<>> BY <1>8, <2>1, MetalAssumption, SMTT(60) DEF TooMany
    <3>2. pending' = Tail(all) /\ w = <<Head(all)>> BY <1>4, <1>5, <2>1 DEF Rest
    <3>3. /\ Tail(all) \in Seq(Nat) /\ Head(all) \in Nat
          /\ Range(all) = Range(Tail(all)) \cup {Head(all)}
          /\ IsInjective(Tail(all)) /\ Head(all) \notin Range(Tail(all))
      BY <1>8, <3>1, TailRange
    <3>4. /\ <<Head(all)>> \in Seq(Nat) /\ Range(<<Head(all)>>) = {Head(all)}
          /\ IsInjective(<<Head(all)>>)
      BY <3>3, OneRange
    <3>. QED BY <3>2, <3>3, <3>4
  <2>2. CASE ~TooMany(all)
    <3>1. pending' = all /\ w = <<>> BY <1>4, <1>5, <2>2 DEF Rest
    <3>. QED BY <1>8, <3>1, EmptyRange
  <2>. QED BY <2>1, <2>2
<1>10. /\ waiting' \in [Threads -> Seq(Nat)] /\ waiting'[t] = w
       /\ \A u \in Threads \ {t} : waiting'[u] = waiting[u]
  BY <1>5, <1>9, WaitingOf
<1>11. /\ Buffers' = Buffers \cup {b} /\ status' \in Seq(States)
       /\ Len(released') = Len(status')
       /\ status'[b] = IF full THEN "committed" ELSE "encoding"
       /\ \A x \in Buffers \ {b} : status'[x] = status[x]
  <2>1. /\ OpenedStatus \in Seq(States) /\ Len(OpenedReleased) = Len(OpenedStatus)
        /\ DOMAIN OpenedStatus = Buffers \cup {b} /\ OpenedStatus[b] = "encoding"
        /\ \A x \in Buffers : OpenedStatus[x] = status[x]
    BY <1>1, Opened
  <2>2. CASE full
    <3>1. status' = [OpenedStatus EXCEPT ![b] = "committed"] BY <1>5, <2>2
    <3>2. status' \in Seq(States) /\ Len(status') = Len(OpenedStatus)
      BY <2>1, <3>1, SMTT(60) DEF States
    <3>. QED BY <1>5, <2>1, <2>2, <3>1, <3>2 DEF Buffers
  <2>3. CASE ~full BY <1>5, <2>1, <2>3 DEF Buffers
  <2>. QED BY <2>2, <2>3
<1>12. Device' /\ queue' \in Seq(Nat) /\ Range(queue') \subseteq Buffers'
  <2>1. \A x \in Range(queue) : status'[x] = status[x] BY <1>6, <1>7, <1>11
  <2>2. CASE full
    <3>1. Device' /\ queue' \in Seq(Nat) /\ Range(queue') = Range(queue) \cup {b}
      BY <1>5, <1>6, <1>11, <2>1, <2>2, CommitDevice
    <3>. QED BY <1>7, <1>11, <3>1
  <2>3. CASE ~full
    <3>1. queue' = queue /\ openBatch' = b /\ status'[b] = "encoding"
      BY <1>5, <1>11, <2>3
    <3>2. \A k \in DOMAIN queue : status'[queue[k]] = status[queue[k]]
      BY <2>1 DEF Range
    <3>. QED BY <1>7, <1>11, <3>1, <3>2 DEF Device, Finished
  <2>. QED BY <2>2, <2>3
<1>13. Types'
  <2>1. Range(pending') \cup Range(w) \subseteq Buffers' BY <1>7, <1>8, <1>9, <1>11
  <2>2. openBatch' \in Buffers' \cup {None} BY <1>5, <1>11
  <2>3. \A u \in Threads : Range(waiting'[u]) \subseteq Buffers'
    BY <1>10, <1>11, <2>1 DEF Types
  <2>4. released' \in Seq(Nat) BY <1>5, Opened
  <2>5. mode' \in {"batched", "queued", "sync"} BY <1>5 DEF Types
  <2>. QED BY <1>9, <1>10, <1>11, <1>12, <2>1, <2>2, <2>3, <2>4, <2>5 DEF Types
<1>14. OneHolder'
  <2>1. openBatch' \notin Range(all)
    BY <1>5, <1>6, <1>7, <1>8, Numbers
  <2>2. \A u \in Threads \ {t} :
          /\ Range(waiting'[u]) \cap (Range(all) \cup {openBatch'}) = {}
          /\ IsInjective(waiting'[u])
    <3>1. \A u \in Threads : None \notin Range(waiting[u]) BY Numbers DEF Types
    <3>. QED BY <1>5, <1>6, <1>8, <1>10, <3>1, SMTT(60) DEF OwnedUntilWaited, OneHolder
  <2>3. \A u, v \in Threads \ {t} : u # v =>
          Range(waiting'[u]) \cap Range(waiting'[v]) = {}
    BY <1>10 DEF OwnedUntilWaited, OneHolder
  <2>. QED BY <1>9, <1>10, <2>1, <2>2, <2>3 DEF OneHolder
<1>15. ASSUME NEW x \in Buffers' PROVE x \in Held' <=> x \in Held \cup {b}
  <2>1. x # None BY <1>6, <1>11, Numbers
  <2>2. \A u \in Threads \ {t} : x \in Range(waiting'[u]) <=> x \in Range(waiting[u])
    BY <1>10
  <2>3. Range(waiting[t]) = {} BY EmptyRange
  <2>4. \/ x = openBatch' \/ x \in Range(pending') \/ x \in Range(waiting'[t])
        <=> x = b \/ x \in Range(pending)
    BY <1>5, <1>8, <1>9, <1>10, <2>1
  <2>5. x = openBatch => x = b BY <1>6, <2>1
  <2>. QED BY <2>2, <2>3, <2>4, <2>5, HeldBy
<1>16. OwnedUntilWaited'
  <2>1. \A x \in Buffers \ Held : status'[x] = status[x]
    BY <1>6, <1>11, HeldBy
  <2>2. /\ \A x \in {b} : released'[x] = 0
        /\ \A x \in Buffers : released'[x] = released[x]
    BY <1>5, <1>6
  <2>. QED BY <1>11, <1>14, <1>15, <2>1, <2>2, KeepsOwned
<1>17. \/ waiting'[t] = <<>> /\ pc' = [pc EXCEPT ![t] = "idle"]
       \/ Len(waiting'[t]) = 1 /\ pc' = [pc EXCEPT ![t] = "reap"]
  BY <1>4, <1>5, <1>10
<1>. QED BY <1>10, <1>12, <1>13, <1>16, <1>17

-----------------------------------------------------------------------------
(* Every step keeps the invariant. *)

\* A thread that has waited for its only buffer gives it up.
LEMMA ReleaseOnly ==
  ASSUME Data, NEW t \in Threads, NEW cb, Len(waiting[t]) = 1, cb = Head(waiting[t]),
         Finished(cb),
         waiting' = [waiting EXCEPT ![t] = <<>>],
         released' = [released EXCEPT ![cb] = @ + 1],
         UNCHANGED <<mode, status, queue, pending, openBatch>>
  PROVE  Data' /\ waiting'[t] = <<>> /\ \A u \in Threads \ {t} : waiting'[u] = waiting[u]
<1>1. /\ waiting \in [Threads -> Seq(Nat)] /\ waiting[t] \in Seq(Nat)
  BY DEF Data, Types
<1>2. waiting[t] # <<>> /\ Tail(waiting[t]) = <<>>
  <2>1. waiting[t] = <<cb>> BY <1>1, OneLong
  <2>. QED BY <2>1, SMTT(60)
<1>3. waiting' = [waiting EXCEPT ![t] = Tail(@)] BY <1>2
<1>. QED BY <1>1, <1>2, <1>3, ReleaseHead

(* A launch, batched, unbatched or with an argument that does not resolve. *)
LEMMA LaunchInv == ASSUME Inv, NEW t \in Threads, Launch(t) PROVE Inv'
<1>. USE DEF Inv
<1>1. /\ pc[t] = "idle" /\ waiting[t] = <<>> /\ op' = op
      /\ \A u \in Threads : op[u] # "destroy"
  BY DEF Launch, LaunchBatched, LaunchUnresolved, LaunchUnbatched, StartLaunch, InUse,
         Locals, thread
<1>2. Teardown' BY <1>1 DEF Teardown
<1>3. CASE LaunchBatched(t)
  <2>1. /\ Data' /\ \A u \in Threads \ {t} : waiting'[u] = waiting[u]
        /\ \/ waiting'[t] = <<>> /\ pc' = [pc EXCEPT ![t] = "idle"]
           \/ Len(waiting'[t]) = 1 /\ pc' = [pc EXCEPT ![t] = "reap"]
    BY <1>1, <1>3, BatchedData
  <2>2. Locals' BY <1>1, <2>1, SMTT(60) DEF Locals
  <2>. QED BY <1>2, <2>1, <2>2
<1>4. CASE LaunchUnresolved(t)
  <2>1. Data' BY <1>4, UnresolvedData
  <2>2. Locals' BY <1>4 DEF LaunchUnresolved, thread, Locals
  <2>. QED BY <1>2, <2>1, <2>2
<1>5. CASE LaunchUnbatched(t)
  <2>1. Data' BY <1>1, <1>5, CommitOwn DEF LaunchUnbatched, ctx
  <2>2. Locals'
    <3>1. /\ waiting' = [waiting EXCEPT ![t] = <<Fresh>>] /\ Len(<<Fresh>>) = 1
          /\ pc' = [pc EXCEPT ![t] = mode] /\ mode \in {"queued", "sync"}
      BY <1>5 DEF LaunchUnbatched
    <3>2. waiting \in [Threads -> Seq(Nat)] BY DEF Data, Types
    <3>. QED BY <1>1, <3>1, <3>2 DEF Locals
  <2>. QED BY <1>2, <2>1, <2>2
<1>. QED BY <1>3, <1>4, <1>5 DEF Launch

(* A call that drains, or the destruction of the context, begins. *)
LEMMA DrainInv ==
  ASSUME Inv, NEW t \in Threads, StartDrain(t) \/ StartDestroy(t) PROVE Inv'
<1>. USE DEF Inv
<1>1. /\ pc[t] = "idle" /\ waiting[t] = <<>>
      /\ \A u \in Threads : op[u] # "destroy"
  BY DEF StartDrain, StartDestroy, InUse, Locals
<1>2. PICK call \in Calls \cup {"destroy"} :
        /\ DrainSwap(t, call)
        /\ call = "destroy" => \A u \in Threads : pc[u] = "idle"
  <2>1. CallsOf[t] \subseteq Calls \cup {"destroy"} BY MetalAssumption
  <2>. QED BY <2>1 DEF StartDrain, StartDestroy
<1>3. /\ Data' /\ pending' = <<>> /\ openBatch' = None
      /\ \A u \in Threads \ {t} : waiting'[u] = waiting[u]
  BY <1>1, <1>2, SwapData
<1>4. pc' = [pc EXCEPT ![t] = "drain"] /\ op' = [op EXCEPT ![t] = call]
  BY <1>2 DEF DrainSwap
<1>5. Locals' BY <1>1, <1>3, <1>4 DEF Locals
<1>6. Teardown' BY <1>1, <1>2, <1>3, <1>4, SMTT(60) DEF Locals, Teardown
<1>. QED BY <1>3, <1>5, <1>6

(* A thread has waited for a command buffer and goes on. *)
LEMMA ProceedInv == ASSUME Inv, NEW t \in Threads, Proceed(t) PROVE Inv'
<1>. USE DEF Inv
<1>0. /\ waiting \in [Threads -> Seq(Nat)] /\ waiting[t] \in Seq(Nat)
      /\ pc \in [Threads -> {"idle", "reap", "queued", "sync", "drain", "blit"}]
      /\ op \in [Threads -> Calls \cup {"none", "destroy"}]
  BY DEF Data, Types, Locals
<1>1. ASSUME NEW cb, Len(waiting[t]) = 1, cb = Head(waiting[t]), Finished(cb),
             pc[t] \in {"reap", "sync", "blit"},
             waiting' = [waiting EXCEPT ![t] = <<>>],
             released' = [released EXCEPT ![cb] = @ + 1],
             pc' = [pc EXCEPT ![t] = "idle"],
             op' = op \/ op' = [op EXCEPT ![t] = "none"],
             UNCHANGED <<mode, status, queue, pending, openBatch>>
      PROVE  Inv'
  <2>1. /\ Data' /\ waiting'[t] = <<>>
        /\ \A u \in Threads \ {t} : waiting'[u] = waiting[u]
    BY <1>1, ReleaseOnly
  <2>2. Locals' BY <1>0, <1>1, <2>1 DEF Locals
  <2>3. Teardown' BY <1>0, <1>1, SMTT(60) DEF Teardown
  <2>. QED BY <2>1, <2>2, <2>3
<1>2. CASE Reap(t)
  <2>1. Len(waiting[t]) = 1 BY <1>2 DEF Reap, Locals
  <2>. QED BY <1>1, <1>2, <2>1 DEF Reap
<1>3. CASE WaitForLaunch(t)
  <2>1. Len(waiting[t]) = 1 BY <1>3 DEF WaitForLaunch, Locals
  <2>. QED BY <1>1, <1>3, <2>1 DEF WaitForLaunch, ctx
<1>4. CASE BlitWait(t)
  <2>1. Len(waiting[t]) <= 1 /\ waiting[t] # <<>> BY <1>4 DEF BlitWait, Locals
  <2>2. Len(waiting[t]) = 1
    <3>1. Len(waiting[t]) \in Nat /\ Len(waiting[t]) # 0 BY <1>0, <2>1, EmptyLength
    <3>2. \A n \in Nat : n # 0 /\ n <= 1 => n = 1 BY SMTT(60)
    <3>. QED BY <2>1, <3>1, <3>2
  <2>. QED BY <1>1, <1>4, <2>2 DEF BlitWait, ctx
<1>5. CASE KeepPending(t)
  <2>1. /\ pc[t] = "queued" /\ pc' = [pc EXCEPT ![t] = "idle"] /\ op' = op
        /\ waiting' = [waiting EXCEPT ![t] = <<>>]
        /\ pending' = pending \o waiting[t]
        /\ UNCHANGED <<mode, status, queue, openBatch, released>>
    BY <1>5 DEF KeepPending
  <2>2. Data' BY <2>1, KeepData DEF Locals
  <2>3. Locals' BY <1>0, <2>1 DEF Locals
  <2>4. Teardown' BY <1>0, <2>1 DEF Teardown
  <2>. QED BY <2>2, <2>3, <2>4
<1>6. CASE DrainWait(t)
  <2>1. /\ pc[t] = "drain" /\ UNCHANGED <<mode, status, queue, pending, openBatch, pc, op>>
        /\ waiting' = [waiting EXCEPT ![t] = Tail(@)]
    BY <1>6 DEF DrainWait
  <2>2. Data' BY <1>6, ReleaseHead DEF DrainWait
  <2>3. Locals' BY <1>0, <2>1 DEF Locals
  <2>4. Teardown' BY <2>1 DEF Teardown
  <2>. QED BY <2>2, <2>3, <2>4
<1>7. CASE DrainReturn(t)
  <2>1. /\ pc[t] = "drain" /\ waiting[t] = <<>>
        /\ UNCHANGED <<mode, status, queue, pending, openBatch, waiting, released>>
    BY <1>7 DEF DrainReturn
  <2>2. \/ op[t] = "blit" /\ pc' = [pc EXCEPT ![t] = "blit"] /\ op' = op
        \/ /\ pc' = [pc EXCEPT ![t] = "idle"]
           /\ op' = op \/ op' = [op EXCEPT ![t] = "none"]
    <3>1. [op EXCEPT ![t] = op[t]] = op BY <1>0
    <3>. QED BY <1>7, <3>1 DEF DrainReturn
  <2>3. Data' BY <2>1, SameData
  <2>4. Locals'
    <3>1. Len(<<>>) = 0 /\ 0 <= 1 BY EmptyLength, SMTT(60)
    <3>2. ASSUME NEW u \in Threads
          PROVE  /\ pc'[u] = "idle" => waiting[u] = <<>>
                 /\ pc'[u] \in {"reap", "queued", "sync"} => Len(waiting[u]) = 1
                 /\ pc'[u] = "blit" => Len(waiting[u]) <= 1
      BY <1>0, <2>1, <2>2, <3>1 DEF Locals
    <3>3. /\ pc' \in [Threads -> {"idle", "reap", "queued", "sync", "drain", "blit"}]
          /\ op' \in [Threads -> Calls \cup {"none", "destroy"}]
      BY <1>0, <2>2
    <3>. QED BY <2>1, <3>2, <3>3 DEF Locals
  <2>5. Teardown' BY <1>0, <2>1, <2>2, SMTT(60) DEF Teardown
  <2>. QED BY <2>3, <2>4, <2>5
<1>8. CASE BlitCommit(t)
  <2>1. /\ pc[t] = "blit" /\ UNCHANGED <<mode, pending, openBatch, pc, op>>
        /\ waiting' = [waiting EXCEPT ![t] = <<Fresh>>] /\ Len(<<Fresh>>) = 1
    BY <1>8 DEF BlitCommit, ctx
  <2>2. Data' BY <1>8, CommitOwn DEF BlitCommit, ctx
  <2>3. Locals' BY <1>0, <2>1, SMTT(60) DEF Locals
  <2>4. Teardown' BY <2>1 DEF Teardown
  <2>. QED BY <2>2, <2>3, <2>4
<1>. QED BY <1>2, <1>3, <1>4, <1>5, <1>6, <1>7, <1>8 DEF Proceed

\* The initial states satisfy the invariant.
LEMMA InitInv == Init => Inv
<1>. SUFFICES ASSUME Init PROVE Inv OBVIOUS
<1>. USE DEF Init
<1>1. /\ Buffers = {} /\ Range(queue) = {} /\ Range(pending) = {}
      /\ IsInjective(queue) /\ IsInjective(pending)
      /\ \A t \in Threads : Range(waiting[t]) = {} /\ IsInjective(waiting[t])
  BY EmptyRange, SMTT(60) DEF Buffers
<1>2. Types BY <1>1, SMTT(60) DEF Types
<1>3. Device BY <1>1, SMTT(60) DEF Device
<1>4. OwnedUntilWaited BY <1>1 DEF OwnedUntilWaited, OneHolder
<1>5. Locals BY DEF Locals
<1>6. Teardown BY DEF Teardown
<1>. QED BY <1>2, <1>3, <1>4, <1>5, <1>6 DEF Inv, Data

\* Every step keeps the invariant.
LEMMA NextInv == Inv /\ [Next]_vars => Inv'
<1>. SUFFICES ASSUME Inv, [Next]_vars PROVE Inv' OBVIOUS
<1>1. CASE DeviceStep
  <2>1. Data' BY <1>1, DeviceData DEF Inv
  <2>2. UNCHANGED <<pc, op, waiting, pending, openBatch>>
    BY <1>1 DEF DeviceStep, thread, ctx
  <2>. QED BY <2>1, <2>2 DEF Inv, Locals, Teardown
<1>2. ASSUME NEW t \in Threads, Launch(t) \/ Proceed(t) \/ StartDrain(t) \/ StartDestroy(t)
      PROVE  Inv'
  BY <1>2, LaunchInv, ProceedInv, DrainInv
<1>3. CASE UNCHANGED vars
  <2>1. UNCHANGED <<mode, status, queue, pending, openBatch, pc, op, waiting, released>>
    BY <1>3 DEF vars, ctx, thread
  <2>2. Data' BY <2>1, SameData DEF Inv
  <2>. QED BY <2>1, <2>2 DEF Inv, Locals, Teardown
<1>. QED BY <1>1, <1>2, <1>3 DEF Next

\* The invariant holds throughout.
THEOREM MetalInvariant == Spec => []Inv
  BY InitInv, NextInv, PTL DEF Spec

\* However many threads launch, wait for the oldest buffer and drain, a command
\* buffer has exactly one holder until it is released, and it is released once,
\* after the device has finished with it (launch, drainPending, runBlitOp).
THEOREM Ownership == Spec => []OwnedUntilWaited
<1>1. Inv => OwnedUntilWaited BY DEF Inv, Data
<1>. QED BY <1>1, MetalInvariant, PTL

\* When destroyContext deletes the context, every command buffer ever created
\* was committed, has finished and was released once.
THEOREM TeardownStrandsNothing == Spec => []DestroyStrandsNothing
<1>1. Inv => DestroyStrandsNothing
  <2>. SUFFICES ASSUME Inv, Destroyed, NEW cb \in Buffers
                PROVE  Finished(cb) /\ released[cb] = 1
    BY DEF DestroyStrandsNothing
  <2>. USE DEF Inv, Data
  <2>1. /\ pending = <<>> /\ openBatch = None /\ \A u \in Threads : pc[u] = "idle"
    BY DEF Destroyed, Teardown
  <2>2. Range(pending) = {} /\ \A u \in Threads : Range(waiting[u]) = {}
    BY <2>1, EmptyRange DEF Locals
  <2>3. cb # None BY Numbers
  <2>4. cb \notin Held BY <2>1, <2>2, <2>3, HeldBy
  <2>. QED BY <2>4 DEF OwnedUntilWaited
<1>. QED BY <1>1, MetalInvariant, PTL

-----------------------------------------------------------------------------
(***************************************************************************)
(* What a drain observes, however many threads launch and drain.  A        *)
(* buffer that another thread's launch has taken out of pending as the     *)
(* oldest is ahead, in the queue, of one that a drain still waits for.     *)
(* And the limits on batches and on buffers in flight.                     *)
(***************************************************************************)

\* In batched mode the backpressure keeps pending short.
Backpressure ==
  mode = "batched" => /\ Len(pending) <= kMaxPendingBuffers
                      /\ \A t \in Threads : pc[t] # "queued"

\* What the drains that are running wait for.
Draining == UNION {Range(waiting[u]) : u \in {v \in Threads : pc[v] = "drain"}}

\* What a thread waits for, or will wait for when it drains next, and what the
\* drains of the others wait for.
Awaited == [t \in Threads |->
              Range(waiting[t]) \cup Draining
                \cup (IF pc[t] = "drain" THEN {} ELSE Range(pending))]

\* The batch that a thread's next drain will commit.
ToCommit == [t \in Threads |-> IF pc[t] = "drain" THEN None ELSE openBatch]

\* A launch that has finished, is in the batch its thread's drain will commit,
\* or is in the queue and not behind everything its thread awaits.
Covered ==
  {l \in [by : Threads, in : Buffers] :
     \/ Finished(l.in) \/ l.in = ToCommit[l.by]
     \/ \E i, j \in DOMAIN queue :
          i <= j /\ queue[i] = l.in /\ queue[j] \in Awaited[l.by]}

Ahead == launches \subseteq Covered

ObserveInv == Inv /\ Backpressure /\ Ahead

\* A launch stays ahead if the queue only grows, what was awaited has finished
\* or something no earlier in the queue is awaited, and the batch to commit
\* stays that or is committed and awaited.
LEMMA StaysAhead ==
  ASSUME Device, NEW l \in Covered,
         Buffers \subseteq Buffers',
         \A x \in Buffers : Finished(x) => status'[x] \in {"done", "failed"},
         \A k \in DOMAIN queue : k \in DOMAIN queue' /\ queue'[k] = queue[k],
         \A k \in DOMAIN queue : queue[k] \in Awaited[l.by] =>
           Finished(queue[k])
             \/ \E j \in DOMAIN queue' : k <= j /\ queue'[j] \in Awaited'[l.by],
         l.in = ToCommit[l.by] =>
           \/ l.in = ToCommit'[l.by]
           \/ \E j \in DOMAIN queue' : queue'[j] = l.in /\ l.in \in Awaited'[l.by],
         queue \in Seq(Nat), queue' \in Seq(Nat)
  PROVE  l \in Covered'
<1>0. l \in [by : Threads, in : Buffers'] BY DEF Covered
<1>1. l.in \in Buffers BY DEF Covered
<1>. SUFFICES \/ status'[l.in] \in {"done", "failed"} \/ l.in = ToCommit'[l.by]
              \/ \E i, j \in DOMAIN queue' :
                   i <= j /\ queue'[i] = l.in /\ queue'[j] \in Awaited'[l.by]
  BY <1>0 DEF Covered, Finished
<1>2. CASE Finished(l.in) BY <1>1, <1>2
<1>3. CASE l.in = ToCommit[l.by]
  <2>1. \A j \in DOMAIN queue' : j <= j BY SMTT(60)
  <2>. QED BY <1>1, <1>3, <2>1
<1>4. CASE \E i, j \in DOMAIN queue :
             i <= j /\ queue[i] = l.in /\ queue[j] \in Awaited[l.by]
  <2>1. PICK i \in DOMAIN queue, k \in DOMAIN queue :
          i <= k /\ queue[i] = l.in /\ queue[k] \in Awaited[l.by]
    BY <1>4
  <2>2. CASE Finished(queue[k])
    <3>1. Finished(queue[i])
      <4>1. i = k \/ i < k BY <2>1, SMTT(60)
      <4>. QED BY <2>1, <2>2, <4>1 DEF Device
    <3>. QED BY <1>1, <2>1, <3>1
  <2>3. CASE \E j \in DOMAIN queue' : k <= j /\ queue'[j] \in Awaited'[l.by]
    <3>1. PICK j \in DOMAIN queue' : k <= j /\ queue'[j] \in Awaited'[l.by] BY <2>3
    <3>2. i <= j /\ i \in DOMAIN queue' /\ queue'[i] = l.in BY <2>1, <3>1, SMTT(60)
    <3>. QED BY <1>1, <3>1, <3>2
  <2>. QED BY <2>1, <2>2, <2>3
<1>. QED BY <1>2, <1>3, <1>4 DEF Covered

\* The same if the queue stays: then what was awaited has finished or is still
\* awaited, and the batch to commit stays that.
LEMMA StaysCovered ==
  ASSUME Data, NEW l \in Covered, queue' = queue,
         Buffers \subseteq Buffers',
         \A x \in Buffers : Finished(x) => status'[x] \in {"done", "failed"},
         \A x \in Awaited[l.by] : x \in Awaited'[l.by] \/ Finished(x),
         ToCommit[l.by] # None => ToCommit'[l.by] = ToCommit[l.by]
  PROVE  l \in Covered'
<1>1. None \notin Buffers /\ queue \in Seq(Nat) /\ Device BY Numbers DEF Data, Types
<1>2. \A k \in DOMAIN queue : queue[k] \in Awaited[l.by] =>
        Finished(queue[k])
          \/ \E j \in DOMAIN queue' : k <= j /\ queue'[j] \in Awaited'[l.by]
  <2>1. \A k \in DOMAIN queue : k <= k BY <1>1, SMTT(60)
  <2>. QED BY <2>1
<1>3. l.in # None BY <1>1 DEF Covered
<1>. QED BY <1>1, <1>2, <1>3, StaysAhead

\* A step that leaves the queue and pending alone keeps every launch ahead, if
\* a thread stops to wait only for what has finished.
LEMMA WaitKeepsAhead ==
  ASSUME Ahead, Data, NEW t \in Threads, launches' = launches,
         UNCHANGED <<status, queue, pending, openBatch>>,
         \A u \in Threads \ {t} : waiting'[u] = waiting[u] /\ pc'[u] = pc[u],
         \A x \in Range(waiting[t]) : x \in Range(waiting'[t]) \/ Finished(x),
         pc'[t] = "drain" => pc[t] = "drain",
         pc[t] = "drain" => pc'[t] = "drain" \/ Range(waiting[t]) = {}
  PROVE  Ahead'
<1>1. ASSUME NEW u \in Threads, NEW x \in Awaited[u]
      PROVE  x \in Awaited'[u] \/ Finished(x)
  <2>1. ASSUME x \in Draining PROVE x \in Draining' \/ Finished(x)
    <3>1. PICK v \in Threads : pc[v] = "drain" /\ x \in Range(waiting[v])
      BY <2>1 DEF Draining
    <3>2. CASE v = t BY <3>1, <3>2 DEF Draining
    <3>3. CASE v # t BY <3>1, <3>3 DEF Draining
    <3>. QED BY <3>2, <3>3
  <2>. QED BY <2>1 DEF Awaited
<1>2. ASSUME NEW u \in Threads, ToCommit[u] # None PROVE ToCommit'[u] = ToCommit[u]
  BY <1>2 DEF ToCommit
<1>3. /\ Buffers' = Buffers
      /\ \A x \in Buffers : Finished(x) => status'[x] \in {"done", "failed"}
  BY DEF Buffers, Finished
<1>4. ASSUME NEW l \in launches PROVE l \in Covered'
  <2>1. l.by \in Threads /\ l \in Covered BY DEF Ahead, Covered
  <2>. QED BY <1>1, <1>2, <1>3, <2>1, StaysCovered
<1>. QED BY <1>4 DEF Ahead

\* The device finishes a buffer.
LEMMA DeviceAhead == ASSUME Ahead, Data, DeviceStep PROVE Ahead'
<1>1. /\ UNCHANGED <<queue, pending, openBatch, pc, waiting, launches>>
  BY DEF DeviceStep, ctx, thread, history
<1>2. /\ Buffers' = Buffers
      /\ \A x \in Buffers : Finished(x) => status'[x] \in {"done", "failed"}
  BY DEF DeviceStep, Buffers, Finished, Data, Types
<1>3. Awaited' = Awaited /\ ToCommit' = ToCommit BY <1>1 DEF Awaited, Draining, ToCommit
<1>4. ASSUME NEW l \in launches PROVE l \in Covered'
  <2>1. l.by \in Threads /\ l \in Covered BY DEF Ahead, Covered
  <2>. QED BY <1>1, <1>2, <1>3, <2>1, StaysCovered
<1>. QED BY <1>1, <1>4 DEF Ahead

\* A launch puts its buffer into pending: what its thread awaits stays.
LEMMA KeepAhead ==
  ASSUME Ahead, Data, Locals, NEW t \in Threads, KeepPending(t) PROVE Ahead'
<1>1. /\ pc[t] = "queued" /\ pc' = [pc EXCEPT ![t] = "idle"]
      /\ waiting' = [waiting EXCEPT ![t] = <<>>] /\ pending' = pending \o waiting[t]
      /\ UNCHANGED <<status, queue, openBatch, launches>>
  BY DEF KeepPending, history
<1>2. /\ pending \in Seq(Nat) /\ waiting \in [Threads -> Seq(Nat)]
      /\ pc \in [Threads -> {"idle", "reap", "queued", "sync", "drain", "blit"}]
      /\ waiting[t] \in Seq(Nat) /\ Len(waiting[t]) = 1
  BY <1>1 DEF Data, Types, Locals
<1>3. Range(pending') = Range(pending) \cup Range(waiting[t])
  <2>1. waiting[t] = <<Head(waiting[t])>> /\ Head(waiting[t]) \in Nat BY <1>2, OneLong
  <2>2. PICK b \in Nat : waiting[t] = <<b>> BY <2>1
  <2>3. pending' = Append(pending, b) BY <1>1, <1>2, <2>2, JoinOne
  <2>4. Range(<<b>>) = {b} BY OneRange
  <2>. QED BY <1>2, <2>2, <2>3, <2>4, AppendRange, SMTT(60)
<1>4. ASSUME NEW u \in Threads, NEW x \in Awaited[u] PROVE x \in Awaited'[u]
  <2>1. Draining \subseteq Draining' BY <1>1, <1>2 DEF Draining
  <2>. QED BY <1>1, <1>2, <1>3, <2>1 DEF Awaited
<1>5. ToCommit' = ToCommit BY <1>1, <1>2 DEF ToCommit
<1>6. /\ Buffers' = Buffers
      /\ \A x \in Buffers : Finished(x) => status'[x] \in {"done", "failed"}
  BY <1>1 DEF Buffers, Finished
<1>7. ASSUME NEW l \in launches PROVE l \in Covered'
  <2>1. l.by \in Threads /\ l \in Covered BY DEF Ahead, Covered
  <2>. QED BY <1>1, <1>4, <1>5, <1>6, <2>1, StaysCovered
<1>. QED BY <1>1, <1>7 DEF Ahead

\* The queue grows by one buffer; what was there stays where it was.
LEMMA Longer ==
  ASSUME NEW cb \in Nat, queue \in Seq(Nat), queue' = Append(queue, cb)
  PROVE  /\ queue' \in Seq(Nat)
         /\ \A k \in DOMAIN queue : k \in DOMAIN queue' /\ queue'[k] = queue[k]
         /\ \E j \in DOMAIN queue' : queue'[j] = cb /\ \A k \in DOMAIN queue : k <= j
<1>1. /\ queue' \in Seq(Nat) /\ Len(queue) \in Nat
      /\ DOMAIN queue = 1 .. Len(queue) /\ DOMAIN queue' = 1 .. Len(queue) + 1
      /\ queue'[Len(queue) + 1] = cb /\ \A k \in 1 .. Len(queue) : queue'[k] = queue[k]
  BY SMTT(60)
<1>2. Len(queue) + 1 \in DOMAIN queue' /\ \A k \in DOMAIN queue : k <= Len(queue) + 1
  BY <1>1, SMTT(60)
<1>. QED BY <1>1, <1>2, SMTT(60)

\* A thread commits a buffer, of a launch or of a blit, and waits for it.
LEMMA CommitOwnAhead ==
  ASSUME Ahead, Data, Locals, NEW t \in Threads, waiting[t] = <<>>,
         status' = Append(status, "committed"),
         queue' = Append(queue, Fresh), waiting' = [waiting EXCEPT ![t] = <<Fresh>>],
         UNCHANGED <<pending, openBatch>>,
         NEW p \in {"queued", "sync", "blit"}, pc[t] # "drain",
         pc' = [pc EXCEPT ![t] = p],
         launches' \subseteq launches \cup {[by |-> t, in |-> Fresh]}
  PROVE  Ahead'
<1>1. PICK new : new = Fresh OBVIOUS
<1>2. /\ new \in Nat /\ Buffers' = Buffers \cup {new}
      /\ \A x \in Buffers : status'[x] = status[x]
  BY <1>1, Created DEF Data, Types, States
<1>3. /\ queue \in Seq(Nat) /\ Device /\ waiting \in [Threads -> Seq(Nat)]
      /\ pc \in [Threads -> {"idle", "reap", "queued", "sync", "drain", "blit"}]
  BY DEF Data, Types, Locals
<1>4. /\ queue' \in Seq(Nat)
      /\ \A k \in DOMAIN queue : k \in DOMAIN queue' /\ queue'[k] = queue[k]
      /\ \E j \in DOMAIN queue' : queue'[j] = new /\ \A k \in DOMAIN queue : k <= j
  BY <1>1, <1>2, <1>3, Longer
<1>5. Range(waiting[t]) = {} /\ Range(<<new>>) = {new} BY <1>2, EmptyRange, OneRange
<1>6. ASSUME NEW u \in Threads
      PROVE  /\ \A x \in Awaited[u] : x \in Awaited'[u]
             /\ ToCommit'[u] = ToCommit[u] /\ (u = t => new \in Awaited'[u])
  <2>1. Draining \subseteq Draining' BY <1>3 DEF Draining
  <2>. QED BY <1>1, <1>3, <1>5, <2>1 DEF Awaited, ToCommit
<1>7. ASSUME NEW l \in launches PROVE l \in Covered'
  <2>1. l.by \in Threads /\ l \in Covered BY DEF Ahead, Covered
  <2>2. \A k \in DOMAIN queue : queue[k] \in Awaited[l.by] =>
          \E j \in DOMAIN queue' : k <= j /\ queue'[j] \in Awaited'[l.by]
    <3>1. \A k \in DOMAIN queue : k <= k BY <1>3, SMTT(60)
    <3>. QED BY <1>4, <1>6, <2>1, <3>1
  <2>3. Buffers \subseteq Buffers' BY <1>2
  <2>4. \A x \in Buffers : Finished(x) => status'[x] \in {"done", "failed"}
    BY <1>2 DEF Finished
  <2>. QED BY <1>3, <1>4, <1>6, <2>1, <2>2, <2>3, <2>4, StaysAhead
<1>8. ASSUME NEW l, l = [by |-> t, in |-> new] PROVE l \in Covered'
  <2>1. l \in [by : Threads, in : Buffers'] /\ l.by = t /\ l.in = new BY <1>2, <1>8
  <2>2. PICK j \in DOMAIN queue' : queue'[j] = new BY <1>4
  <2>3. j <= j /\ new \in Awaited'[t] BY <1>4, <1>6, SMTT(60)
  <2>. QED BY <2>1, <2>2, <2>3 DEF Covered
<1>. QED BY <1>1, <1>7, <1>8 DEF Ahead

\* A launch whose argument does not resolve.
LEMMA UnresolvedAhead ==
  ASSUME Ahead, Data, NEW t \in Threads, LaunchUnresolved(t) PROVE Ahead'
<1>1. /\ status' = OpenedStatus /\ openBatch' = Batch
      /\ UNCHANGED <<queue, pending, waiting, pc, launches>>
  BY DEF LaunchUnresolved, thread, history
<1>2. /\ Buffers \subseteq Buffers'
      /\ \A x \in Buffers : Finished(x) => status'[x] \in {"done", "failed"}
  BY <1>1, Opened DEF Buffers, Finished
<1>3. Awaited' = Awaited BY <1>1 DEF Awaited, Draining
<1>4. \A u \in Threads : ToCommit[u] # None => ToCommit'[u] = ToCommit[u]
  BY <1>1, Opened DEF ToCommit
<1>5. ASSUME NEW l \in launches PROVE l \in Covered'
  <2>1. l.by \in Threads /\ l \in Covered BY DEF Ahead, Covered
  <2>. QED BY <1>1, <1>2, <1>3, <1>4, <2>1, StaysCovered
<1>. QED BY <1>1, <1>5 DEF Ahead

\* A thread that drains takes the open batch and what is pending: for itself,
\* and for the others, who now rely on its wait.
LEMMA SwapAhead ==
  ASSUME Ahead, Data, Locals, NEW t \in Threads, waiting[t] = <<>>, NEW call,
         DrainSwap(t, call), pc[t] = "idle"
  PROVE  Ahead'
<1>1. launches' = launches /\ pc' = [pc EXCEPT ![t] = "drain"]
  BY DEF DrainSwap, history
<1>2. /\ Range(waiting'[t]) = Range(pending) \cup ({openBatch} \ {None})
      /\ \A x \in Buffers : status'[x] = status[x] \/ x = openBatch
      /\ openBatch # None => queue' = Append(queue, openBatch)
      /\ openBatch = None => queue' = queue
  BY <1>1, SwapData
<1>3. /\ waiting \in [Threads -> Seq(Nat)] /\ queue \in Seq(Nat) /\ Device /\ openBatch \in Nat /\ None \notin Buffers
      /\ pc \in [Threads -> {"idle", "reap", "queued", "sync", "drain", "blit"}]
  BY Numbers DEF Data, Types, Locals
<1>4. /\ queue' \in Seq(Nat)
      /\ \A k \in DOMAIN queue : k \in DOMAIN queue' /\ queue'[k] = queue[k]
      /\ openBatch # None => \E j \in DOMAIN queue' : queue'[j] = openBatch
  BY <1>2, <1>3, Longer
<1>5. ASSUME NEW u \in Threads
      PROVE  /\ Awaited[u] \subseteq Awaited'[u] /\ ToCommit[u] \in {None, openBatch}
             /\ openBatch # None => openBatch \in Awaited'[u]
  <2>1. Range(waiting[t]) = {} BY EmptyRange
  <2>2. \A v \in Threads \ {t} : waiting'[v] = waiting[v] /\ pc'[v] = pc[v]
    BY <1>1, <1>3 DEF DrainSwap
  <2>3. pc'[t] = "drain" BY <1>1, <1>3
  <2>4. Range(waiting'[t]) \subseteq Draining' BY <2>3 DEF Draining
  <2>5. Draining \subseteq Draining'
    <3>. SUFFICES ASSUME NEW x \in Draining PROVE x \in Draining' OBVIOUS
    <3>1. PICK v \in Threads : pc[v] = "drain" /\ x \in Range(waiting[v]) BY DEF Draining
    <3>2. v # t BY <3>1
    <3>. QED BY <2>2, <3>1, <3>2 DEF Draining
  <2>6. Draining' \subseteq Awaited'[u] /\ ToCommit[u] \in {None, openBatch}
    BY DEF Awaited, ToCommit
  <2>7. Range(waiting[u]) \subseteq Awaited'[u]
    <3>1. CASE u = t BY <2>1, <3>1
    <3>2. CASE u # t BY <2>2, <3>2 DEF Awaited
    <3>. QED BY <3>1, <3>2
  <2>. QED BY <1>2, <2>4, <2>5, <2>6, <2>7 DEF Awaited
<1>6. /\ Buffers \subseteq Buffers'
      /\ \A x \in Buffers : Finished(x) => status'[x] \in {"done", "failed"}
  <2>1. Buffers' = Buffers BY DEF DrainSwap, Buffers
  <2>2. openBatch # None => ~Finished(openBatch) BY <1>3 DEF Device, Finished
  <2>. QED BY <1>2, <1>3, <2>1, <2>2 DEF Finished
<1>7. ASSUME NEW l \in launches PROVE l \in Covered'
  <2>1. l.by \in Threads /\ l \in Covered BY DEF Ahead, Covered
  <2>2. l.in # None BY <1>3, <2>1 DEF Covered
  <2>3. \A k \in DOMAIN queue : queue[k] \in Awaited[l.by] =>
          \E j \in DOMAIN queue' : k <= j /\ queue'[j] \in Awaited'[l.by]
    <3>1. \A k \in DOMAIN queue : k <= k BY <1>3, SMTT(60)
    <3>. QED BY <1>4, <1>5, <2>1, <3>1, SMTT(60)
  <2>4. l.in = ToCommit[l.by] =>
          \E j \in DOMAIN queue' : queue'[j] = l.in /\ l.in \in Awaited'[l.by]
    BY <1>4, <1>5, <2>1, <2>2
  <2>. QED BY <1>3, <1>4, <1>6, <2>1, <2>3, <2>4, StaysAhead
<1>. QED BY <1>1, <1>7 DEF Ahead

\* A launch into a batch either leaves pending as it is, or commits the batch,
\* which then is in pending, also if the oldest had to leave.
LEMMA BatchedQueue ==
  ASSUME Data, Len(pending) <= kMaxPendingBuffers, NEW t \in Threads, LaunchBatched(t)
  PROVE  /\ \/ openBatch' = Batch /\ queue' = queue /\ pending' = pending
            \/ /\ openBatch' = None /\ queue' = Append(queue, Batch)
               /\ Batch \in Range(pending')
         /\ Len(pending') <= kMaxPendingBuffers
         /\ Buffers \cup {Batch} \subseteq Buffers'
         /\ \A x \in Buffers : Finished(x) => status'[x] \in {"done", "failed"}
<1>1. PICK b : b = Batch OBVIOUS
<1>2. /\ b \in Nat /\ b \notin Range(pending) /\ (b \in Buffers => b = openBatch)
      /\ OpenedStatus \in Seq(States) /\ DOMAIN OpenedStatus = Buffers \cup {b}
      /\ OpenedStatus[b] = "encoding" /\ \A x \in Buffers : OpenedStatus[x] = status[x]
  BY <1>1, Opened
<1>3. pending \in Seq(Nat) /\ Len(pending) \in Nat /\ kMaxPendingBuffers \in Nat \ {0}
  BY MetalAssumption, SMTT(60) DEF Data, Types
<1>4. \A x \in Buffers : Finished(x) => x # b BY <1>2 DEF Finished
<1>5. CASE Full(openBatchDispatches + 1)
  <2>1. PICK all : all = Append(pending, b) OBVIOUS
  <2>2. /\ status' = [OpenedStatus EXCEPT ![b] = "committed"]
        /\ queue' = Append(queue, b) /\ openBatch' = None /\ pending' = Rest(all)
    BY <1>1, <1>5, <2>1 DEF LaunchBatched
  <2>3. /\ all \in Seq(Nat) /\ Len(all) = Len(pending) + 1
        /\ Range(all) = Range(pending) \cup {b}
    BY <1>2, <1>3, <2>1, AppendRange, SMTT(60)
  <2>4. b \in Range(pending') /\ Len(pending') <= kMaxPendingBuffers
    <3>1. CASE TooMany(all)
      <4>1. /\ pending' = Tail(all) /\ all # <<>> /\ Len(pending) >= 1
            /\ Len(Tail(all)) = Len(pending)
        BY <1>3, <2>2, <2>3, <3>1, SMTT(60) DEF Rest, TooMany
      <4>2. Range(all) = Range(Tail(all)) \cup {Head(all)} BY <2>3, <4>1, TailRange
      <4>3. Head(all) \in Range(pending)
        <5>1. Head(all) = pending[1] /\ 1 \in DOMAIN pending BY <1>2, <1>3, <2>1, <4>1, SMTT(60)
        <5>. QED BY <5>1 DEF Range
      <4>. QED BY <1>2, <2>3, <4>1, <4>2, <4>3
    <3>2. CASE ~TooMany(all)
      <4>1. pending' = all BY <2>2, <3>2 DEF Rest
      <4>. QED BY <1>3, <2>3, <3>2, <4>1, SMTT(60) DEF TooMany
    <3>. QED BY <3>1, <3>2
  <2>5. Buffers' = Buffers \cup {b} BY <1>2, <2>2 DEF Buffers
  <2>6. \A x \in Buffers : Finished(x) => status'[x] = status[x]
    BY <1>2, <1>4, <2>2
  <2>. QED BY <1>1, <2>2, <2>4, <2>5, <2>6 DEF Finished
<1>6. CASE ~Full(openBatchDispatches + 1)
  <2>1. /\ status' = OpenedStatus /\ queue' = queue /\ openBatch' = b
        /\ pending' = Rest(pending)
    BY <1>1, <1>6 DEF LaunchBatched
  <2>2. pending' = pending BY <1>3, <2>1, SMTT(60) DEF Rest, TooMany
  <2>3. Buffers' = Buffers \cup {b} BY <1>2, <2>1 DEF Buffers
  <2>. QED BY <1>1, <1>2, <2>1, <2>2, <2>3 DEF Finished
<1>. QED BY <1>5, <1>6

(* A batched launch that commits its batch leaves it in pending, behind   *)
(* whatever the backpressure takes out.                                    *)
LEMMA BatchedAhead ==
  ASSUME Inv, Backpressure, Ahead, NEW t \in Threads, LaunchBatched(t)
  PROVE  Ahead' /\ Backpressure'
<1>. USE DEF Inv
<1>1. PICK b : b = Batch OBVIOUS
<1>2. /\ mode = "batched" /\ mode' = mode /\ pc[t] = "idle" /\ waiting[t] = <<>>
      /\ launches' = launches \cup {[by |-> t, in |-> b]}
  BY <1>1 DEF LaunchBatched, StartLaunch, Locals
<1>3. /\ \/ openBatch' = b /\ queue' = queue /\ pending' = pending
         \/ /\ openBatch' = None /\ queue' = Append(queue, b)
            /\ b \in Range(pending')
      /\ Len(pending') <= kMaxPendingBuffers
      /\ Buffers \cup {b} \subseteq Buffers'
      /\ \A x \in Buffers : Finished(x) => status'[x] \in {"done", "failed"}
  BY <1>1, <1>2, BatchedQueue DEF Backpressure
<1>4. /\ \A u \in Threads \ {t} : waiting'[u] = waiting[u]
      /\ \/ waiting'[t] = <<>> /\ pc' = [pc EXCEPT ![t] = "idle"]
         \/ Len(waiting'[t]) = 1 /\ pc' = [pc EXCEPT ![t] = "reap"]
  BY <1>2, BatchedData
<1>5. /\ pc \in [Threads -> {"idle", "reap", "queued", "sync", "drain", "blit"}]
      /\ b \in Nat /\ b # None /\ openBatch \in {None, b} /\ None \notin Buffers
      /\ queue \in Seq(Nat) /\ Device
  BY <1>1, Opened, Numbers DEF Locals, Data, Types
<1>6. pc'[t] # "drain" /\ pc'[t] # "queued" /\ \A u \in Threads \ {t} : pc'[u] = pc[u]
  BY <1>4, <1>5
<1>7. Backpressure' BY <1>2, <1>3, <1>6 DEF Backpressure
<1>8. Range(waiting[t]) = {} BY <1>2, EmptyRange
<1>9. CASE openBatch' = b /\ queue' = queue /\ pending' = pending
  <2>1. ASSUME NEW u \in Threads
        PROVE  /\ \A x \in Awaited[u] : x \in Awaited'[u]
               /\ ToCommit[u] # None => ToCommit'[u] = ToCommit[u]
    <3>1. Draining \subseteq Draining' BY <1>2, <1>4, <1>6 DEF Draining
    <3>. QED BY <1>2, <1>5, <1>6, <1>4, <1>8, <1>9, <3>1 DEF Awaited, ToCommit
  <2>2. ASSUME NEW l \in launches PROVE l \in Covered'
    <3>1. l.by \in Threads /\ l \in Covered BY DEF Ahead, Covered
    <3>. QED BY <1>3, <1>9, <2>1, <3>1, StaysCovered
  <2>3. ASSUME NEW l, l = [by |-> t, in |-> b] PROVE l \in Covered'
    <3>1. l \in [by : Threads, in : Buffers'] /\ l.by = t /\ l.in = b BY <1>3, <2>3
    <3>2. ToCommit'[t] = b BY <1>6, <1>9 DEF ToCommit
    <3>. QED BY <3>1, <3>2 DEF Covered
  <2>. QED BY <1>2, <1>7, <2>2, <2>3 DEF Ahead
<1>10. CASE /\ openBatch' = None /\ queue' = Append(queue, b)
            /\ b \in Range(pending')
  <2>1. /\ queue' \in Seq(Nat)
        /\ \A k \in DOMAIN queue : k \in DOMAIN queue' /\ queue'[k] = queue[k]
        /\ \E j \in DOMAIN queue' : queue'[j] = b /\ \A k \in DOMAIN queue : k <= j
    BY <1>5, <1>10, Longer
  <2>2. PICK j \in DOMAIN queue' : queue'[j] = b /\ \A k \in DOMAIN queue : k <= j
    BY <2>1
  <2>3. ASSUME NEW u \in Threads, pc[u] # "drain" PROVE b \in Awaited'[u]
    BY <1>6, <1>10, <2>3 DEF Awaited
  <2>4. ASSUME NEW u \in Threads, pc[u] = "drain"
        PROVE  Awaited[u] \subseteq Awaited'[u] /\ ToCommit[u] = None
    <3>1. Draining \subseteq Draining' BY <1>2, <1>4, <1>6 DEF Draining
    <3>. QED BY <1>2, <1>4, <1>6, <2>4, <3>1 DEF Awaited, ToCommit
  <2>5. ASSUME NEW l \in launches PROVE l \in Covered'
    <3>1. l.by \in Threads /\ l \in Covered BY DEF Ahead, Covered
    <3>2. l.in # None BY <1>5, <3>1 DEF Covered
    <3>3. \A k \in DOMAIN queue : queue[k] \in Awaited[l.by] =>
            \E m \in DOMAIN queue' : k <= m /\ queue'[m] \in Awaited'[l.by]
      <4>1. CASE pc[l.by] = "drain"
        <5>1. \A k \in DOMAIN queue : k <= k BY <1>5, SMTT(60)
        <5>. QED BY <2>1, <2>4, <3>1, <4>1, <5>1
      <4>2. CASE pc[l.by] # "drain" BY <2>2, <2>3, <3>1, <4>2
      <4>. QED BY <4>1, <4>2
    <3>4. l.in = ToCommit[l.by] =>
            \E m \in DOMAIN queue' : queue'[m] = l.in /\ l.in \in Awaited'[l.by]
      <4>1. CASE pc[l.by] = "drain" BY <2>4, <3>1, <3>2, <4>1
      <4>2. CASE pc[l.by] # "drain"
        <5>1. ToCommit[l.by] = openBatch BY <3>1, <4>2 DEF ToCommit
        <5>. QED BY <1>5, <2>2, <2>3, <3>1, <3>2, <4>2, <5>1
      <4>. QED BY <4>1, <4>2
    <3>. QED BY <1>3, <1>5, <2>1, <3>1, <3>3, <3>4, StaysAhead
  <2>6. ASSUME NEW l, l = [by |-> t, in |-> b] PROVE l \in Covered'
    <3>1. l \in [by : Threads, in : Buffers'] /\ l.by = t /\ l.in = b BY <1>3, <2>6
    <3>2. j <= j /\ b \in Awaited'[t] BY <1>2, <2>1, <2>3, SMTT(60)
    <3>. QED BY <2>2, <3>1, <3>2 DEF Covered
  <2>. QED BY <1>2, <1>7, <2>5, <2>6 DEF Ahead
<1>. QED BY <1>3, <1>9, <1>10

\* A step of a thread inside a call.
LEMMA ProceedAhead ==
  ASSUME Inv, Backpressure, Ahead, NEW t \in Threads, Proceed(t)
  PROVE  Ahead' /\ Backpressure'
<1>. USE DEF Inv
<1>0. /\ waiting \in [Threads -> Seq(Nat)] /\ waiting[t] \in Seq(Nat)
      /\ pc \in [Threads -> {"idle", "reap", "queued", "sync", "drain", "blit"}]
  BY DEF Data, Types, Locals
<1>1. ASSUME NEW cb, pc[t] # "drain", Len(waiting[t]) = 1, cb = Head(waiting[t]), Finished(cb),
             waiting' = [waiting EXCEPT ![t] = <<>>], pc' = [pc EXCEPT ![t] = "idle"],
             UNCHANGED <<mode, status, queue, pending, openBatch, launches>>
      PROVE  Ahead' /\ Backpressure'
  <2>1. Range(waiting[t]) = {cb}
    <3>1. waiting[t] = <<cb>> /\ cb \in Nat BY <1>0, <1>1, OneLong
    <3>. QED BY <3>1, OneRange
  <2>2. Ahead' BY <1>0, <1>1, <2>1, WaitKeepsAhead
  <2>. QED BY <1>0, <1>1, <2>2 DEF Backpressure
<1>2. CASE Reap(t)
  <2>1. Len(waiting[t]) = 1 BY <1>2 DEF Reap, Locals
  <2>. QED BY <1>1, <1>2, <2>1 DEF Reap, history
<1>3. CASE WaitForLaunch(t)
  <2>1. Len(waiting[t]) = 1 BY <1>3 DEF WaitForLaunch, Locals
  <2>. QED BY <1>1, <1>3, <2>1 DEF WaitForLaunch, ctx
<1>4. CASE BlitWait(t)
  <2>1. Len(waiting[t]) <= 1 /\ waiting[t] # <<>> BY <1>4 DEF BlitWait, Locals
  <2>2. Len(waiting[t]) \in Nat /\ Len(waiting[t]) # 0 BY <1>0, <2>1, EmptyLength
  <2>3. \A n \in Nat : n # 0 /\ n <= 1 => n = 1 BY SMTT(60)
  <2>4. Len(waiting[t]) = 1 BY <2>1, <2>2, <2>3
  <2>. QED BY <1>1, <1>4, <2>4 DEF BlitWait, ctx
<1>5. CASE KeepPending(t)
  <2>1. Ahead' BY <1>5, KeepAhead
  <2>2. mode' = mode /\ mode # "batched" BY <1>5 DEF KeepPending, Backpressure
  <2>. QED BY <2>1, <2>2 DEF Backpressure
<1>6. CASE DrainWait(t)
  <2>1. /\ waiting[t] # <<>> /\ Finished(Head(waiting[t]))
        /\ waiting' = [waiting EXCEPT ![t] = Tail(@)]
        /\ UNCHANGED <<mode, status, queue, pending, openBatch, pc, launches>>
    BY <1>6 DEF DrainWait, history
  <2>2. Range(waiting[t]) = Range(Tail(waiting[t])) \cup {Head(waiting[t])}
    BY <1>0, <2>1, TailRange
  <2>3. Ahead' BY <1>0, <2>1, <2>2, WaitKeepsAhead
  <2>. QED BY <2>1, <2>3 DEF Backpressure
<1>7. CASE DrainReturn(t)
  <2>1. /\ pc[t] = "drain"
        /\ \E p \in {"blit", "idle"} : pc' = [pc EXCEPT ![t] = p]
        /\ UNCHANGED <<mode, status, queue, pending, openBatch, waiting, launches>>
    BY <1>7 DEF DrainReturn
  <2>2. Range(waiting[t]) = {} BY <1>7, EmptyRange DEF DrainReturn
  <2>3. Ahead' BY <1>0, <2>1, <2>2, WaitKeepsAhead
  <2>. QED BY <1>0, <2>1, <2>3 DEF Backpressure
<1>8. CASE BlitCommit(t)
  <2>1. /\ pc[t] = "blit" /\ UNCHANGED <<mode, pending, openBatch, pc, launches>>
    BY <1>8 DEF BlitCommit, ctx, history
  <2>2. pc' = [pc EXCEPT ![t] = "blit"] BY <1>0, <2>1
  <2>3. Ahead' BY <1>8, <2>1, <2>2, CommitOwnAhead DEF BlitCommit
  <2>. QED BY <2>1, <2>3 DEF Backpressure
<1>. QED BY <1>2, <1>3, <1>4, <1>5, <1>6, <1>7, <1>8 DEF Proceed

\* Every step keeps every launch ahead of what is awaited.
LEMMA ObserveNext == ObserveInv /\ [Next]_vars => ObserveInv'
<1>. SUFFICES ASSUME ObserveInv, [Next]_vars PROVE ObserveInv' OBVIOUS
<1>. USE DEF ObserveInv, Inv
<1>1. Inv' BY NextInv
<1>. SUFFICES Ahead' /\ Backpressure' BY <1>1
<1>2. CASE DeviceStep
  <2>1. UNCHANGED <<mode, pending, pc>> BY <1>2 DEF DeviceStep, ctx, thread
  <2>. QED BY <1>2, <2>1, DeviceAhead DEF Backpressure
<1>3. ASSUME NEW t \in Threads, LaunchBatched(t) PROVE Ahead' /\ Backpressure'
  BY <1>3, BatchedAhead
<1>4. ASSUME NEW t \in Threads, LaunchUnresolved(t) PROVE Ahead' /\ Backpressure'
  <2>1. UNCHANGED <<mode, pending, pc>> BY <1>4 DEF LaunchUnresolved, thread
  <2>. QED BY <1>4, <2>1, UnresolvedAhead DEF Backpressure
<1>5. ASSUME NEW t \in Threads, LaunchUnbatched(t) PROVE Ahead' /\ Backpressure'
  <2>1. /\ pc[t] = "idle" /\ waiting[t] = <<>> /\ mode \in {"queued", "sync", "blit"}
        /\ mode' = mode /\ mode # "batched" /\ UNCHANGED <<pending, openBatch>>
    BY <1>5 DEF LaunchUnbatched, StartLaunch, Locals, ctx
  <2>2. Ahead' BY <1>5, <2>1, CommitOwnAhead DEF LaunchUnbatched
  <2>. QED BY <2>1, <2>2 DEF Backpressure
<1>6. ASSUME NEW t \in Threads, Proceed(t) PROVE Ahead' /\ Backpressure'
  BY <1>6, ProceedAhead
<1>7. ASSUME NEW t \in Threads, StartDrain(t) \/ StartDestroy(t)
      PROVE  Ahead' /\ Backpressure'
  <2>1. pc[t] = "idle" /\ waiting[t] = <<>>
    BY <1>7 DEF StartDrain, StartDestroy, Locals
  <2>2. PICK call : DrainSwap(t, call) BY <1>7 DEF StartDrain, StartDestroy
  <2>3. Ahead' BY <2>1, <2>2, SwapAhead
  <2>4. pending' = <<>> /\ mode' = mode /\ pc' = [pc EXCEPT ![t] = "drain"]
    BY <2>2 DEF DrainSwap
  <2>5. Len(<<>>) = 0 /\ 0 <= kMaxPendingBuffers BY MetalAssumption, EmptyLength, SMTT(60)
  <2>6. Backpressure' BY <2>4, <2>5 DEF Backpressure, Locals
  <2>. QED BY <2>3, <2>6
<1>8. CASE UNCHANGED vars
  <2>1. UNCHANGED <<mode, status, queue, pending, openBatch, pc, waiting, launches>>
    BY <1>8 DEF vars, ctx, thread, history
  <2>2. Awaited' = Awaited /\ ToCommit' = ToCommit
    BY <2>1 DEF Awaited, Draining, ToCommit
  <2>. QED BY <2>1, <2>2 DEF Backpressure, Ahead, Covered, Finished, Buffers
<1>. QED BY <1>2, <1>3, <1>4, <1>5, <1>6, <1>7, <1>8 DEF Next, Launch

\* However many threads launch and drain: when a drain has waited, a kernel its
\* thread launched before has landed, also if another thread's launch took its
\* buffer out of pending, or else a drain of another thread has taken it and
\* still waits (drainPending against launch and against itself).
THEOREM DrainObservesLaunches == Spec => []DrainObserves
<1>1. Init => ObserveInv
  <2>. SUFFICES ASSUME Init PROVE ObserveInv OBVIOUS
  <2>1. Inv BY InitInv
  <2>2. Ahead BY DEF Init, Ahead
  <2>3. Len(<<>>) = 0 /\ 0 <= kMaxPendingBuffers BY MetalAssumption, EmptyLength, SMTT(60)
  <2>4. Backpressure BY <2>3 DEF Init, Backpressure
  <2>. QED BY <2>1, <2>2, <2>4 DEF ObserveInv
<1>2. ObserveInv /\ [Next]_vars => ObserveInv' BY ObserveNext
<1>3. ObserveInv => DrainObserves
  <2>. SUFFICES ASSUME ObserveInv, NEW t \in Threads, pc[t] = "drain",
                       waiting[t] = <<>>, NEW l \in launches, l.by = t, ~Finished(l.in)
                PROVE  DrainedByAnother(t, l.in)
    BY DEF DrainObserves
  <2>1. l \in Covered BY DEF ObserveInv, Ahead
  <2>2. Range(waiting[t]) = {} BY EmptyRange
  <2>3. Awaited[t] = Draining /\ ToCommit[t] = None BY <2>2 DEF Awaited, ToCommit
  <2>4. None \notin Buffers BY Numbers DEF ObserveInv, Inv, Data
  <2>5. PICK i \in DOMAIN queue, j \in DOMAIN queue :
          i <= j /\ queue[i] = l.in /\ queue[j] \in Draining
    BY <2>1, <2>3, <2>4 DEF Covered
  <2>6. PICK u \in Threads : pc[u] = "drain" /\ queue[j] \in Range(waiting[u])
    BY <2>5 DEF Draining
  <2>7. u \in Threads \ {t} BY <2>2, <2>6
  <2>. QED BY <2>5, <2>6, <2>7 DEF DrainedByAnother
<1>. QED BY <1>1, <1>2, <1>3, PTL DEF Spec

-----------------------------------------------------------------------------
(* The limits: dispatches in a batch and buffers in flight, however many   *)
(* threads drain.                                                          *)

\* Dispatches and calls are within their limits, and what is recorded of a
\* command buffer is about one that was created.
Records ==
  /\ openBatchDispatches \in 0..(kMaxBatchDispatches - 1)
  /\ calls \in 0..MaxCalls
  /\ deferredError \in Buffers \cup {None}
  /\ launches \subseteq [by : Threads, in : Buffers] /\ reported \subseteq Buffers

\* A step that waits for no buffer keeps the records of those there were.
LEMMA RecordsGrow ==
  ASSUME Records, Buffers \subseteq Buffers', NEW b \in Buffers', NEW t \in Threads,
         launches' \in {launches, launches \cup {[by |-> t, in |-> b]}},
         UNCHANGED <<deferredError, reported>>,
         calls' \in 0..MaxCalls, openBatchDispatches' \in 0..(kMaxBatchDispatches - 1)
  PROVE  Records'
<1>1. launches' \subseteq [by : Threads, in : Buffers'] BY SMTT(60) DEF Records
<1>. QED BY <1>1 DEF Records

\* A launch counts, and the batch that it fills is closed.
LEMMA LaunchRecords ==
  ASSUME Inv, Backpressure, Records, NEW t \in Threads, Launch(t) PROVE Records'
<1>0. /\ calls \in 0..MaxCalls /\ MaxCalls \in Nat /\ kMaxBatchDispatches \in Nat \ {0}
      /\ openBatchDispatches \in 0..(kMaxBatchDispatches - 1)
  BY MetalAssumption DEF Records
<1>1. calls' \in 0..MaxCalls
  BY <1>0, SMTT(60) DEF Launch, LaunchBatched, LaunchUnresolved, LaunchUnbatched, StartLaunch
<1>2. CASE LaunchBatched(t)
  <2>1. Len(pending) <= kMaxPendingBuffers BY <1>2 DEF LaunchBatched, Backpressure
  <2>2. Buffers \cup {Batch} \subseteq Buffers' BY <1>2, <2>1, BatchedQueue DEF Inv
  <2>3. openBatchDispatches' = IF openBatchDispatches + 1 >= kMaxBatchDispatches
                                 THEN 0 ELSE openBatchDispatches + 1
    BY <1>2 DEF LaunchBatched, Full
  <2>4. openBatchDispatches' \in 0..(kMaxBatchDispatches - 1) BY <1>0, <2>3, SMTT(60)
  <2>5. /\ launches' = launches \cup {[by |-> t, in |-> Batch]}
        /\ UNCHANGED <<deferredError, reported>>
    BY <1>2 DEF LaunchBatched
  <2>. QED BY <1>1, <2>2, <2>4, <2>5, RecordsGrow
<1>3. CASE LaunchUnresolved(t)
  <2>1. /\ status' = OpenedStatus
        /\ UNCHANGED <<openBatchDispatches, deferredError, launches, reported>>
    BY <1>3 DEF LaunchUnresolved, history
  <2>2. Buffers' = Buffers \cup {Batch} BY <2>1, Opened DEF Inv, Buffers
  <2>. QED BY <1>0, <1>1, <2>1, <2>2, RecordsGrow
<1>4. CASE LaunchUnbatched(t)
  <2>1. /\ status' = Append(status, "committed")
        /\ launches' = launches \cup {[by |-> t, in |-> Fresh]}
        /\ UNCHANGED <<openBatchDispatches, deferredError, reported>>
    BY <1>4 DEF LaunchUnbatched, ctx
  <2>2. Buffers' = Buffers \cup {Fresh}
    BY <2>1, Created DEF Inv, Data, Types, States
  <2>. QED BY <1>0, <1>1, <2>1, <2>2, RecordsGrow
<1>. QED BY <1>2, <1>3, <1>4 DEF Launch

\* Errors are recorded of buffers that were waited for.
LEMMA ProceedRecords ==
  ASSUME Inv, Records, NEW t \in Threads, Proceed(t) PROVE Records'
<1>1. CASE BlitCommit(t)
  <2>1. /\ status' = Append(status, "committed")
        /\ UNCHANGED <<openBatchDispatches, deferredError, calls, launches, reported>>
    BY <1>1 DEF BlitCommit, ctx, history
  <2>2. Buffers' = Buffers \cup {Fresh}
    BY <2>1, Created DEF Inv, Data, Types, States
  <2>. QED BY <2>1, <2>2 DEF Records
<1>2. CASE ~BlitCommit(t)
  <2>1. UNCHANGED <<status, openBatchDispatches, calls, launches>>
    BY <1>2 DEF Proceed, Reap, KeepPending, WaitForLaunch, DrainWait, DrainReturn, BlitWait,
       ctx, history
  <2>2. UNCHANGED Buffers BY <2>1 DEF Buffers
  <2>3. waiting[t] \in Seq(Nat) /\ Range(waiting[t]) \subseteq Buffers
    BY DEF Inv, Data, Types
  <2>4. waiting[t] # <<>> => Head(waiting[t]) \in Buffers
    BY <2>3, TailRange, SMTT(60)
  <2>5. Reap(t) \/ WaitForLaunch(t) => waiting[t] # <<>>
    <3>1. Reap(t) \/ WaitForLaunch(t) => Len(waiting[t]) = 1
      BY DEF Reap, WaitForLaunch, Inv, Locals
    <3>. QED BY <2>3, <3>1, OneLong
  <2>6. deferredError' \in Buffers \cup {None}
    <3>0. deferredError \in Buffers \cup {None} BY DEF Records
    <3>1. CASE Reap(t) \/ DrainWait(t)
      BY <2>4, <2>5, <3>0, <3>1 DEF Reap, DrainWait, Defer
    <3>2. CASE KeepPending(t) \/ WaitForLaunch(t) \/ DrainReturn(t) \/ BlitWait(t)
      BY <3>0, <3>2 DEF KeepPending, WaitForLaunch, DrainReturn, BlitWait, ctx
    <3>. QED BY <1>2, <3>1, <3>2 DEF Proceed
  <2>7. reported' \subseteq Buffers
    <3>0. reported \subseteq Buffers /\ deferredError \in Buffers \cup {None} BY DEF Records
    <3>1. CASE WaitForLaunch(t) \/ BlitWait(t)
      BY <2>4, <2>5, <3>0, <3>1 DEF WaitForLaunch, BlitWait
    <3>2. CASE DrainReturn(t) BY <3>0, <3>2 DEF DrainReturn
    <3>3. CASE Reap(t) \/ KeepPending(t) \/ DrainWait(t)
      BY <3>0, <3>3 DEF Reap, KeepPending, DrainWait, history
    <3>. QED BY <1>2, <3>1, <3>2, <3>3 DEF Proceed
  <2>. QED BY <2>1, <2>2, <2>6, <2>7 DEF Records
<1>. QED BY <1>1, <1>2

\* Every step keeps the records.
LEMMA RecordsNext ==
  ASSUME Inv, Backpressure, Records, [Next]_vars PROVE Records'
<1>1. CASE DeviceStep
  <2>1. UNCHANGED <<openBatchDispatches, deferredError, calls, launches, reported>>
    BY <1>1 DEF DeviceStep, ctx, history
  <2>2. Buffers' = Buffers BY <1>1 DEF DeviceStep, Buffers, Inv, Data, Types
  <2>. QED BY <2>1, <2>2 DEF Records
<1>2. ASSUME NEW t \in Threads, StartDrain(t) \/ StartDestroy(t) PROVE Records'
  <2>1. PICK call : DrainSwap(t, call) BY <1>2 DEF StartDrain, StartDestroy
  <2>2. /\ Buffers' = Buffers /\ openBatchDispatches' = 0
        /\ UNCHANGED <<deferredError, launches, reported>>
    BY <2>1 DEF DrainSwap, Buffers, history
  <2>3. calls' \in 0..MaxCalls
    BY <1>2, MetalAssumption, SMTT(60) DEF StartDrain, StartDestroy, Records
  <2>4. 0 \in 0..(kMaxBatchDispatches - 1) BY MetalAssumption, SMTT(60)
  <2>. QED BY <2>2, <2>3, <2>4 DEF Records
<1>3. CASE UNCHANGED vars
  BY <1>3 DEF vars, ctx, history, Records, Buffers
<1>. QED BY <1>1, <1>2, <1>3, LaunchRecords, ProceedRecords DEF Next

\* Every step keeps pending short in batched mode.
LEMMA BackpressureNext ==
  ASSUME Inv, Backpressure, [Next]_vars PROVE Backpressure'
<1>0. pc \in [Threads -> {"idle", "reap", "queued", "sync", "drain", "blit"}]
  BY DEF Inv, Locals
<1>1. mode' = mode
  BY DEF Next, DeviceStep, Launch, LaunchBatched, LaunchUnresolved, LaunchUnbatched,
     Proceed, Reap, KeepPending, WaitForLaunch, DrainWait, DrainReturn, BlitCommit, BlitWait,
     StartDrain, StartDestroy, DrainSwap, vars
<1>2. SUFFICES ASSUME mode = "batched"
               PROVE  /\ Len(pending') <= kMaxPendingBuffers
                      /\ \A t \in Threads : pc'[t] # "queued"
  BY <1>1 DEF Backpressure
<1>3. Len(pending) <= kMaxPendingBuffers /\ \A t \in Threads : pc[t] # "queued"
  BY <1>2 DEF Backpressure
<1>4. CASE DeviceStep \/ UNCHANGED vars
  BY <1>3, <1>4 DEF DeviceStep, vars, ctx, thread
<1>5. ASSUME NEW t \in Threads, Launch(t)
      PROVE  Len(pending') <= kMaxPendingBuffers /\ \A u \in Threads : pc'[u] # "queued"
  <2>1. CASE LaunchBatched(t)
    <3>1. Len(pending') <= kMaxPendingBuffers BY <1>3, <2>1, BatchedQueue DEF Inv
    <3>2. \E p \in {"reap", "idle"} : pc' = [pc EXCEPT ![t] = p]
      BY <2>1 DEF LaunchBatched
    <3>. QED BY <1>0, <1>3, <3>1, <3>2
  <2>2. CASE LaunchUnresolved(t) BY <1>3, <2>2 DEF LaunchUnresolved, thread
  <2>3. ~LaunchUnbatched(t) BY <1>2 DEF LaunchUnbatched
  <2>. QED BY <1>5, <2>1, <2>2, <2>3 DEF Launch
<1>6. ASSUME NEW t \in Threads, Proceed(t)
      PROVE  Len(pending') <= kMaxPendingBuffers /\ \A u \in Threads : pc'[u] # "queued"
  <2>1. ~KeepPending(t) BY <1>3 DEF KeepPending
  <2>2. pending' = pending
    BY <1>6, <2>1 DEF Proceed, Reap, WaitForLaunch, DrainWait, DrainReturn, BlitCommit,
       BlitWait, ctx
  <2>3. pc' = pc \/ \E p \in {"blit", "idle"} : pc' = [pc EXCEPT ![t] = p]
    BY <1>6, <2>1 DEF Proceed, Reap, WaitForLaunch, DrainWait, DrainReturn, BlitCommit,
       BlitWait
  <2>. QED BY <1>0, <1>3, <2>2, <2>3
<1>7. ASSUME NEW t \in Threads, StartDrain(t) \/ StartDestroy(t)
      PROVE  Len(pending') <= kMaxPendingBuffers /\ \A u \in Threads : pc'[u] # "queued"
  <2>1. pending' = <<>> /\ pc' = [pc EXCEPT ![t] = "drain"]
    BY <1>7 DEF StartDrain, StartDestroy, DrainSwap
  <2>2. Len(<<>>) = 0 /\ 0 <= kMaxPendingBuffers BY MetalAssumption, EmptyLength, SMTT(60)
  <2>. QED BY <1>0, <1>3, <2>1, <2>2
<1>. QED BY <1>4, <1>5, <1>6, <1>7 DEF Next

FS == INSTANCE FiniteSetTheorems

\* The library's finite sets are those of the model.
LEMMA SameFiniteSets ==
  \A S : /\ FS!IsFiniteSet(S) <=> IsFiniteSet(S)
         /\ FS!Cardinality(S) = Cardinality(S)
<1>1. \A S : FS!IsFiniteSet(S) <=> IsFiniteSet(S)
  BY SMTT(60) DEF FS!IsFiniteSet, IsFiniteSet
<1>2. \A S : FS!Cardinality(S) = Cardinality(S)
  BY SMTT(60) DEF FS!Cardinality, Cardinality
<1>. QED BY <1>1, <1>2

\* A sequence has at most as many elements as it is long, and every set of
\* them is finite.
LEMMA RangeSize ==
  ASSUME NEW S, NEW s \in Seq(S), NEW T, T \subseteq Range(s)
  PROVE  Cardinality(T) \in Nat /\ Cardinality(T) <= Len(s)
<1>1. /\ Len(s) \in Nat /\ DOMAIN s = 1..Len(s) BY SMTT(60)
<1>2. FS!IsFiniteSet(1..Len(s)) /\ FS!Cardinality(1..Len(s)) = Len(s)
  BY <1>1, FS!FS_Interval, SMTT(60)
<1>3. s \in [1..Len(s) -> Range(s)] /\ Range(s) = {s[i] : i \in 1..Len(s)}
  BY <1>1, SMTT(60) DEF Range
<1>4. \A y \in Range(s) : \E i \in 1..Len(s) : s[i] = y BY <1>3
<1>5. s \in FS!Surjection(1..Len(s), Range(s)) BY <1>3, <1>4 DEF FS!Surjection
<1>6. FS!IsFiniteSet(Range(s)) /\ FS!Cardinality(Range(s)) <= Len(s)
  <2>1. FS!Cardinality(Range(s)) <= FS!Cardinality(1..Len(s)) /\ FS!IsFiniteSet(Range(s))
    BY <1>2, <1>5, FS!FS_Surjection
  <2>. QED BY <1>2, <2>1
<1>7. FS!IsFiniteSet(T) /\ FS!Cardinality(T) <= FS!Cardinality(Range(s))
  BY <1>6, FS!FS_Subset
<1>8. FS!Cardinality(T) \in Nat /\ FS!Cardinality(Range(s)) \in Nat
  BY <1>6, <1>7, FS!FS_CardinalityType
<1>9. FS!Cardinality(T) \in Nat /\ FS!Cardinality(T) <= Len(s)
  BY <1>1, <1>6, <1>7, <1>8, SMTT(60)
<1>. QED BY <1>9, SameFiniteSets

\* "Never hold more than a few committed buffers in flight": a buffer that is
\* committed, unfinished and waited for by nobody is in pending.
LEMMA InFlightInPending ==
  ASSUME Inv, Backpressure PROVE InFlightBounded
<1>. SUFFICES ASSUME mode = "batched"
              PROVE  Cardinality({cb \in Buffers :
                       /\ status[cb] = "committed"
                       /\ \A t \in Threads : cb \notin Range(waiting[t])})
                     <= kMaxPendingBuffers
  BY DEF InFlightBounded
<1>. DEFINE T == {cb \in Buffers : /\ status[cb] = "committed"
                                   /\ \A t \in Threads : cb \notin Range(waiting[t])}
<1>1. pending \in Seq(Nat) /\ Len(pending) \in Nat /\ kMaxPendingBuffers \in Nat
  BY MetalAssumption, SMTT(60) DEF Inv, Data, Types
<1>2. Len(pending) <= kMaxPendingBuffers BY DEF Backpressure
<1>3. T \subseteq Range(pending)
  <2>. SUFFICES ASSUME NEW cb \in T PROVE cb \in Range(pending) OBVIOUS
  <2>1. cb \in Buffers /\ status[cb] = "committed" OBVIOUS
  <2>2. cb \in Held BY <2>1 DEF Inv, Data, OwnedUntilWaited, Finished
  <2>3. None \notin Buffers BY Numbers DEF Inv, Data
  <2>4. cb # openBatch BY <2>1, <2>3 DEF Inv, Data, Device
  <2>. QED BY <2>2, <2>4, HeldBy
<1>4. Cardinality(T) \in Nat /\ Cardinality(T) <= Len(pending)
  <2>. HIDE DEF T
  <2>. QED BY <1>1, <1>3, RangeSize
<1>. HIDE DEF T
<1>6. Cardinality(T) <= kMaxPendingBuffers BY <1>1, <1>2, <1>4, SMTT(60)
<1>. QED BY <1>6 DEF T

\* Every variable keeps its type, the open batch is never full, and in batched
\* mode no more than kMaxPendingBuffers are in flight, however many threads
\* launch and drain (launch, backpressure, drainPending).
THEOREM TypeCorrect == Spec => []TypeOK
<1>1. Init => Backpressure /\ Records
  <2>. SUFFICES ASSUME Init PROVE Backpressure /\ Records OBVIOUS
  <2>1. Len(<<>>) = 0 /\ 0 <= kMaxPendingBuffers BY MetalAssumption, EmptyLength, SMTT(60)
  <2>2. Backpressure BY <2>1 DEF Init, Backpressure
  <2>3. Records BY MetalAssumption, SMTT(60) DEF Init, Records
  <2>. QED BY <2>2, <2>3
<1>2. Inv /\ Backpressure /\ Records /\ [Next]_vars => Backpressure' /\ Records'
  BY BackpressureNext, RecordsNext
<1>3. Inv /\ Backpressure /\ Records => TypeOK
  <2>. SUFFICES ASSUME Inv, Backpressure, Records PROVE TypeOK OBVIOUS
  <2>1. ASSUME NEW s \in Seq(Nat), Range(s) \subseteq Buffers PROVE s \in Seq(Buffers)
    <3>1. Len(s) \in Nat /\ DOMAIN s = 1..Len(s) /\ s = [i \in 1..Len(s) |-> s[i]]
      BY SMTT(60)
    <3>2. \A i \in 1..Len(s) : s[i] \in Buffers BY <2>1, <3>1 DEF Range
    <3>. QED BY <3>1, <3>2, SMTT(60)
  <2>2. queue \in Seq(Buffers) /\ pending \in Seq(Buffers) BY <2>1 DEF Inv, Data, Types
  <2>3. waiting \in [Threads -> Seq(Buffers)]
    <3>1. waiting \in [Threads -> Seq(Nat)] BY DEF Inv, Data, Types
    <3>2. \A t \in Threads : waiting[t] \in Seq(Buffers) BY <2>1, <3>1 DEF Inv, Data, Types
    <3>. QED BY <3>1, <3>2
  <2>4. released \in [Buffers -> Nat] BY SMTT(60) DEF Inv, Data, Types, Buffers
  <2>5. status \in Seq({"encoding", "committed", "done", "failed"})
    BY DEF Inv, Data, Types, States
  <2>. QED BY <2>2, <2>3, <2>4, <2>5, InFlightInPending
       DEF TypeOK, Inv, Data, Types, Locals, Records
<1>. QED BY <1>1, <1>2, <1>3, MetalInvariant, PTL DEF Spec
=============================================================================
