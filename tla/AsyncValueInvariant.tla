------------------------ MODULE AsyncValueInvariant -------------------------
(***************************************************************************)
(* The inductive invariant of the futures, and that the steps of andThen   *)
(* and of the work queue preserve it.                                      *)
(***************************************************************************)
EXTENDS AsyncValue, TLAPS

\* The prover of every leaf that names no other.
USE ZenonT(120)

-----------------------------------------------------------------------------
(***************************************************************************)
(* The inductive invariant                                                 *)
(***************************************************************************)
ThenLabels ==
  {"none", "call", "load", "claimInline", "writeInline", "publishInline", "claimSlot",
   "setWaiter", "setInitialized", "install", "return", "done"}
Resolving == {"call", "waiting", "resolve"}
BeforeTake == Resolving \cup {"remove"}
BeforeReady == BeforeTake \cup {"take", "construct", "exchange"}
AfterReady == {"dropRef", "extra", "list", "rest", "done"}

Words == [head : Waiters \cup {Null}, state : 0..kError]
Nodes == [live : BOOLEAN, waiters : [1..NodeWaiters -> Waiters \cup {Null}],
          initialized : SUBSET (2..NodeWaiters), next : Waiters \cup {Null}]

Types ==
  /\ waitersAndState \in [Values -> Words]
  /\ DOMAIN payload = Values
  /\ node \in [Waiters -> Nodes]
  /\ pcThen \in [Waiters -> ThenLabels] /\ oldValue \in [Waiters -> Words]
  /\ pcSet \in [Values -> BeforeReady \cup AfterReady]
  /\ newValue \in [Values -> Values \cup {Null}]
  /\ newState \in [Values -> {kUnconstructed, kAvailable, kError}]
  /\ inlineWaiter \in [Values -> Waiters \cup {Null}]
  /\ list \in [Values -> [head : Waiters \cup {Null}, valid : 0..NodeWaiters]]
  /\ queued \subseteq Waiters /\ ran \in [Waiters -> {0, 1}]

(* The state of a value and what its completion has done. *)
WordAt(v) ==
  LET s == waitersAndState[v].state
      h == waitersAndState[v].head
  IN /\ isReady(s) <=> pcSet[v] \in AfterReady
     /\ isReady(s) => h = Null /\ s = newState[v]
     /\ s \in {kUnconstructed, kUnconstructedInitializingInlineWaiter} =>
          h = Null /\ pcSet[v] \in BeforeTake
     /\ s \in Valid(1)..NodeWaiters => h # Null
     /\ h # Null => node[h].live /\ Target[h] = v
WordInv == \A v \in Values : WordAt(v)

(* What a value's storage holds. *)
PayloadAt(v) ==
  LET s == waitersAndState[v].state IN
  /\ s = kUnconstructed => payload[v] = Nothing
  /\ s > kUnconstructedInitializingInlineWaiter /\ pcSet[v] \in BeforeTake \cup {"take"} =>
       \E w \in Waiters : Target[w] = v /\ payload[v] = Waiter(w)
  /\ pcSet[v] = "construct" => payload[v] = Nothing
  /\ pcSet[v] \in {"exchange"} \cup AfterReady =>
       payload[v] = IF v \in Indirects THEN Ref(newValue[v]) ELSE Result(newState[v])
PayloadInv == \A v \in Values : PayloadAt(v)

(* The completion of a value: an indirect one follows its target, and ends *)
(* with a reference to a concrete value.                                   *)
OutcomeInv ==
  /\ \A v \in Values : pcSet[v] \notin Resolving => newState[v] \in {kAvailable, kError}
  /\ \A v \in Concretes : pcSet[v] \notin {"waiting", "resolve"} /\ newValue[v] = Null
SetAt(v) ==
  /\ pcSet[v] = "waiting" <=> pcThen[v] # "none" /\ ran[v] = 0
  /\ pcSet[v] = "call" => pcThen[v] = "none"
  /\ pcSet[v] = "resolve" => ran[v] = 1
  /\ pcSet[v] \in Resolving => newValue[v] = Target[v]
  /\ pcSet[v] \notin Resolving =>
       /\ newValue[v] \in Concretes
       /\ waitersAndState[newValue[v]].state = newState[v]
       /\ waitersAndState[Target[v]].state = newState[v]
SetInv == OutcomeInv /\ \A v \in Indirects : SetAt(v)

(* What an andThen has read, and that it creates its node last. *)
ReadAt(w) ==
  /\ pcThen[w] = "claimInline" => oldValue[w].state = kUnconstructed
  /\ pcThen[w] = "claimSlot" => oldValue[w].state \in Valid(1)..NodeWaiters
  /\ pcThen[w] = "install" => oldValue[w].state = Valid(NodeWaiters)
  /\ pcThen[w] \notin {"return", "done"} => ~node[w].live
ReadInv == \A w \in Waiters : ReadAt(w)

(* An andThen that writes the inline waiter has the storage for itself. *)
Writing(w) == pcThen[w] \in {"writeInline", "publishInline"}
WriteAt(w) ==
  Writing(w) =>
    /\ WordOf(w).state = kUnconstructedInitializingInlineWaiter
    /\ payload[Target[w]] = IF pcThen[w] = "writeInline" THEN Nothing ELSE Waiter(w)
    /\ \A u \in Waiters \ {w} : Target[u] = Target[w] => ~Writing(u)
WriteInv == \A w \in Waiters : WriteAt(w)

(* Only waiters of values that are ready run. *)
ReadyInv == \A w \in Waiters : w \in queued \/ ran[w] = 1 => isReady(WordOf(w).state)

ListInv ==
  \A v \in Values :
    /\ inlineWaiter[v] # Null =>
         pcSet[v] \in {"construct", "exchange", "dropRef", "extra"}
    /\ pcSet[v] = "rest" => list[v].head # Null
    /\ list[v].head # Null =>
         /\ pcSet[v] \in {"dropRef", "extra", "list", "rest"}
         /\ node[list[v].head].live /\ Target[list[v].head] = v
         /\ list[v].valid >= 1

(* How many slots of a node are claimed. *)
Claimed ==
  [n \in Waiters |->
     IF waitersAndState[Target[n]].head = n THEN numValid(waitersAndState[Target[n]].state)
     ELSE IF list[Target[n]].head = n THEN list[Target[n]].valid
     ELSE NodeWaiters]

Claiming(w) == pcThen[w] \in {"setWaiter", "setInitialized"}

(* The nodes of a value form a list: one points to a live node of its      *)
(* value that is no head and that no other one points to.                  *)
NodeInv ==
  \A n \in Waiters : node[n].live /\ node[n].next # Null =>
    LET m == node[n].next IN
    /\ node[m].live /\ m # n /\ Target[m] = Target[n]
    /\ waitersAndState[Target[n]].head # m /\ list[Target[n]].head # m
    /\ \A u \in Waiters \ {n} : node[u].live => node[u].next # m

(* The first slot of a node is taken until its list is run; an initialized *)
(* slot holds a waiter; a slot nobody has claimed is empty.                *)
SlotsAt(n) ==
  node[n].live =>
    /\ node[n].waiters[1] = Null <=> list[Target[n]].head = n /\ pcSet[Target[n]] = "rest"
    /\ \A k \in node[n].initialized : node[n].waiters[k] # Null
    /\ \A k \in 1..NodeWaiters : k > Claimed[n] =>
         node[n].waiters[k] = Null /\ k \notin node[n].initialized
    /\ \A k \in 1..NodeWaiters : node[n].waiters[k] # Null =>
         Target[node[n].waiters[k]] = Target[n]

(* An andThen that has claimed a slot has it for itself. *)
ClaimAt(w) ==
  Claiming(w) =>
    LET n == oldValue[w].head
        k == numValid(oldValue[w].state)
    IN /\ n # Null /\ node[n].live /\ Target[n] = Target[w]
       /\ k \in 2..NodeWaiters /\ k <= Claimed[n]
       /\ k \notin node[n].initialized
       /\ node[n].waiters[k] = IF pcThen[w] = "setWaiter" THEN Null ELSE w
       /\ \A u \in Waiters \ {w} :
            Claiming(u) /\ oldValue[u].head = n => numValid(oldValue[u].state) # k

SlotInv == \A w \in Waiters : SlotsAt(w) /\ ClaimAt(w)

(* Where a waiter can be. *)
Calling == {w \in Waiters :
  pcThen[w] \in {"call", "load", "claimInline", "writeInline", "claimSlot", "setWaiter",
                 "install"}}
Inline == {w \in Waiters : payload[Target[w]] = Waiter(w)}
MovedOut == {w \in Waiters : inlineWaiter[Target[w]] = w}
InSlots == {w \in Waiters :
  \E n \in Waiters : node[n].live /\ \E k \in 1..NodeWaiters : node[n].waiters[k] = w}
HasRun == {w \in Waiters : ran[w] = 1}
Known == {w \in Waiters : pcThen[w] # "none"}

PlacedOnce ==
  /\ Known = Calling \cup queued \cup Inline \cup MovedOut \cup InSlots \cup HasRun
  /\ Calling \cap (queued \cup Inline \cup MovedOut \cup InSlots \cup HasRun) = {}
  /\ queued \cap (Inline \cup MovedOut \cup InSlots \cup HasRun) = {}
  /\ Inline \cap (MovedOut \cup InSlots \cup HasRun) = {}
  /\ MovedOut \cap (InSlots \cup HasRun) = {}
  /\ InSlots \cap HasRun = {}
AtTarget ==
  \A v \in Values : \A w \in Waiters :
    payload[v] = Waiter(w) \/ inlineWaiter[v] = w => Target[w] = v
SlotsDiffer ==
  \A n, m \in Waiters : \A k, l \in 1..NodeWaiters :
    /\ node[n].live /\ node[m].live
    /\ node[n].waiters[k] # Null /\ node[n].waiters[k] = node[m].waiters[l]
    => n = m /\ k = l
PlacesInv == PlacedOnce /\ AtTarget /\ SlotsDiffer

(* Every set of nodes can be entered: at a head or from another node. *)
ReachInv ==
  \A C \in SUBSET {n \in Waiters : node[n].live} : C # {} =>
    \E n \in C : \/ waitersAndState[Target[n]].head = n
                 \/ list[Target[n]].head = n
                 \/ \E m \in Waiters \ C : node[m].live /\ node[m].next = n

(* Who has a reference to a value: users that have not returned, indirect  *)
(* values that will be or are resolved to it, and its completion.          *)
Owners ==
  [v \in Values |->
     {w \in Users : Target[w] = v /\ pcThen[w] # "done"}
       \cup {u \in Indirects : newValue[u] = v /\ u \notin destroyed}
       \cup {x \in {Null} : pcSet[v] \in BeforeReady \cup {"dropRef"}}]

RefInv ==
  /\ refcount = [v \in Values |-> Cardinality(Owners[v])]
  /\ destroyed = {v \in Values : Owners[v] = {}}

AsyncInv ==
  /\ Types /\ WordInv /\ PayloadInv /\ SetInv
  /\ ReadInv /\ WriteInv /\ ReadyInv
  /\ ListInv /\ NodeInv /\ SlotInv
  /\ PlacesInv /\ ReachInv /\ RefInv

-----------------------------------------------------------------------------
(* The parts of the invariant, one at a time: a proof cites those it uses. *)

\* Every variable has its type.
LEMMA TypesHold == AsyncInv => Types
BY DEF AsyncInv

\* Every state word agrees with its completion.
LEMMA WordsHold == AsyncInv => WordInv
BY DEF AsyncInv

\* Every payload agrees with its state word.
LEMMA PayloadsHold == AsyncInv => PayloadInv
BY DEF AsyncInv

\* Every completion of an indirect value is consistent.
LEMMA SetsHold == AsyncInv => SetInv
BY DEF AsyncInv

\* What an andThen has read fits its step.
LEMMA ReadsHold == AsyncInv => ReadInv
BY DEF AsyncInv

\* One andThen writes the inline waiter.
LEMMA WritesHold == AsyncInv => WriteInv
BY DEF AsyncInv

\* Waiters run on ready values.
LEMMA ReadyHolds == AsyncInv => ReadyInv
BY DEF AsyncInv

\* Every list taken is consistent.
LEMMA ListsHold == AsyncInv => ListInv
BY DEF AsyncInv

\* The nodes of a value form a list.
LEMMA NodesHold == AsyncInv => NodeInv
BY DEF AsyncInv

\* Every slot is consistent.
LEMMA SlotsHold == AsyncInv => SlotInv
BY DEF AsyncInv

\* Every waiter is in one place.
LEMMA PlacesHold == AsyncInv => PlacesInv
BY DEF AsyncInv

\* Every live node is reached.
LEMMA ReachHolds == AsyncInv => ReachInv
BY DEF AsyncInv

\* Every reference is counted.
LEMMA RefsHold == AsyncInv => RefInv
BY DEF AsyncInv

-----------------------------------------------------------------------------
(* The forms of a payload are told apart, and carry what they were given. *)
LEMMA Payloads ==
  /\ \A w, u : Waiter(w) = Waiter(u) => w = u
  /\ \A w : Waiter(w) # Nothing /\ Waiter(w).of = w
  /\ \A w, v : Waiter(w) # Ref(v)
  /\ \A w, s : Waiter(w) # Result(s)
  /\ \A v : Ref(v).of = v /\ Ref(v).holds = "ref"
  /\ \A s : Result(s).holds # "ref"
<1>1. \A w : Waiter(w).of = w /\ Waiter(w).holds = "waiter"
  BY DEF Waiter
<1>2. Nothing.holds = "nothing"
  BY DEF Nothing
<1>3. \A v : Ref(v).of = v /\ Ref(v).holds = "ref"
  BY DEF Ref
<1>4. \A s : Result(s).holds \in {"diagnostic", "value"}
  BY DEF Result
<1> QED
  BY <1>1, <1>2, <1>3, <1>4, SMTT(60)

(* What the constants are. *)
LEMMA Constants ==
  /\ kUnconstructed = 0 /\ kUnconstructedInitializingInlineWaiter = 1
  /\ Valid(1) = 2 /\ Valid(NodeWaiters) = NodeWaiters + 1
  /\ kAvailable = NodeWaiters + 2 /\ kError = NodeWaiters + 3
  /\ NodeWaiters \in Nat /\ NodeWaiters >= 2
  /\ \A s : isReady(s) <=> s \in {NodeWaiters + 2, NodeWaiters + 3}
  /\ Users \subseteq Waiters /\ Indirects \subseteq Waiters /\ Indirects \subseteq Values
  /\ Concretes \subseteq Values /\ Values \subseteq Concretes \cup Indirects
  /\ Waiters \subseteq Users \cup Indirects
  /\ Concretes \cap Indirects = {} /\ Users \cap Indirects = {}
  /\ Target \in [Waiters -> Values] /\ Null \notin Values /\ Null \notin Waiters
BY AsyncValueAssumption, SMTT(60)
   DEF kUnconstructed, kUnconstructedInitializingInlineWaiter, Valid, kAvailable, kError,
       isReady, Values, Waiters

-----------------------------------------------------------------------------
(***************************************************************************)
(* What a step must leave alone for a part of the invariant to carry over. *)
(***************************************************************************)
ReadyKept ==
  \A v \in Values : isReady(waitersAndState[v].state) =>
    waitersAndState'[v].state = waitersAndState[v].state

LinksKept ==
  /\ \A v \in Values : /\ waitersAndState'[v].head = waitersAndState[v].head
                       /\ list'[v].head = list[v].head
  /\ \A n \in Waiters : node'[n].live = node[n].live /\ node'[n].next = node[n].next

OwnersKept ==
  /\ UNCHANGED <<refcount, destroyed, newValue>>
  /\ \A w \in Users : pcThen'[w] = "done" <=> pcThen[w] = "done"
  /\ \A v \in Values : pcSet'[v] = pcSet[v]
       \/ {pcSet[v], pcSet'[v]} \subseteq BeforeReady \cup {"dropRef"}
       \/ {pcSet[v], pcSet'[v]} \subseteq AfterReady \ {"dropRef"}

StageKept(v) ==
  \/ pcSet'[v] = pcSet[v]
  \/ {pcSet[v], pcSet'[v]} \subseteq BeforeTake
  \/ {pcSet[v], pcSet'[v]} \subseteq AfterReady

(* The list of nodes depends on nothing but its links. *)
LEMMA NodesQuiet ==
  ASSUME Types, NodeInv, ReachInv, LinksKept
  PROVE  NodeInv' /\ ReachInv'
<1> Target \in [Waiters -> Values]
  BY AsyncValueAssumption
<1>1. NodeInv'
  BY SMTT(60) DEF NodeInv, LinksKept, Types, Nodes
<1>2. {n \in Waiters : node[n].live}' = {n \in Waiters : node[n].live}
  BY DEF LinksKept
<1>3. ReachInv'
  <2> SUFFICES ASSUME NEW C \in SUBSET {n \in Waiters : node[n].live}, C # {}
               PROVE  \E n \in C : \/ waitersAndState'[Target[n]].head = n
                                   \/ list'[Target[n]].head = n
                                   \/ \E m \in Waiters \ C : node'[m].live /\ node'[m].next = n
    BY <1>2 DEF ReachInv
  <2> QED
    BY SMTT(60) DEF ReachInv, LinksKept
<1> QED
  BY <1>1, <1>3

(* What the next node of a node is. *)
LEMMA NextNode ==
  ASSUME NodeInv, NEW n \in Waiters, node[n].live, NEW m, node[n].next = m, m # Null
  PROVE  /\ node[m].live /\ m # n /\ Target[m] = Target[n]
         /\ waitersAndState[Target[n]].head # m /\ list[Target[n]].head # m
         /\ \A u \in Waiters \ {n} : node[u].live => node[u].next # m
BY SMTT(60) DEF NodeInv

(* The references to a value change only with the ones who have them. *)
LEMMA RefsQuiet ==
  ASSUME RefInv, OwnersKept
  PROVE  RefInv'
<1>1. Owners' = Owners
  <2>1. \A v \in Values : pcSet'[v] \in BeforeReady \cup {"dropRef"}
                          <=> pcSet[v] \in BeforeReady \cup {"dropRef"}
    BY DEF OwnersKept, BeforeReady, BeforeTake, Resolving, AfterReady
  <2> QED
    BY <2>1 DEF Owners, OwnersKept
<1> QED
  BY <1>1 DEF RefInv, OwnersKept

(* Completions are not disturbed by what happens to values that are not    *)
(* ready, nor by their own progress once they know the outcome.            *)
LEMMA SetsQuiet ==
  ASSUME Types, WordInv, SetInv, ReadyKept, UNCHANGED <<newValue, newState, ran>>,
         \A v \in Values : pcSet'[v] = pcSet[v] \/ {pcSet[v], pcSet'[v]} \cap Resolving = {},
         \A v \in Indirects : pcThen'[v] = "none" <=> pcThen[v] = "none"
  PROVE  SetInv'
<1> Target \in [Waiters -> Values] /\ Values = Concretes \cup Indirects
    /\ Waiters = Users \cup Indirects
  BY AsyncValueAssumption DEF Values, Waiters
<1>1. \A v \in Values : waitersAndState[v].state \in {kAvailable, kError} =>
        waitersAndState'[v].state = waitersAndState[v].state
  BY DEF ReadyKept, isReady
<1>2. \A v \in Values : /\ pcSet'[v] \in Resolving <=> pcSet[v] \in Resolving
                        /\ pcSet'[v] \in Resolving => pcSet'[v] = pcSet[v]
  OBVIOUS
<1>3. OutcomeInv'
  BY <1>2 DEF SetInv, OutcomeInv, Resolving
<1>4. ASSUME NEW v \in Indirects PROVE SetAt(v)'
  BY <1>1, <1>2, SMTT(60) DEF SetInv, SetAt, OutcomeInv, Resolving
<1> QED
  BY <1>3, <1>4 DEF SetInv

(* A value whose word stays, and whose completion is as far as it was,     *)
(* agrees with it.                                                         *)
LEMMA WordsQuiet ==
  ASSUME Types, WordInv, NEW S \in SUBSET Values,
         \A v \in S : /\ waitersAndState'[v].state = waitersAndState[v].state
                      /\ waitersAndState'[v].head = waitersAndState[v].head
                      /\ newState'[v] = newState[v] /\ StageKept(v),
         \A n \in Waiters : node[n].live => node'[n].live
  PROVE  \A v \in S : WordAt(v)'
<1> SUFFICES ASSUME NEW v \in S PROVE WordAt(v)'
  OBVIOUS
<1>1. WordAt(v) /\ waitersAndState[v].head \in Waiters \cup {Null}
  BY DEF WordInv, Types, Words
<1>2. /\ pcSet'[v] \in AfterReady <=> pcSet[v] \in AfterReady
      /\ pcSet[v] \in BeforeTake => pcSet'[v] \in BeforeTake
  BY DEF StageKept, AfterReady, BeforeTake, Resolving
<1> QED
  BY <1>1, <1>2 DEF WordAt

(* So does its storage. *)
LEMMA PayloadsQuiet ==
  ASSUME PayloadInv, NEW S \in SUBSET Values,
         \A v \in S : /\ waitersAndState'[v].state = waitersAndState[v].state
                      /\ payload'[v] = payload[v] /\ newValue'[v] = newValue[v]
                      /\ newState'[v] = newState[v] /\ StageKept(v)
  PROVE  \A v \in S : PayloadAt(v)'
<1> SUFFICES ASSUME NEW v \in S PROVE PayloadAt(v)'
  OBVIOUS
<1>1. PayloadAt(v)
  BY DEF PayloadInv
<1>2. /\ pcSet'[v] \in BeforeTake \cup {"take"} => pcSet[v] \in BeforeTake \cup {"take"}
      /\ pcSet'[v] = "construct" => pcSet[v] = "construct"
      /\ pcSet'[v] \in {"exchange"} \cup AfterReady => pcSet[v] \in {"exchange"} \cup AfterReady
  BY DEF StageKept, AfterReady, BeforeTake, Resolving
<1> QED
  BY <1>1, <1>2 DEF PayloadAt

(* The lists that completions have taken stay theirs. *)
LEMMA ListsQuiet ==
  ASSUME Types, ListInv, UNCHANGED <<list, inlineWaiter>>,
         \A v \in Values : pcSet'[v] = pcSet[v] \/ {pcSet[v], pcSet'[v]} \subseteq BeforeTake,
         \A n \in Waiters : node[n].live => node'[n].live
  PROVE  ListInv'
<1> SUFFICES ASSUME NEW v \in Values
             PROVE  /\ inlineWaiter[v] # Null =>
                         pcSet'[v] \in {"construct", "exchange", "dropRef", "extra"}
                    /\ pcSet'[v] = "rest" => list[v].head # Null
                    /\ list[v].head # Null =>
                         /\ pcSet'[v] \in {"dropRef", "extra", "list", "rest"}
                         /\ node'[list[v].head].live /\ Target[list[v].head] = v
                         /\ list[v].valid >= 1
  BY DEF ListInv
<1>1. list[v].head \in Waiters \cup {Null}
  BY DEF Types
<1>2. pcSet'[v] = pcSet[v] \/ {pcSet[v], pcSet'[v]} \subseteq BeforeTake
  OBVIOUS
<1> QED
  BY <1>1, <1>2 DEF ListInv, BeforeTake, Resolving

(* A node whose slots stay needs no more of them than it did. *)
LEMMA SlotsSame ==
  ASSUME NEW n \in Waiters, SlotsAt(n), node'[n] = node[n],
         list'[Target[n]].head = n /\ pcSet'[Target[n]] = "rest"
           <=> list[Target[n]].head = n /\ pcSet[Target[n]] = "rest",
         \A k \in 1..NodeWaiters : k > Claimed'[n] => k > Claimed[n]
  PROVE  SlotsAt(n)'
BY DEF SlotsAt

(* A waiter keeps the slot it has claimed if nobody else claims it. *)
LEMMA ClaimSame ==
  ASSUME NEW u \in Waiters, ClaimAt(u), NEW n \in Waiters, NEW k \in 2..NodeWaiters,
         Claiming(u), oldValue[u].head = n, numValid(oldValue[u].state) = k,
         pcThen'[u] = pcThen[u], oldValue'[u] = oldValue[u],
         node'[n].live = node[n].live, node'[n].initialized = node[n].initialized,
         node'[n].waiters[k] = node[n].waiters[k],
         k <= Claimed'[n],
         \A x \in Waiters \ {u} : Claiming(x)' /\ oldValue'[x].head = n =>
           \/ Claiming(x) /\ oldValue'[x] = oldValue[x]
           \/ numValid(oldValue'[x].state) # k
  PROVE  ClaimAt(u)'
<1>1. /\ oldValue'[u].head = n /\ numValid(oldValue'[u].state) = k
      /\ oldValue[u].head = n /\ numValid(oldValue[u].state) = k
  OBVIOUS
<1>2. /\ n # Null /\ node[n].live /\ Target[n] = Target[u]
      /\ k \notin node[n].initialized
  BY <1>1 DEF ClaimAt
<1> QED
  BY <1>1, <1>2 DEF ClaimAt, Claiming

(* The slots of the nodes, and who has claimed which. *)
LEMMA SlotsQuiet ==
  ASSUME SlotInv, UNCHANGED <<node, list>>, LinksKept,
         \A n \in Waiters : waitersAndState[Target[n]].head = n =>
           waitersAndState'[Target[n]].state = waitersAndState[Target[n]].state,
         \A w \in Waiters : Claiming(w) \/ Claiming(w)' =>
           pcThen'[w] = pcThen[w] /\ oldValue'[w] = oldValue[w],
         \A v \in Values : pcSet'[v] = "rest" <=> pcSet[v] = "rest"
  PROVE  SlotInv'
<1> Target \in [Waiters -> Values]
  BY AsyncValueAssumption
<1>1. Claimed' = Claimed
  BY DEF Claimed, LinksKept
<1>2. ASSUME NEW n \in Waiters PROVE SlotsAt(n)'
  BY <1>1, SMTT(60) DEF SlotInv, SlotsAt
<1>3. ASSUME NEW w \in Waiters PROVE ClaimAt(w)'
  BY <1>1, SMTT(60) DEF SlotInv, ClaimAt, Claiming
<1> QED
  BY <1>2, <1>3 DEF SlotInv

(* No waiter is in two slots while the nodes keep theirs. *)
LEMMA SlotsDifferQuiet ==
  ASSUME SlotsDiffer,
         \A n \in Waiters : node'[n].live => node[n].live /\ node'[n].waiters = node[n].waiters
  PROVE  SlotsDiffer'
BY SMTT(60) DEF SlotsDiffer

(* Every waiter stays where it is. *)
LEMMA PlacesQuiet ==
  ASSUME PlacesInv, UNCHANGED <<payload, inlineWaiter, queued, ran>>,
         \A n \in Waiters : node'[n].live = node[n].live /\ node'[n].waiters = node[n].waiters,
         Calling' = Calling, Known' = Known
  PROVE  PlacesInv'
<1>1. Inline' = Inline /\ MovedOut' = MovedOut /\ InSlots' = InSlots /\ HasRun' = HasRun
  BY DEF Inline, MovedOut, InSlots, HasRun
<1>2. PlacedOnce'
  BY <1>1 DEF PlacesInv, PlacedOnce
<1>3. AtTarget'
  BY DEF PlacesInv, AtTarget
<1>4. SlotsDiffer'
  BY SlotsDifferQuiet DEF PlacesInv
<1> QED
  BY <1>2, <1>3, <1>4 DEF PlacesInv

(* What was read stays read. *)
LEMMA ReadsQuiet ==
  ASSUME ReadInv,
         \A w \in Waiters :
           /\ node'[w].live => node[w].live
           /\ pcThen'[w] \in {"claimInline", "claimSlot", "install"} =>
                pcThen'[w] = pcThen[w] /\ oldValue'[w] = oldValue[w]
           /\ pcThen'[w] \in {"return", "done"} \/ pcThen[w] \notin {"return", "done"}
  PROVE  ReadInv'
BY DEF ReadInv, ReadAt

(* The storage is written by nobody else. *)
LEMMA WritesQuiet ==
  ASSUME WriteInv,
         \A w \in Waiters : Writing(w)' =>
           /\ pcThen'[w] = pcThen[w]
           /\ waitersAndState'[Target[w]].state = waitersAndState[Target[w]].state
           /\ payload'[Target[w]] = payload[Target[w]]
  PROVE  WriteInv'
BY DEF WriteInv, WriteAt, Writing, WordOf

(* A value that is ready stays ready. *)
LEMMA ReadyQuiet ==
  ASSUME ReadyInv, ReadyKept, UNCHANGED <<queued, ran>>
  PROVE  ReadyInv'
BY Constants DEF ReadyInv, ReadyKept, WordOf

-----------------------------------------------------------------------------
(***************************************************************************)
(* andThen                                                                 *)
(***************************************************************************)
(* A waiter that finds the value untouched reserves its storage. *)
LEMMA ClaimInlineInv ==
  ASSUME AsyncInv, NEW w \in Waiters, ClaimInline(w)
  PROVE  AsyncInv'
<1> USE Constants
<1> DEFINE v == Target[w]
<1>1. /\ v \in Values
      /\ waitersAndState[v].state = 0 /\ waitersAndState[v].head = Null
      /\ pcThen[w] = "claimInline"
      /\ pcSet[v] \in BeforeTake
  BY TypesHold, ReadsHold, WordsHold, SMTT(60)
     DEF Types, ReadInv, ReadAt, WordInv, WordAt, ClaimInline, WordOf
<1>2. /\ waitersAndState'[v].state = 1 /\ waitersAndState'[v].head = Null
      /\ \A x \in Values \ {v} : waitersAndState'[x] = waitersAndState[x]
      /\ pcThen'[w] = "writeInline"
      /\ \A u \in Waiters \ {w} : pcThen'[u] = pcThen[u]
      /\ UNCHANGED <<payload, refcount, destroyed, node, oldValue, pcSet, newValue, newState,
                     inlineWaiter, list, queued, ran>>
  BY <1>1, TypesHold DEF Types, ClaimInline, SetWord, GotoThen, life, sets, setLocals, work
<1>3. Types'
  <2>1. waitersAndState' \in [Values -> Words]
    BY TypesHold, SMTT(60) DEF Types, ClaimInline, SetWord, Words
  <2>2. pcThen' \in [Waiters -> ThenLabels]
    BY TypesHold DEF Types, ClaimInline, GotoThen, ThenLabels
  <2> QED
    BY <1>2, <2>1, <2>2, TypesHold DEF Types
<1>4. ReadyKept /\ LinksKept
  BY <1>1, <1>2, SMTT(60) DEF ReadyKept, LinksKept
<1>5. WordInv'
  BY <1>1, <1>2, WordsHold, SMTT(60) DEF WordInv, WordAt, AfterReady, BeforeTake, Resolving
<1>6. PayloadInv'
  BY <1>1, <1>2, PayloadsHold, SMTT(60) DEF PayloadInv, PayloadAt
<1>7. SetInv'
  BY <1>1, <1>2, <1>4, SetsQuiet, TypesHold, WordsHold, SetsHold
<1>8. ReadInv' /\ ReadyInv'
  BY <1>1, <1>2, <1>4, ReadsQuiet, ReadyQuiet, ReadsHold, ReadyHolds
<1>14. WriteInv'
  <2> SUFFICES ASSUME NEW u \in Waiters PROVE WriteAt(u)'
    BY DEF WriteInv
  <2>1. CASE u = w
    BY <1>1, <1>2, <2>1, PayloadsHold, WritesHold, SMTT(60)
       DEF PayloadInv, PayloadAt, WriteInv, WriteAt, Writing, WordOf
  <2>2. CASE u # w
    BY <1>1, <1>2, <2>2, WritesHold, SMTT(60) DEF WriteInv, WriteAt, Writing, WordOf
  <2> QED
    BY <2>1, <2>2
<1>9. ListInv'
  BY <1>2, ListsHold DEF ListInv
<1>10. NodeInv' /\ ReachInv'
  BY <1>4, NodesQuiet, TypesHold, NodesHold, ReachHolds
<1>11. SlotInv'
  BY <1>1, <1>2, <1>4, SlotsQuiet, SlotsHold, SMTT(60) DEF Claiming
<1>12. PlacesInv'
  BY <1>1, <1>2, PlacesQuiet, PlacesHold, SMTT(60) DEF Calling, Known
<1>13. RefInv'
  BY <1>1, <1>2, RefsQuiet, RefsHold DEF OwnersKept
<1> QED
  BY <1>3, <1>5, <1>6, <1>7, <1>8, <1>9, <1>10, <1>11, <1>12, <1>13, <1>14 DEF AsyncInv

(* The waiter goes from its call into the storage. *)
LEMMA WriteInlineInv ==
  ASSUME AsyncInv, NEW w \in Waiters, WriteInline(w)
  PROVE  AsyncInv'
<1> USE Constants
<1> DEFINE v == Target[w]
<1>1. /\ v \in Values /\ pcThen[w] = "writeInline"
      /\ waitersAndState[v].state = 1 /\ payload[v] = Nothing
      /\ pcSet[v] \in BeforeTake
  BY TypesHold, WritesHold, WordsHold
     DEF Types, WriteInv, WriteAt, Writing, WordInv, WordAt, WriteInline, WordOf
<1>2. /\ payload'[v] = Waiter(w) /\ DOMAIN payload' = DOMAIN payload
      /\ \A x \in Values \ {v} : payload'[x] = payload[x]
      /\ pcThen'[w] = "publishInline"
      /\ \A u \in Waiters \ {w} : pcThen'[u] = pcThen[u]
      /\ UNCHANGED <<waitersAndState, refcount, destroyed, node, oldValue, pcSet, newValue,
                     newState, inlineWaiter, list, queued, ran>>
  BY <1>1, TypesHold DEF Types, WriteInline, GotoThen, life, sets, setLocals, work
<1>3. Types'
  <2>1. pcThen' \in [Waiters -> ThenLabels]
    BY TypesHold DEF Types, WriteInline, GotoThen, ThenLabels
  <2> QED
    BY <1>2, <2>1, TypesHold DEF Types
<1>4. ReadyKept /\ LinksKept
  BY <1>2 DEF ReadyKept, LinksKept
<1>5. WordInv'
  BY <1>2, WordsHold DEF WordInv, WordAt
<1>6. PayloadInv'
  BY <1>1, <1>2, PayloadsHold, SMTT(60) DEF PayloadInv, PayloadAt, AfterReady, BeforeTake, Resolving
<1>7. SetInv'
  BY <1>1, <1>2, <1>4, SetsQuiet, TypesHold, WordsHold, SetsHold
<1>8. ReadInv' /\ ReadyInv'
  BY <1>1, <1>2, <1>4, ReadsQuiet, ReadyQuiet, ReadsHold, ReadyHolds
<1>9. WriteInv'
  <2> SUFFICES ASSUME NEW u \in Waiters PROVE WriteAt(u)'
    BY DEF WriteInv
  <2> QED
    BY <1>1, <1>2, WritesHold, SMTT(60) DEF WriteInv, WriteAt, Writing, WordOf
<1>10. ListInv'
  BY <1>2, ListsHold DEF ListInv
<1>11. NodeInv' /\ ReachInv'
  BY <1>4, NodesQuiet, TypesHold, NodesHold, ReachHolds
<1>12. SlotInv'
  BY <1>1, <1>2, <1>4, SlotsQuiet, SlotsHold DEF Claiming
<1>13. PlacesInv'
  <2>1. Calling' = Calling \ {w} /\ w \in Calling /\ Known' = Known
    BY <1>1, <1>2, SMTT(60) DEF Calling, Known
  <2>2. Inline' = Inline \cup {w}
    BY <1>1, <1>2, Payloads, SMTT(60) DEF Inline
  <2>7. UNCHANGED <<node, inlineWaiter, ran>>
    BY <1>2
  <2>3. MovedOut' = MovedOut /\ InSlots' = InSlots /\ HasRun' = HasRun
    BY <2>7 DEF MovedOut, InSlots, HasRun
  <2>4. AtTarget'
    BY <1>1, <1>2, Payloads, PlacesHold, SMTT(60) DEF PlacesInv, AtTarget
  <2>5. PlacedOnce'
    BY <1>2, <2>1, <2>2, <2>3, PlacesHold, SMTT(60) DEF PlacesInv, PlacedOnce
  <2>6. SlotsDiffer'
    BY <2>7, SlotsDifferQuiet, PlacesHold DEF PlacesInv
  <2> QED
    BY <2>4, <2>5, <2>6 DEF PlacesInv
<1>14. RefInv'
  BY <1>1, <1>2, RefsQuiet, RefsHold DEF OwnersKept
<1> QED
  BY <1>3, <1>5, <1>6, <1>7, <1>8, <1>9, <1>10, <1>11, <1>12, <1>13, <1>14 DEF AsyncInv

(* The storage is published as the inline waiter's. *)
LEMMA PublishInlineInv ==
  ASSUME AsyncInv, NEW w \in Waiters, PublishInline(w)
  PROVE  AsyncInv'
<1> USE Constants
<1> DEFINE v == Target[w]
<1>1. /\ v \in Values /\ pcThen[w] = "publishInline"
      /\ waitersAndState[v].state = 1 /\ payload[v] = Waiter(w)
      /\ waitersAndState[v].head = Null
      /\ pcSet[v] \in BeforeTake
  BY TypesHold, WritesHold, WordsHold
     DEF Types, WriteInv, WriteAt, Writing, WordInv, WordAt, PublishInline, WordOf
<1>2. /\ waitersAndState'[v].state = NodeWaiters + 1 /\ waitersAndState'[v].head = Null
      /\ \A x \in Values \ {v} : waitersAndState'[x] = waitersAndState[x]
      /\ pcThen'[w] = "return"
      /\ \A u \in Waiters \ {w} : pcThen'[u] = pcThen[u]
      /\ UNCHANGED <<payload, refcount, destroyed, node, oldValue, pcSet, newValue, newState,
                     inlineWaiter, list, queued, ran>>
  BY <1>1, TypesHold, SMTT(60) DEF Types, Words, PublishInline, GotoThen, life, sets, setLocals, work
<1>3. Types'
  <2>1. waitersAndState' \in [Values -> Words]
    <3>1. [waitersAndState[v] EXCEPT !.state = @ + NodeWaiters] \in Words
      BY <1>1, TypesHold, SMTT(60) DEF Types, Words
    <3> QED
      BY <1>1, <3>1, TypesHold DEF Types, PublishInline
  <2>2. pcThen' \in [Waiters -> ThenLabels]
    BY TypesHold DEF Types, PublishInline, GotoThen, ThenLabels
  <2> QED
    BY <1>2, <2>1, <2>2, TypesHold DEF Types
<1>4. ReadyKept /\ LinksKept
  BY <1>1, <1>2, SMTT(60) DEF ReadyKept, LinksKept
<1>5. WordInv'
  BY <1>1, <1>2, WordsHold, SMTT(60) DEF WordInv, WordAt, AfterReady, BeforeTake, Resolving
<1>6. PayloadInv'
  BY <1>1, <1>2, PayloadsHold, SMTT(60) DEF PayloadInv, PayloadAt, AfterReady, BeforeTake, Resolving
<1>7. SetInv'
  BY <1>1, <1>2, <1>4, SetsQuiet, TypesHold, WordsHold, SetsHold
<1>8. ReadInv' /\ ReadyInv'
  BY <1>1, <1>2, <1>4, ReadsQuiet, ReadyQuiet, ReadsHold, ReadyHolds
<1>9. WriteInv'
  <2>1. \A u \in Waiters \ {w} : Writing(u) => Target[u] # v
    BY <1>1, WritesHold DEF WriteInv, WriteAt, Writing
  <2> QED
    BY <1>1, <1>2, <2>1, WritesQuiet, WritesHold DEF Writing
<1>10. ListInv'
  BY <1>2, ListsHold DEF ListInv
<1>11. NodeInv' /\ ReachInv'
  BY <1>4, NodesQuiet, TypesHold, NodesHold, ReachHolds
<1>12. SlotInv'
  BY <1>1, <1>2, <1>4, SlotsQuiet, SlotsHold, SMTT(60) DEF Claiming
<1>13. PlacesInv'
  BY <1>1, <1>2, PlacesQuiet, PlacesHold, SMTT(60) DEF Calling, Known
<1>14. RefInv'
  BY <1>1, <1>2, RefsQuiet, RefsHold DEF OwnersKept
<1> QED
  BY <1>3, <1>5, <1>6, <1>7, <1>8, <1>9, <1>10, <1>11, <1>12, <1>13, <1>14 DEF AsyncInv

(* A resolve closure that runs finds the value it waited for ready. *)
LEMMA RunSets ==
  ASSUME Types, WordInv, SetInv, NEW w \in Waiters, Run(w), ran[w] = 0, pcThen[w] # "none",
         UNCHANGED <<waitersAndState, newValue, newState>>,
         \A u \in Indirects : pcThen'[u] = "none" <=> pcThen[u] = "none"
  PROVE  /\ SetInv'
         /\ ran' \in [Waiters -> {0, 1}] /\ ran'[w] = 1
         /\ \A u \in Waiters \ {w} : ran'[u] = ran[u]
         /\ pcSet' \in [Values -> BeforeReady \cup AfterReady]
         /\ \A v \in Values : pcSet'[v] = pcSet[v]
                              \/ (pcSet[v] = "waiting" /\ pcSet'[v] = "resolve")
<1> USE Constants
<1>1. /\ ran' \in [Waiters -> {0, 1}] /\ ran'[w] = 1
      /\ \A u \in Waiters \ {w} : ran'[u] = ran[u]
  BY SMTT(60) DEF Types, Run
<1>2. w \in Indirects => pcSet[w] = "waiting" /\ pcSet'[w] = "resolve"
  BY DEF SetInv, SetAt, Run, Types
<1>3. \A v \in Values \ {w} : pcSet'[v] = pcSet[v]
  BY DEF Run, Types
<1>4. pcSet' \in [Values -> BeforeReady \cup AfterReady]
  <2>1. "resolve" \in BeforeReady \cup AfterReady
    BY DEF BeforeReady, BeforeTake, Resolving
  <2> QED
    BY <2>1 DEF Run, Types
<1>5. w \notin Indirects => pcSet' = pcSet
  BY DEF Run
<1>6. OutcomeInv'
  BY <1>2, <1>3, <1>5 DEF SetInv, OutcomeInv, Resolving
<1>7. ASSUME NEW v \in Indirects PROVE SetAt(v)'
  BY <1>1, <1>2, <1>3, SMTT(60) DEF SetInv, SetAt, Resolving, Types
<1>8. SetInv'
  BY <1>6, <1>7 DEF SetInv
<1> QED
  BY <1>1, <1>2, <1>3, <1>4, <1>5, <1>8

(* A waiter runs in its call when the value is ready; otherwise the call   *)
(* goes on with the state it read.                                         *)
LEMMA DispatchInv ==
  ASSUME AsyncInv, NEW w \in Waiters, Dispatch(w),
         pcThen[w] \in {"call", "load", "claimInline", "claimSlot", "install"}
  PROVE  AsyncInv'
<1> USE Constants
<1> DEFINE v == Target[w]
<1>1. /\ v \in Values /\ waitersAndState[v].state \in 0..NodeWaiters + 3
      /\ w \in Calling /\ ran[w] = 0 /\ w \notin queued
      /\ pcThen[w] # "none" /\ ~Claiming(w) /\ ~Writing(w)
  <2>1. w \in Calling /\ pcThen[w] # "none" /\ ~Claiming(w) /\ ~Writing(w)
    BY DEF Calling, Claiming, Writing
  <2>2. w \notin HasRun /\ w \notin queued
    BY <2>1, PlacesHold DEF PlacesInv, PlacedOnce
  <2>3. v \in Values /\ waitersAndState[v].state \in 0..NodeWaiters + 3 /\ ran[w] \in {0, 1}
    BY TypesHold DEF Types, Words
  <2> QED
    BY <2>1, <2>2, <2>3 DEF HasRun
<1>2. /\ UNCHANGED <<waitersAndState, payload, refcount, destroyed, node, newValue, newState,
                     inlineWaiter, list, queued>>
      /\ oldValue' = [oldValue EXCEPT ![w] = waitersAndState[v]]
      /\ oldValue'[w] = waitersAndState[v]
      /\ \A u \in Waiters \ {w} : oldValue'[u] = oldValue[u]
  BY TypesHold DEF Types, Dispatch, word, life, setLocals, WordOf
<1>3. /\ \A u \in Waiters \ {w} : pcThen'[u] = pcThen[u]
      /\ pcThen'[w] = IF isReady(waitersAndState[v].state) THEN "return"
                      ELSE NextStep(waitersAndState[v].state)
      /\ pcThen' = [pcThen EXCEPT ![w] = pcThen'[w]]
  BY TypesHold, SMTT(60) DEF Types, Dispatch, GotoThen, WordOf
<1>4. ~isReady(waitersAndState[v].state) =>
        /\ pcThen'[w] \in {"claimInline", "load", "install", "claimSlot"}
        /\ pcThen'[w] = "claimInline" => waitersAndState[v].state = 0
        /\ pcThen'[w] = "install" => waitersAndState[v].state = NodeWaiters + 1
        /\ pcThen'[w] = "claimSlot" => waitersAndState[v].state \in 2..NodeWaiters
  BY <1>1, <1>3, SMTT(60) DEF NextStep
<1>5. pcThen'[w] \in {"claimInline", "load", "install", "claimSlot", "return"}
  BY <1>3, <1>4
<1>6. ReadyKept /\ LinksKept
  BY <1>2 DEF ReadyKept, LinksKept
<1>7. /\ SetInv'
      /\ ran' \in [Waiters -> {0, 1}]
      /\ \A u \in Waiters \ {w} : ran'[u] = ran[u]
      /\ ran'[w] = IF isReady(waitersAndState[v].state) THEN 1 ELSE 0
      /\ pcSet' \in [Values -> BeforeReady \cup AfterReady]
      /\ \A x \in Values : pcSet'[x] = pcSet[x]
                           \/ (pcSet[x] = "waiting" /\ pcSet'[x] = "resolve")
  <2>1. \A u \in Indirects : pcThen'[u] = "none" <=> pcThen[u] = "none"
    BY <1>1, <1>3, <1>5
  <2>2. CASE isReady(waitersAndState[v].state)
    <3>1. Run(w)
      BY <2>2 DEF Dispatch, WordOf
    <3> QED
      BY <1>1, <1>2, <2>1, <2>2, <3>1, RunSets, TypesHold, WordsHold, SetsHold
  <2>3. CASE ~isReady(waitersAndState[v].state)
    <3>1. UNCHANGED <<ran, pcSet>>
      BY <2>3 DEF Dispatch, WordOf
    <3>2. SetInv'
      BY <1>2, <1>6, <2>1, <3>1, SetsQuiet, TypesHold, WordsHold, SetsHold
    <3> QED
      BY <1>1, <2>3, <3>1, <3>2, TypesHold DEF Types
  <2> QED
    BY <2>2, <2>3
<1>8. Types'
  <2>1. pcThen' \in [Waiters -> ThenLabels]
    BY <1>3, <1>5, TypesHold, SMTT(60) DEF Types, ThenLabels
  <2>2. oldValue' \in [Waiters -> Words]
    BY <1>1, <1>2, TypesHold DEF Types
  <2> QED
    BY <1>2, <1>7, <2>1, <2>2, TypesHold DEF Types
<1>9. WordInv' /\ PayloadInv'
  <2>1. \A x \in Values : StageKept(x)
    BY <1>7 DEF StageKept, BeforeTake, Resolving
  <2>2. \A x \in Values : WordAt(x)'
    BY <1>2, <2>1, WordsQuiet, TypesHold, WordsHold
  <2>3. \A x \in Values : PayloadAt(x)'
    BY <1>2, <2>1, PayloadsQuiet, PayloadsHold
  <2> QED
    BY <2>2, <2>3 DEF WordInv, PayloadInv
<1>10. ReadInv'
  BY <1>1, <1>2, <1>3, <1>4, <1>5, ReadsHold, SMTT(60) DEF ReadInv, ReadAt
<1>11. WriteInv'
  BY <1>2, <1>3, <1>5, WritesQuiet, WritesHold DEF Writing
<1>12. ReadyInv'
  BY <1>2, <1>7, ReadyHolds, SMTT(60) DEF ReadyInv, WordOf
<1>13. ListInv'
  <2>1. \A x \in Values : pcSet'[x] = pcSet[x] \/ {pcSet[x], pcSet'[x]} \subseteq BeforeTake
    BY <1>7 DEF BeforeTake, Resolving
  <2> QED
    BY <1>2, <2>1, ListsQuiet, TypesHold, ListsHold
<1>14. NodeInv' /\ ReachInv'
  BY <1>6, NodesQuiet, TypesHold, NodesHold, ReachHolds
<1>15. SlotInv'
  BY <1>1, <1>2, <1>3, <1>5, <1>6, <1>7, SlotsQuiet, SlotsHold DEF Claiming
<1>16. PlacesInv'
  <2>1. /\ Calling' = IF isReady(waitersAndState[v].state) THEN Calling \ {w} ELSE Calling
        /\ Known' = Known
    BY <1>1, <1>3, <1>4, <1>5, SMTT(60) DEF Calling, Known
  <2>2. HasRun' = IF isReady(waitersAndState[v].state) THEN HasRun \cup {w} ELSE HasRun
    BY <1>1, <1>7, SMTT(60) DEF HasRun
  <2>3. Inline' = Inline /\ MovedOut' = MovedOut /\ InSlots' = InSlots
    <3>1. UNCHANGED <<payload, inlineWaiter, node>>
      BY <1>2
    <3> QED
      BY <3>1 DEF Inline, MovedOut, InSlots
  <2>4. PlacedOnce'
    BY <1>1, <1>2, <2>1, <2>2, <2>3, PlacesHold, SMTT(60) DEF PlacesInv, PlacedOnce
  <2>6. UNCHANGED <<payload, node, inlineWaiter>>
    BY <1>2
  <2>5. AtTarget' /\ SlotsDiffer'
    BY <2>6, SlotsDifferQuiet, PlacesHold DEF PlacesInv, AtTarget
  <2> QED
    BY <2>4, <2>5 DEF PlacesInv
<1>17. RefInv'
  <2>1. \A x \in Values : pcSet'[x] = pcSet[x]
          \/ {pcSet[x], pcSet'[x]} \subseteq BeforeReady \cup {"dropRef"}
    BY <1>7 DEF BeforeReady, BeforeTake, Resolving
  <2>2. OwnersKept
    BY <1>1, <1>2, <1>3, <1>5, <2>1 DEF OwnersKept
  <2> QED
    BY <2>2, RefsQuiet, RefsHold
<1> QED
  BY <1>7, <1>8, <1>9, <1>10, <1>11, <1>12, <1>13, <1>14, <1>15, <1>16, <1>17 DEF AsyncInv

(* The number of claimed slots is a number. *)
LEMMA ClaimedType ==
  ASSUME Types
  PROVE  Claimed \in [Waiters -> Int]
<1> SUFFICES ASSUME NEW n \in Waiters PROVE Claimed[n] \in Int
  BY DEF Claimed
<1>1. /\ waitersAndState[Target[n]].state \in Int /\ list[Target[n]].valid \in Int
      /\ NodeWaiters \in Int
  BY Constants, SMTT(60) DEF Types, Words
<1>2. numValid(waitersAndState[Target[n]].state) \in Int
  BY <1>1, SMTT(60) DEF numValid
<1> QED
  BY <1>1, <1>2 DEF Claimed

WithSlot(r, k, w) == [r EXCEPT !.waiters[k] = w]

(* A slot of a node is set and the rest of it stays. *)
LEMMA SlotSet ==
  ASSUME NEW r \in Nodes, NEW k \in 1..NodeWaiters, NEW w \in Waiters \cup {Null}
  PROVE  LET q == WithSlot(r, k, w) IN
         /\ q \in Nodes /\ q.live = r.live /\ q.initialized = r.initialized
         /\ q.next = r.next /\ q.waiters[k] = w
         /\ \A l \in (1..NodeWaiters) \ {k} : q.waiters[l] = r.waiters[l]
<1>1. PICK f : f = [r.waiters EXCEPT ![k] = w]
  OBVIOUS
<1>2. /\ f \in [1..NodeWaiters -> Waiters \cup {Null}] /\ f[k] = w
      /\ \A l \in (1..NodeWaiters) \ {k} : f[l] = r.waiters[l]
  BY <1>1 DEF Nodes
<1>3. WithSlot(r, k, w) = [r EXCEPT !.waiters = f]
  BY <1>1 DEF WithSlot
<1> QED
  BY <1>2, <1>3 DEF Nodes

SlotBecomes(h, k, w) == node' = [node EXCEPT ![h].waiters[k] = w]

(* When a slot of one node is set, the other nodes stay as they are too. *)
LEMMA SlotWritten ==
  ASSUME node \in [Waiters -> Nodes],
         NEW h \in Waiters, NEW k \in 1..NodeWaiters, NEW w \in Waiters \cup {Null},
         SlotBecomes(h, k, w)
  PROVE  /\ node' \in [Waiters -> Nodes]
         /\ \A n \in Waiters \ {h} : node'[n] = node[n]
         /\ node'[h].live = node[h].live /\ node'[h].initialized = node[h].initialized
         /\ node'[h].next = node[h].next /\ node'[h].waiters[k] = w
         /\ \A l \in (1..NodeWaiters) \ {k} : node'[h].waiters[l] = node[h].waiters[l]
<1>1. node' = [node EXCEPT ![h] = WithSlot(node[h], k, w)]
  BY DEF WithSlot, SlotBecomes
<1>2. node'[h] = WithSlot(node[h], k, w) /\ node[h] \in Nodes
  BY <1>1
<1>3. /\ node'[h] \in Nodes
      /\ node'[h].live = node[h].live /\ node'[h].initialized = node[h].initialized
      /\ node'[h].next = node[h].next /\ node'[h].waiters[k] = w
      /\ \A l \in (1..NodeWaiters) \ {k} : node'[h].waiters[l] = node[h].waiters[l]
  BY <1>2, SlotSet, SMTT(60)
<1>4. node' = [node EXCEPT ![h] = node'[h]]
  BY <1>1, <1>2
<1> QED
  BY <1>3, <1>4

(* A waiter claims the next slot of the node at the head of the list. *)
LEMMA ClaimSlotInv ==
  ASSUME AsyncInv, NEW w \in Waiters, ClaimSlot(w)
  PROVE  AsyncInv'
<1> USE Constants
<1> DEFINE v == Target[w]
           h == waitersAndState[v].head
           s == waitersAndState[v].state
<1>1. /\ v \in Values /\ pcThen[w] = "claimSlot"
      /\ s \in 2..NodeWaiters /\ s = oldValue[w].state
      /\ h \in Waiters /\ node[h].live /\ Target[h] = v
  <2>1. /\ v \in Values /\ pcThen[w] = "claimSlot"
        /\ s \in 2..NodeWaiters /\ s = oldValue[w].state
    BY ReadsHold DEF ReadInv, ReadAt, ClaimSlot, WordOf
  <2> QED
    BY <2>1, TypesHold, WordsHold, SMTT(60) DEF Types, Words, WordInv, WordAt
<1>2. /\ waitersAndState'[v].state = s + 1 /\ waitersAndState'[v].head = h
      /\ \A x \in Values \ {v} : waitersAndState'[x] = waitersAndState[x]
      /\ oldValue'[w].state = s + 1 /\ oldValue'[w].head = h
      /\ \A u \in Waiters \ {w} : oldValue'[u] = oldValue[u]
      /\ pcThen'[w] = "setWaiter"
      /\ \A u \in Waiters \ {w} : pcThen'[u] = pcThen[u]
      /\ UNCHANGED <<payload, refcount, destroyed, node, pcSet, newValue, newState,
                     inlineWaiter, list, queued, ran>>
  BY <1>1, TypesHold
     DEF Types, ClaimSlot, SetWord, GotoThen, WordOf, life, sets, setLocals, work
<1>3. Types'
  <2>1. [head |-> h, state |-> s + 1] \in Words
    BY <1>1, SMTT(60) DEF Words
  <2>2. waitersAndState' \in [Values -> Words]
    BY <1>1, <2>1, TypesHold DEF Types, ClaimSlot, SetWord, WordOf
  <2>3. oldValue' \in [Waiters -> Words]
    BY <1>1, <2>1, TypesHold DEF Types, ClaimSlot, WordOf
  <2>4. pcThen' \in [Waiters -> ThenLabels]
    BY TypesHold DEF Types, ClaimSlot, GotoThen, ThenLabels
  <2> QED
    BY <1>2, <2>2, <2>3, <2>4, TypesHold DEF Types
<1>15. /\ ~isReady(s) /\ ~isReady(s + 1)
       /\ s > kUnconstructedInitializingInlineWaiter
       /\ s + 1 \notin {kUnconstructed, kUnconstructedInitializingInlineWaiter}
  BY <1>1, SMTT(60)
<1>4. ReadyKept /\ LinksKept
  BY <1>1, <1>2, <1>15 DEF ReadyKept, LinksKept
<1>16. pcSet'[v] = pcSet[v] /\ newState'[v] = newState[v] /\ newValue'[v] = newValue[v]
       /\ payload'[v] = payload[v] /\ node'[h].live /\ h # Null
  BY <1>1, <1>2
<1>5. WordInv'
  <2>1. \A x \in Values \ {v} : WordAt(x)'
    BY <1>2, WordsQuiet, TypesHold, WordsHold DEF StageKept
  <2>2. WordAt(v)
    BY <1>1, WordsHold DEF WordInv
  <2>3. WordAt(v)'
    <3> HIDE DEF s, h
    <3> QED
      BY <1>1, <1>2, <1>15, <1>16, <2>2 DEF WordAt, s, h
  <2> QED
    BY <2>1, <2>3 DEF WordInv
<1>6. PayloadInv'
  <2>1. \A x \in Values \ {v} : PayloadAt(x)'
    BY <1>2, PayloadsQuiet, PayloadsHold DEF StageKept
  <2>2. PayloadAt(v)
    BY <1>1, PayloadsHold DEF PayloadInv
  <2>3. PayloadAt(v)'
    BY <1>2, <1>15, <1>16, <2>2 DEF PayloadAt
  <2> QED
    BY <2>1, <2>3 DEF PayloadInv
<1>7. SetInv'
  BY <1>1, <1>2, <1>4, SetsQuiet, TypesHold, WordsHold, SetsHold
<1>8. ReadInv' /\ ReadyInv'
  BY <1>1, <1>2, <1>4, ReadsQuiet, ReadyQuiet, ReadsHold, ReadyHolds
<1>9. WriteInv'
  <2>1. \A u \in Waiters : Writing(u) => Target[u] # v
    BY <1>1, WritesHold, SMTT(60) DEF WriteInv, WriteAt, WordOf
  <2> QED
    BY <1>1, <1>2, <2>1, WritesQuiet, WritesHold DEF Writing
<1>10. ListInv'
  BY <1>2, ListsHold DEF ListInv
<1>11. NodeInv' /\ ReachInv'
  BY <1>4, NodesQuiet, TypesHold, NodesHold, ReachHolds
<1>12. SlotInv'
  <2>1. Claimed[h] = s - 1 /\ Claimed'[h] = s
    <3>1. /\ Claimed[h] = numValid(waitersAndState[v].state)
          /\ Claimed'[h] = numValid(waitersAndState'[v].state)
      BY <1>1, <1>2 DEF Claimed
    <3> QED
      BY <1>1, <1>2, <3>1, SMTT(60) DEF numValid
  <2>7. Claimed \in [Waiters -> Int] /\ s \in Int
    BY <1>1, ClaimedType, TypesHold, SMTT(60)
  <2>2. \A n \in Waiters \ {h} : Claimed'[n] = Claimed[n]
    BY <1>1, <1>2 DEF Claimed
  <2>6. \A n \in Waiters : \A k \in 1..NodeWaiters :
          /\ k > Claimed'[n] => k > Claimed[n]
          /\ k <= Claimed[n] => k <= Claimed'[n]
    <3> HIDE Constants
    <3> QED
      BY <2>1, <2>2, <2>7, SMTT(60)
  <2>3. ASSUME NEW n \in Waiters PROVE SlotsAt(n)'
    BY <1>2, <2>6, SlotsSame, SlotsHold DEF SlotInv
  <2>4. ASSUME NEW u \in Waiters \ {w} PROVE ClaimAt(u)'
    <3>1. numValid(oldValue'[w].state) = s
      BY <1>1, <1>2, SMTT(60) DEF numValid
    <3>2. CASE Claiming(u)
      <4>1. PICK n \in Waiters, k \in 2..NodeWaiters :
              /\ oldValue[u].head = n /\ numValid(oldValue[u].state) = k /\ k <= Claimed[n]
        <5>1. /\ oldValue[u].head # Null /\ numValid(oldValue[u].state) \in 2..NodeWaiters
              /\ numValid(oldValue[u].state) <= Claimed[oldValue[u].head]
          BY <3>2, SlotsHold DEF SlotInv, ClaimAt
        <5>2. oldValue[u].head \in Waiters
          BY <5>1, TypesHold DEF Types, Words
        <5> QED
          BY <5>1, <5>2
      <4>2. k <= Claimed'[n] /\ (n = h => k # s)
        <5>1. k \in 1..NodeWaiters
          BY <4>1, SMTT(60)
        <5>2. n = h => k # s
          <6> HIDE Constants
          <6> QED
            BY <2>1, <2>7, <4>1, <5>1, SMTT(60)
        <5> QED
          BY <2>6, <4>1, <5>1, <5>2
      <4>3. \A x \in Waiters \ {u} : Claiming(x)' /\ oldValue'[x].head = n =>
              \/ Claiming(x) /\ oldValue'[x] = oldValue[x]
              \/ numValid(oldValue'[x].state) # k
        BY <1>2, <3>1, <4>2 DEF Claiming
      <4>4. ClaimAt(u) /\ pcThen'[u] = pcThen[u] /\ oldValue'[u] = oldValue[u] /\ node' = node
        BY <1>2, SlotsHold DEF SlotInv
      <4> QED
        BY <3>2, <4>1, <4>2, <4>3, <4>4, ClaimSame
    <3> QED
      BY <1>2, <3>2 DEF ClaimAt, Claiming
  <2>5. ClaimAt(w)'
    <3>1. /\ numValid(oldValue'[w].state) = s /\ s \in 1..NodeWaiters /\ s > Claimed[h]
      BY <1>1, <1>2, <2>1, SMTT(60) DEF numValid
    <3>2. node[h].waiters[s] = Null /\ s \notin node[h].initialized
      BY <1>1, <3>1, SlotsHold DEF SlotInv, SlotsAt
    <3>3. \A u \in Waiters \ {w} :
            Claiming(u) /\ oldValue[u].head = h => numValid(oldValue[u].state) # s
      <4> SUFFICES ASSUME NEW u \in Waiters \ {w}, Claiming(u), oldValue[u].head = h
                   PROVE  numValid(oldValue[u].state) # s
        OBVIOUS
      <4>1. numValid(oldValue[u].state) \in 2..NodeWaiters /\ numValid(oldValue[u].state) <= Claimed[h]
        BY SlotsHold DEF SlotInv, ClaimAt
      <4> HIDE Constants
      <4> QED
        BY <2>1, <2>7, <4>1, SMTT(60)
    <3>4. /\ Target[h] = Target[w] /\ s \in 2..NodeWaiters /\ s <= Claimed'[h]
          /\ pcThen'[w] = "setWaiter" /\ oldValue'[w].head = h /\ node' = node
      BY <1>1, <1>2, <2>1, SMTT(60)
    <3>5. \A u \in Waiters \ {w} : /\ Claiming(u)' <=> Claiming(u)
                                   /\ oldValue'[u] = oldValue[u]
      BY <1>2 DEF Claiming
    <3> QED
      BY <1>1, <1>16, <3>1, <3>2, <3>3, <3>4, <3>5 DEF ClaimAt
  <2> QED
    BY <2>3, <2>4, <2>5 DEF SlotInv
<1>13. PlacesInv'
  BY <1>1, <1>2, PlacesQuiet, PlacesHold, SMTT(60) DEF Calling, Known
<1>14. RefInv'
  BY <1>1, <1>2, RefsQuiet, RefsHold DEF OwnersKept
<1> QED
  BY <1>3, <1>5, <1>6, <1>7, <1>8, <1>9, <1>10, <1>11, <1>12, <1>13, <1>14 DEF AsyncInv

(* The waiter goes from its call into the slot it has claimed. *)
LEMMA SetWaiterInv ==
  ASSUME AsyncInv, NEW w \in Waiters, SetWaiter(w)
  PROVE  AsyncInv'
<1> USE Constants
<1>1. PICK h \in Waiters, k \in 2..NodeWaiters :
        /\ h = oldValue[w].head /\ k = numValid(oldValue[w].state)
        /\ node[h].live /\ Target[h] = Target[w]
        /\ k <= Claimed[h] /\ k \notin node[h].initialized /\ node[h].waiters[k] = Null
        /\ \A u \in Waiters \ {w} :
             Claiming(u) /\ oldValue[u].head = h => numValid(oldValue[u].state) # k
  BY TypesHold, SlotsHold, SMTT(60) DEF Types, Words, SlotInv, ClaimAt, Claiming, SetWaiter
<1>2. /\ pcThen[w] = "setWaiter" /\ pcThen'[w] = "setInitialized"
      /\ \A u \in Waiters \ {w} : pcThen'[u] = pcThen[u]
      /\ UNCHANGED <<waitersAndState, payload, refcount, destroyed, oldValue, pcSet, newValue,
                     newState, inlineWaiter, list, queued, ran>>
  BY TypesHold DEF Types, SetWaiter, GotoThen, word, life, sets, setLocals, work
<1>3. /\ node' \in [Waiters -> Nodes] /\ \A n \in Waiters \ {h} : node'[n] = node[n]
      /\ node'[h].live = node[h].live /\ node'[h].initialized = node[h].initialized
      /\ node'[h].next = node[h].next /\ node'[h].waiters[k] = w
      /\ \A l \in (1..NodeWaiters) \ {k} : node'[h].waiters[l] = node[h].waiters[l]
  <2>1. SlotBecomes(h, k, w)
    BY <1>1 DEF SetWaiter, SlotBecomes
  <2>2. /\ node \in [Waiters -> Nodes] /\ k \in 1..NodeWaiters /\ w \in Waiters \cup {Null}
    BY TypesHold, SMTT(60) DEF Types
  <2> HIDE Constants
  <2> QED
    BY <2>1, <2>2, SlotWritten
<1>4. /\ node[h].live /\ node[h].waiters[k] = Null /\ k \in 1..NodeWaiters
      /\ Target[h] = Target[w]
  BY <1>1, SMTT(60)
<1>14. Types'
  <2>2. pcThen' \in [Waiters -> ThenLabels]
    BY TypesHold DEF Types, SetWaiter, GotoThen, ThenLabels
  <2> QED
    BY <1>2, <1>3, <2>2, TypesHold DEF Types
<1>5. ReadyKept /\ LinksKept
  BY <1>2, <1>3 DEF ReadyKept, LinksKept
<1>6. WordInv' /\ PayloadInv'
  <2>1. \A x \in Values : StageKept(x)
    BY <1>2 DEF StageKept
  <2>2. \A x \in Values : WordAt(x)'
    BY <1>2, <1>5, <2>1, WordsQuiet, TypesHold, WordsHold DEF LinksKept
  <2>3. \A x \in Values : PayloadAt(x)'
    BY <1>2, <2>1, PayloadsQuiet, PayloadsHold
  <2> QED
    BY <2>2, <2>3 DEF WordInv, PayloadInv
<1>7. SetInv'
  BY <1>1, <1>2, <1>5, SetsQuiet, TypesHold, WordsHold, SetsHold
<1>8. ReadInv' /\ ReadyInv' /\ WriteInv'
  BY <1>1, <1>2, <1>5, ReadsQuiet, ReadyQuiet, WritesQuiet, ReadsHold, ReadyHolds, WritesHold DEF Writing, LinksKept
<1>9. ListInv'
  BY <1>2, <1>5, ListsQuiet, ListsHold, TypesHold DEF LinksKept
<1>10. NodeInv' /\ ReachInv'
  BY <1>5, NodesQuiet, TypesHold, NodesHold, ReachHolds
<1>11. SlotInv'
  <2>1. Claimed' = Claimed
    BY <1>2 DEF Claimed
  <2>2. ASSUME NEW n \in Waiters \ {h} PROVE SlotsAt(n)'
    BY <1>2, <1>3, <2>1, SlotsSame, SlotsHold DEF SlotInv
  <2>3. SlotsAt(h)'
    <3>1. SlotsAt(h) /\ k <= Claimed[h]
      BY <1>1, SlotsHold DEF SlotInv
    <3>2. 1 \in 1..NodeWaiters /\ 1 # k
      BY SMTT(60)
    <3>4. ~(k > Claimed[h])
      BY <3>1, ClaimedType, TypesHold, SMTT(60)
    <3>5. w # Null
      OBVIOUS
    <3> HIDE Constants
    <3>6. \A l \in node'[h].initialized : l # k /\ l \in 1..NodeWaiters
      BY <1>1, <1>3, SMTT(60) DEF Nodes
    <3>7. \A l \in 1..NodeWaiters : l > Claimed[h] => l # k
      BY <3>4
    <3>8. /\ node'[h].waiters[1] = node[h].waiters[1]
          /\ \A l \in node'[h].initialized : node'[h].waiters[l] = node[h].waiters[l]
          /\ \A l \in 1..NodeWaiters : l > Claimed[h] => node'[h].waiters[l] = node[h].waiters[l]
          /\ \A l \in 1..NodeWaiters : \/ node'[h].waiters[l] = node[h].waiters[l]
                                       \/ node'[h].waiters[l] = w
      BY <1>3, <3>2, <3>6, <3>7
    <3>12. UNCHANGED <<list, pcSet>> /\ node'[h].initialized = node[h].initialized
      BY <1>2, <1>3
    <3>13. /\ node[h].waiters[1] = Null
                <=> list[Target[h]].head = h /\ pcSet[Target[h]] = "rest"
           /\ \A l \in node[h].initialized : node[h].waiters[l] # Null
           /\ \A l \in 1..NodeWaiters : l > Claimed[h] =>
                node[h].waiters[l] = Null /\ l \notin node[h].initialized
      BY <1>4, <3>1 DEF SlotsAt
    <3>9. /\ node'[h].waiters[1] = Null
               <=> list'[Target[h]].head = h /\ pcSet'[Target[h]] = "rest"
          /\ \A l \in node'[h].initialized : node'[h].waiters[l] # Null
      BY <3>8, <3>12, <3>13
    <3>10. \A l \in 1..NodeWaiters : l > Claimed'[h] =>
             node'[h].waiters[l] = Null /\ l \notin node'[h].initialized
      BY <2>1, <3>8, <3>12, <3>13
    <3>11. \A l \in 1..NodeWaiters : node'[h].waiters[l] # Null =>
             Target[node'[h].waiters[l]] = Target[h]
      BY <1>4, <3>1, <3>8 DEF SlotsAt
    <3> QED
      BY <3>9, <3>10, <3>11 DEF SlotsAt
  <2>4. ASSUME NEW u \in Waiters \ {w} PROVE ClaimAt(u)'
    <3>1. ClaimAt(u) /\ (Claiming(u)' <=> Claiming(u))
      BY <1>2, SlotsHold DEF SlotInv, Claiming
    <3>2. CASE ~Claiming(u)
      BY <3>1, <3>2 DEF ClaimAt
    <3>3. CASE Claiming(u)
      <4>1. PICK n \in Waiters, j \in 2..NodeWaiters :
              n = oldValue[u].head /\ j = numValid(oldValue[u].state)
        BY <3>1, <3>3, TypesHold DEF ClaimAt, Types, Words
      <4>4. (n = h => j # k) /\ j \in 1..NodeWaiters
        BY <1>1, <3>3, <4>1, SMTT(60)
      <4>2. /\ node'[n].waiters[j] = node[n].waiters[j]
            /\ node'[n].live = node[n].live /\ node'[n].initialized = node[n].initialized
        BY <1>3, <4>4
      <4>3. \A x \in Waiters : Claiming(x)' <=> Claiming(x)
        BY <1>2 DEF Claiming
      <4> QED
        BY <1>2, <2>1, <3>1, <3>3, <4>1, <4>2, <4>3 DEF ClaimAt
    <3> QED
      BY <3>2, <3>3
  <2>5. ClaimAt(w)'
    <3>1. \A u \in Waiters \ {w} : Claiming(u)' <=> Claiming(u)
      BY <1>2 DEF Claiming
    <3>2. h # Null /\ oldValue' = oldValue /\ pcThen'[w] = "setInitialized"
      BY <1>2
    <3> QED
      BY <1>1, <1>3, <2>1, <3>1, <3>2 DEF ClaimAt
  <2> QED
    BY <2>2, <2>3, <2>4, <2>5 DEF SlotInv
<1>12. PlacesInv'
  <2>1. Calling' = Calling \ {w} /\ w \in Calling /\ Known' = Known
    BY <1>2 DEF Calling, Known
  <2>2. InSlots' = InSlots \cup {w}
    <3>1. ASSUME NEW x \in InSlots PROVE x \in InSlots'
      <4>1. PICK n \in Waiters, i \in 1..NodeWaiters : node[n].live /\ node[n].waiters[i] = x
        BY DEF InSlots
      <4>2. x \in Waiters /\ x # Null
        BY DEF InSlots
      <4>3. node'[n].live /\ node'[n].waiters[i] = x
        BY <1>2, <1>3, <1>4, <4>1, <4>2
      <4> QED
        BY <4>2, <4>3 DEF InSlots
    <3>2. w \in InSlots'
      BY <1>3, <1>4 DEF InSlots
    <3>3. ASSUME NEW x \in InSlots', x # w PROVE x \in InSlots
      BY <1>2, <1>3, <1>4, <3>3, SMTT(60) DEF InSlots
    <3> QED
      BY <3>1, <3>2, <3>3
  <2>3. MovedOut' = MovedOut /\ Inline' = Inline /\ HasRun' = HasRun
    BY <1>2 DEF MovedOut, Inline, HasRun
  <2>4. SlotsDiffer'
    <3>1. \A n \in Waiters : \A i \in 1..NodeWaiters : node[n].live => node[n].waiters[i] # w
      <4>1. w \notin InSlots
        BY <2>1, PlacesHold DEF PlacesInv, PlacedOnce
      <4> QED
        BY <4>1 DEF InSlots
    <3>2. \A n \in Waiters : \A i \in 1..NodeWaiters :
            /\ node'[n].live = node[n].live
            /\ node'[n].waiters[i] = IF n = h /\ i = k THEN w ELSE node[n].waiters[i]
      BY <1>3
    <3> HIDE Constants
    <3> QED
      BY <3>1, <3>2, PlacesHold, SMTT(60) DEF PlacesInv, SlotsDiffer
  <2>5. UNCHANGED <<queued, payload, inlineWaiter>>
    BY <1>2
  <2>6. PlacedOnce'
    <3> HIDE Constants
    <3> QED
      BY <2>1, <2>2, <2>3, <2>5, PlacesHold, SMTT(60) DEF PlacesInv, PlacedOnce
  <2>7. AtTarget'
    BY <2>5, PlacesHold DEF PlacesInv, AtTarget
  <2> QED
    BY <2>4, <2>6, <2>7 DEF PlacesInv
<1>13. RefInv'
  BY <1>1, <1>2, RefsQuiet, RefsHold DEF OwnersKept
<1> QED
  BY <1>14, <1>6, <1>7, <1>8, <1>9, <1>10, <1>11, <1>12, <1>13 DEF AsyncInv

WithInitialized(r, k) == [r EXCEPT !.initialized = @ \cup {k}]

(* A slot is marked as initialized and the rest of the node stays. *)
LEMMA Initialized ==
  ASSUME node \in [Waiters -> Nodes],
         NEW h \in Waiters, NEW k \in 2..NodeWaiters,
         node' = [node EXCEPT ![h] = WithInitialized(node[h], k)]
  PROVE  /\ node' \in [Waiters -> Nodes]
         /\ \A n \in Waiters \ {h} : node'[n] = node[n]
         /\ node'[h].live = node[h].live /\ node'[h].waiters = node[h].waiters
         /\ node'[h].next = node[h].next
         /\ node'[h].initialized = node[h].initialized \cup {k}
<1>1. ASSUME NEW r \in Nodes
      PROVE  LET q == WithInitialized(r, k) IN
             /\ q \in Nodes /\ q.live = r.live /\ q.waiters = r.waiters /\ q.next = r.next
             /\ q.initialized = r.initialized \cup {k}
  <2>1. PICK i : i = r.initialized \cup {k}
    OBVIOUS
  <2>2. i \in SUBSET (2..NodeWaiters)
    BY <2>1 DEF Nodes
  <2>3. WithInitialized(r, k) = [r EXCEPT !.initialized = i]
    BY <2>1 DEF WithInitialized
  <2>4. LET q == [r EXCEPT !.initialized = i] IN
        /\ q \in Nodes /\ q.live = r.live /\ q.waiters = r.waiters /\ q.next = r.next
        /\ q.initialized = i
    BY <2>2 DEF Nodes
  <2> QED
    BY <2>1, <2>3, <2>4
<1>2. node'[h] = WithInitialized(node[h], k) /\ node[h] \in Nodes
  OBVIOUS
<1>3. /\ node'[h] \in Nodes /\ node'[h].live = node[h].live
      /\ node'[h].waiters = node[h].waiters /\ node'[h].next = node[h].next
      /\ node'[h].initialized = node[h].initialized \cup {k}
  BY <1>1, <1>2
<1> QED
  BY <1>2, <1>3

(* The waiter in a claimed slot may be run from now on. *)
LEMMA SetInitializedInv ==
  ASSUME AsyncInv, NEW w \in Waiters, SetInitialized(w)
  PROVE  AsyncInv'
<1> USE Constants
<1>1. PICK h \in Waiters, k \in 2..NodeWaiters :
        /\ h = oldValue[w].head /\ k = numValid(oldValue[w].state)
        /\ node[h].live /\ node[h].waiters[k] = w /\ k <= Claimed[h]
        /\ \A u \in Waiters \ {w} :
             Claiming(u) /\ oldValue[u].head = h => numValid(oldValue[u].state) # k
  BY TypesHold, SlotsHold, SMTT(60) DEF Types, Words, SlotInv, ClaimAt, Claiming, SetInitialized
<1>2. /\ pcThen[w] = "setInitialized" /\ pcThen'[w] = "return"
      /\ \A u \in Waiters \ {w} : pcThen'[u] = pcThen[u]
      /\ UNCHANGED <<waitersAndState, payload, refcount, destroyed, oldValue, pcSet, newValue,
                     newState, inlineWaiter, list, queued, ran>>
  BY TypesHold DEF Types, SetInitialized, GotoThen, word, life, sets, setLocals, work
<1>3. /\ node' \in [Waiters -> Nodes] /\ \A n \in Waiters \ {h} : node'[n] = node[n]
      /\ node'[h].live = node[h].live /\ node'[h].waiters = node[h].waiters
      /\ node'[h].next = node[h].next
      /\ node'[h].initialized = node[h].initialized \cup {k}
  <2>1. node' = [node EXCEPT ![h] = WithInitialized(node[h], k)]
    BY <1>1 DEF SetInitialized, WithInitialized
  <2>2. node \in [Waiters -> Nodes]
    BY TypesHold DEF Types
  <2> HIDE Constants
  <2> QED
    BY <2>1, <2>2, Initialized
<1>4. \A n \in Waiters : /\ node'[n].live = node[n].live /\ node'[n].waiters = node[n].waiters
                         /\ node'[n].next = node[n].next
  BY <1>3
<1>5. Types'
  <2>1. pcThen' \in [Waiters -> ThenLabels]
    BY TypesHold DEF Types, SetInitialized, GotoThen, ThenLabels
  <2> QED
    BY <1>2, <1>3, <2>1, TypesHold DEF Types
<1>6. ReadyKept /\ LinksKept
  BY <1>2, <1>4 DEF ReadyKept, LinksKept
<1>7. WordInv' /\ PayloadInv'
  <2>1. \A x \in Values : StageKept(x)
    BY <1>2 DEF StageKept
  <2>2. \A x \in Values : WordAt(x)'
    BY <1>2, <1>4, <2>1, WordsQuiet, TypesHold, WordsHold
  <2>3. \A x \in Values : PayloadAt(x)'
    BY <1>2, <2>1, PayloadsQuiet, PayloadsHold
  <2> QED
    BY <2>2, <2>3 DEF WordInv, PayloadInv
<1>9. SetInv'
  BY <1>2, <1>6, SetsQuiet, TypesHold, WordsHold, SetsHold
<1>10. ReadInv' /\ ReadyInv' /\ WriteInv'
  BY <1>2, <1>4, <1>6, ReadsQuiet, ReadyQuiet, WritesQuiet, ReadsHold, ReadyHolds, WritesHold
     DEF Writing
<1>11. ListInv'
  BY <1>2, <1>4, ListsQuiet, ListsHold, TypesHold
<1>12. NodeInv' /\ ReachInv'
  BY <1>6, NodesQuiet, TypesHold, NodesHold, ReachHolds
<1>13. SlotInv'
  <2>1. Claimed' = Claimed
    BY <1>2 DEF Claimed
  <2>2. ASSUME NEW n \in Waiters \ {h} PROVE SlotsAt(n)'
    BY <1>2, <1>3, <2>1, SlotsSame, SlotsHold DEF SlotInv
  <2>3. SlotsAt(h)'
    <3>1. SlotsAt(h) /\ ~(k > Claimed[h]) /\ node[h].waiters[k] # Null /\ node[h].live
      <4>1. SlotsAt(h) /\ node[h].waiters[k] # Null /\ node[h].live
        BY <1>1, SlotsHold DEF SlotInv
      <4>2. Claimed \in [Waiters -> Int] /\ k \in Int
        BY ClaimedType, TypesHold, SMTT(60)
      <4>3. ~(k > Claimed[h])
        <5> HIDE Constants
        <5> QED
          BY <1>1, <4>2, SMTT(60)
      <4> QED
        BY <4>1, <4>3
    <3>2. UNCHANGED <<list, pcSet>>
      BY <1>2
    <3> HIDE Constants
    <3>3. \A l \in node'[h].initialized : l = k \/ l \in node[h].initialized
      BY <1>3
    <3>4. /\ node[h].waiters[1] = Null
               <=> list[Target[h]].head = h /\ pcSet[Target[h]] = "rest"
          /\ \A l \in node[h].initialized : node[h].waiters[l] # Null
          /\ \A l \in 1..NodeWaiters : l > Claimed[h] =>
               node[h].waiters[l] = Null /\ l \notin node[h].initialized
          /\ \A l \in 1..NodeWaiters : node[h].waiters[l] # Null =>
               Target[node[h].waiters[l]] = Target[h]
      BY <3>1 DEF SlotsAt
    <3>5. node'[h].waiters = node[h].waiters
      BY <1>3
    <3>6. \A l \in node'[h].initialized : node'[h].waiters[l] # Null
      BY <3>1, <3>3, <3>4, <3>5
    <3>7. \A l \in 1..NodeWaiters : l > Claimed'[h] =>
            node'[h].waiters[l] = Null /\ l \notin node'[h].initialized
      BY <2>1, <3>1, <3>3, <3>4, <3>5
    <3> QED
      BY <3>2, <3>4, <3>5, <3>6, <3>7 DEF SlotsAt
  <2>4. ASSUME NEW u \in Waiters PROVE ClaimAt(u)'
    <3>1. CASE ~Claiming(u)'
      BY <3>1 DEF ClaimAt
    <3>2. CASE Claiming(u)'
      <4>1. u # w /\ Claiming(u) /\ ClaimAt(u) /\ pcThen'[u] = pcThen[u]
        BY <1>2, <3>2, SlotsHold DEF SlotInv, Claiming
      <4>2. PICK n \in Waiters, j \in 2..NodeWaiters :
              n = oldValue[u].head /\ j = numValid(oldValue[u].state)
        BY <4>1, TypesHold DEF ClaimAt, Types, Words
      <4>3. (n = h => j # k)
        BY <1>1, <4>1, <4>2
      <4>4. /\ node'[n].waiters[j] = node[n].waiters[j] /\ node'[n].live = node[n].live
            /\ j \in node'[n].initialized <=> j \in node[n].initialized
        BY <1>3, <4>3
      <4>5. \A x \in Waiters : Claiming(x)' => Claiming(x)
        BY <1>2 DEF Claiming
      <4> QED
        BY <1>2, <2>1, <4>1, <4>2, <4>4, <4>5 DEF ClaimAt
    <3> QED
      BY <3>1, <3>2
  <2> QED
    BY <2>2, <2>3, <2>4 DEF SlotInv
<1>14. PlacesInv'
  <2>1. Calling' = Calling /\ Known' = Known
    BY <1>2 DEF Calling, Known
  <2> QED
    BY <1>2, <1>4, <2>1, PlacesQuiet, PlacesHold
<1>15. RefInv'
  BY <1>2, RefsQuiet, RefsHold DEF OwnersKept
<1> QED
  BY <1>5, <1>7, <1>9, <1>10, <1>11, <1>12, <1>13, <1>14, <1>15 DEF AsyncInv

(* A waiter that comes too late to be installed is left to the work queue. *)
LEMMA InstallFailsInv ==
  ASSUME AsyncInv, NEW w \in Waiters, InstallFails(w)
  PROVE  AsyncInv'
<1> USE Constants
<1>1. CASE Dispatch(w)
  BY <1>1, DispatchInv DEF InstallFails
<1>2. CASE ~Dispatch(w)
  <2>1. /\ pcThen[w] = "install" /\ isReady(WordOf(w).state)
        /\ queued' = queued \cup {w}
        /\ pcThen' = [pcThen EXCEPT ![w] = "return"]
        /\ UNCHANGED <<waitersAndState, payload, refcount, destroyed, node, oldValue, pcSet,
                       newValue, newState, inlineWaiter, list, ran>>
    BY <1>2 DEF InstallFails, GotoThen, word, life, sets, setLocals
  <2>2. pcThen'[w] = "return" /\ \A u \in Waiters \ {w} : pcThen'[u] = pcThen[u]
    BY <2>1, TypesHold DEF Types
  <2>3. Types'
    <3>1. pcThen' \in [Waiters -> ThenLabels]
      BY <2>1, TypesHold DEF Types, ThenLabels
    <3> QED
      BY <2>1, <3>1, TypesHold DEF Types
  <2>4. ReadyKept /\ LinksKept
    BY <2>1 DEF ReadyKept, LinksKept
  <2>5. WordInv' /\ PayloadInv' /\ ListInv'
    <3>1. \A x \in Values : StageKept(x)
      BY <2>1 DEF StageKept
    <3>2. \A x \in Values : WordAt(x)'
      BY <2>1, <3>1, WordsQuiet, TypesHold, WordsHold
    <3>3. \A x \in Values : PayloadAt(x)'
      BY <2>1, <3>1, PayloadsQuiet, PayloadsHold
    <3>4. ListInv'
      BY <2>1, ListsQuiet, TypesHold, ListsHold
    <3> QED
      BY <3>2, <3>3, <3>4 DEF WordInv, PayloadInv
  <2>6. SetInv'
    BY <2>1, <2>2, <2>4, SetsQuiet, TypesHold, WordsHold, SetsHold
  <2>7. ReadInv' /\ WriteInv'
    BY <2>1, <2>2, ReadsQuiet, WritesQuiet, ReadsHold, WritesHold DEF Writing
  <2>8. ReadyInv'
    BY <2>1, ReadyHolds DEF ReadyInv, WordOf
  <2>9. NodeInv' /\ ReachInv'
    BY <2>4, NodesQuiet, TypesHold, NodesHold, ReachHolds
  <2>10. SlotInv'
    BY <2>1, <2>2, <2>4, SlotsQuiet, SlotsHold DEF Claiming
  <2>11. PlacesInv'
    <3>1. Calling' = Calling \ {w} /\ w \in Calling /\ Known' = Known
      BY <2>1, <2>2, SMTT(60) DEF Calling, Known
    <3>2. Inline' = Inline /\ MovedOut' = MovedOut /\ InSlots' = InSlots /\ HasRun' = HasRun
      BY <2>1 DEF Inline, MovedOut, InSlots, HasRun
    <3>3. PlacedOnce'
      <4> HIDE Constants
      <4>1. queued' = queued \cup {w}
        BY <2>1
      <4> QED
        BY <3>1, <3>2, <4>1, PlacesHold, SMTT(60) DEF PlacesInv, PlacedOnce
    <3>4. UNCHANGED <<payload, inlineWaiter, node>>
      BY <2>1
    <3>5. AtTarget' /\ SlotsDiffer'
      BY <3>4, SlotsDifferQuiet, PlacesHold DEF PlacesInv, AtTarget
    <3> QED
      BY <3>3, <3>5 DEF PlacesInv
  <2>12. RefInv'
    BY <2>1, <2>2, RefsQuiet, RefsHold DEF OwnersKept
  <2> QED
    BY <2>3, <2>5, <2>6, <2>7, <2>8, <2>9, <2>10, <2>11, <2>12 DEF AsyncInv
<1> QED
  BY <1>1, <1>2

NewNode(w, h) == [FreeNode EXCEPT !.live = TRUE, !.waiters[1] = w, !.next = h]

(* A free node is a node, and what a new one holds. *)
LEMMA NodesMade ==
  /\ FreeNode \in Nodes /\ ~FreeNode.live
  /\ \A w \in Waiters, h \in Waiters \cup {Null} :
       LET q == NewNode(w, h) IN
       /\ q \in Nodes /\ q.live /\ q.next = h /\ q.initialized = {} /\ q.waiters[1] = w
       /\ \A k \in 2..NodeWaiters : q.waiters[k] = Null
<1>1. PICK empty : empty = {}
  OBVIOUS
<1>2. PICK f : f = [k \in 1..NodeWaiters |-> Null]
  OBVIOUS
<1>3. /\ f \in [1..NodeWaiters -> Waiters \cup {Null}] /\ empty \in SUBSET (2..NodeWaiters)
      /\ \A k \in 1..NodeWaiters : f[k] = Null
  BY <1>1, <1>2
<1>4. FreeNode = [live |-> FALSE, waiters |-> f, initialized |-> empty, next |-> Null]
  BY <1>1, <1>2 DEF FreeNode
<1>5. FreeNode \in Nodes /\ ~FreeNode.live
  BY <1>3, <1>4 DEF Nodes
<1>6. ASSUME NEW w \in Waiters, NEW h \in Waiters \cup {Null}
      PROVE  LET q == NewNode(w, h) IN
             /\ q \in Nodes /\ q.live /\ q.next = h /\ q.initialized = {} /\ q.waiters[1] = w
             /\ \A k \in 2..NodeWaiters : q.waiters[k] = Null
  <2>1. PICK g : g = [f EXCEPT ![1] = w]
    OBVIOUS
  <2>2. /\ g \in [1..NodeWaiters -> Waiters \cup {Null}]
        /\ g[1] = w /\ \A k \in 2..NodeWaiters : g[k] = Null
    BY <1>3, <2>1, Constants, SMTT(60)
  <2>3. FreeNode.waiters = f
    BY <1>4
  <2>4. NewNode(w, h) = [FreeNode EXCEPT !.live = TRUE, !.waiters = g, !.next = h]
    BY <2>1, <2>3 DEF NewNode
  <2>5. NewNode(w, h) = [live |-> TRUE, waiters |-> g, initialized |-> empty, next |-> h]
    BY <1>4, <2>4
  <2> QED
    BY <1>1, <1>3, <2>2, <2>5, SMTT(60) DEF Nodes
<1> QED
  BY <1>5, <1>6

(* The waiter goes from its call into the first slot of a new node, which  *)
(* goes to the head of the list.                                           *)
LEMMA InstallInv ==
  ASSUME AsyncInv, NEW w \in Waiters, Install(w)
  PROVE  AsyncInv'
<1> USE Constants
<1>1. PICK v \in Values, h \in Waiters \cup {Null} :
        /\ v = Target[w] /\ h = waitersAndState[v].head /\ h = oldValue[w].head
        /\ waitersAndState[v].state = NodeWaiters + 1
        /\ pcThen[w] = "install" /\ ~node[w].live
        /\ pcSet[v] \notin AfterReady
  <2>1. /\ Target[w] \in Values /\ pcThen[w] = "install"
        /\ waitersAndState[Target[w]] = oldValue[w]
    BY DEF Install, WordOf
  <2>2. oldValue[w].state = NodeWaiters + 1 /\ ~node[w].live
    BY <2>1, ReadsHold DEF ReadInv, ReadAt
  <2>3. pcSet[Target[w]] \notin AfterReady
    BY <2>1, <2>2, WordsHold, SMTT(60) DEF WordInv, WordAt
  <2>4. oldValue[w].head \in Waiters \cup {Null}
    BY TypesHold DEF Types, Words
  <2> QED
    BY <2>1, <2>2, <2>3, <2>4
<1>2. /\ waitersAndState'[v].state = 2 /\ waitersAndState'[v].head = w
      /\ \A x \in Values \ {v} : waitersAndState'[x] = waitersAndState[x]
      /\ pcThen'[w] = "return"
      /\ \A u \in Waiters \ {w} : pcThen'[u] = pcThen[u]
      /\ UNCHANGED <<payload, refcount, destroyed, oldValue, pcSet, newValue, newState,
                     inlineWaiter, list, queued, ran>>
  BY <1>1, TypesHold DEF Types, Install, SetWord, GotoThen, life, sets, setLocals, work
<1>3. /\ node' \in [Waiters -> Nodes]
      /\ \A n \in Waiters \ {w} : node'[n] = node[n]
      /\ node'[w].live /\ node'[w].next = h /\ node'[w].initialized = {}
      /\ node'[w].waiters[1] = w
      /\ \A k \in 2..NodeWaiters : node'[w].waiters[k] = Null
  <2>1. node' = [node EXCEPT ![w] = NewNode(w, h)]
    BY <1>1 DEF Install, NewNode
  <2>2. node \in [Waiters -> Nodes]
    BY TypesHold DEF Types
  <2> HIDE Constants
  <2> QED
    BY <2>1, <2>2, NodesMade, SMTT(60)
<1>4. list[v].head = Null /\ (h # Null => h # w /\ node[h].live /\ Target[h] = v)
  <2>1. list[v].head = Null
    BY <1>1, ListsHold DEF ListInv, AfterReady
  <2>2. h # Null => node[h].live /\ Target[h] = v
    <3>1. WordAt(v) /\ h = waitersAndState[v].head
      BY <1>1, WordsHold DEF WordInv
    <3> QED
      BY <3>1 DEF WordAt
  <2> QED
    BY <1>1, <2>1, <2>2
<1>5. \A n \in Waiters : (node[n].live => n # w) /\ (node'[n].live <=> node[n].live \/ n = w)
  BY <1>1, <1>3
<1>6. Types'
  <2>1. waitersAndState' \in [Values -> Words]
    <3>1. [head |-> w, state |-> Valid(1)] \in Words
      BY SMTT(60) DEF Words
    <3> QED
      BY <3>1, TypesHold DEF Types, Install, SetWord
  <2>2. pcThen' \in [Waiters -> ThenLabels]
    BY TypesHold DEF Types, Install, GotoThen, ThenLabels
  <2> QED
    BY <1>2, <1>3, <2>1, <2>2, TypesHold DEF Types
<1>7. ReadyKept
  <2>1. ~isReady(NodeWaiters + 1)
    BY SMTT(60)
  <2> QED
    BY <1>1, <1>2, <2>1 DEF ReadyKept
<1>8. WordInv'
  <2>1. \A x \in Values \ {v} : WordAt(x)'
    BY <1>2, <1>5, WordsQuiet, TypesHold, WordsHold DEF StageKept
  <2>2. ~isReady(2) /\ 2 \notin {kUnconstructed, kUnconstructedInitializingInlineWaiter}
    BY SMTT(60)
  <2>3. /\ pcSet'[v] \notin AfterReady /\ node'[w].live /\ Target[w] = v /\ w # Null
        /\ waitersAndState'[v].state = 2 /\ waitersAndState'[v].head = w
    BY <1>1, <1>2, <1>3
  <2>4. WordAt(v)'
    BY <2>2, <2>3 DEF WordAt
  <2> QED
    BY <2>1, <2>4 DEF WordInv
<1>9. PayloadInv'
  <2>1. \A x \in Values \ {v} : PayloadAt(x)'
    BY <1>2, PayloadsQuiet, PayloadsHold DEF StageKept
  <2>2. NodeWaiters + 1 > kUnconstructedInitializingInlineWaiter /\ 2 # kUnconstructed
    BY SMTT(60)
  <2>3. /\ UNCHANGED <<payload, pcSet, newValue, newState>>
        /\ waitersAndState'[v].state = 2 /\ waitersAndState[v].state = NodeWaiters + 1
    BY <1>1, <1>2
  <2>4. PayloadAt(v)
    BY PayloadsHold DEF PayloadInv
  <2>5. PayloadAt(v)'
    BY <2>2, <2>3, <2>4 DEF PayloadAt
  <2> QED
    BY <2>1, <2>5 DEF PayloadInv
<1>10. SetInv'
  BY <1>1, <1>2, <1>7, SetsQuiet, TypesHold, WordsHold, SetsHold
<1>11. ReadInv' /\ ReadyInv'
  <2>1. ReadyInv'
    BY <1>2, <1>7, ReadyQuiet, ReadyHolds
  <2>2. ASSUME NEW u \in Waiters PROVE ReadAt(u)'
    <3>1. ReadAt(u) /\ (u = w \/ pcThen'[u] = pcThen[u]) /\ oldValue' = oldValue
          /\ (node'[u].live <=> node[u].live \/ u = w)
      BY <1>2, <1>5, ReadsHold DEF ReadInv
    <3> QED
      BY <1>2, <3>1 DEF ReadAt
  <2> QED
    BY <2>1, <2>2 DEF ReadInv
<1>12. WriteInv'
  <2>1. \A u \in Waiters : Writing(u) => Target[u] # v
    <3>1. NodeWaiters + 1 # kUnconstructedInitializingInlineWaiter
      BY SMTT(60)
    <3> QED
      BY <1>1, <3>1, WritesHold DEF WriteInv, WriteAt, WordOf
  <2> QED
    BY <1>1, <1>2, <2>1, WritesQuiet, WritesHold DEF Writing
<1>13. ListInv'
  BY <1>2, <1>5, ListsQuiet, ListsHold, TypesHold
<1>14. NodeInv'
  <2> SUFFICES ASSUME NEW n \in Waiters, NEW m \in Waiters, node'[n].live, m = node'[n].next
               PROVE  /\ node'[m].live /\ m # n /\ Target[m] = Target[n]
                      /\ waitersAndState'[Target[n]].head # m /\ list'[Target[n]].head # m
                      /\ \A u \in Waiters \ {n} : node'[u].live => node'[u].next # m
    <3>1. \A n \in Waiters : node'[n].next \in Waiters \cup {Null}
      BY <1>3 DEF Nodes
    <3> QED
      BY <3>1, SMTT(60) DEF NodeInv
  <2>1. CASE n = w
    <3>1. ASSUME NEW u \in Waiters, node[u].live PROVE node[u].next # h
      <4>1. h # Null /\ h = m
        BY <1>3, <2>1
      <4>2. node[u].next = h => Target[h] = Target[u] /\ waitersAndState[Target[u]].head # h
        <5> SUFFICES ASSUME node[u].next = h
                     PROVE  Target[h] = Target[u] /\ waitersAndState[Target[u]].head # h
          OBVIOUS
        <5>1. NodeInv /\ node[u].live /\ node[u].next = h /\ h # Null
          BY <3>1, <4>1, NodesHold
        <5> HIDE Constants
        <5> QED
          BY <5>1, NextNode
      <4> QED
        BY <1>1, <1>4, <4>1, <4>2
    <3> QED
      <4>1. h # Null /\ h = m /\ h \in Waiters
        BY <1>3, <2>1
      <4>2. ASSUME NEW u \in Waiters \ {n}, node'[u].live PROVE node'[u].next # m
        <5>1. u # w /\ node'[u] = node[u] /\ node[u].live
          BY <1>3, <1>5, <2>1, <4>2
        <5> QED
          BY <3>1, <4>1, <5>1
      <4>3. list'[v].head = Null /\ waitersAndState'[v].head = w /\ Target[w] = v
        BY <1>1, <1>2, <1>4
      <4> QED
        BY <1>4, <1>5, <2>1, <4>1, <4>2, <4>3
  <2>2. CASE n # w
    <3>1. /\ node[m].live /\ m # n /\ Target[m] = Target[n]
          /\ waitersAndState[Target[n]].head # m /\ list[Target[n]].head # m
          /\ \A u \in Waiters \ {n} : node[u].live => node[u].next # m
      <4>1. node[n].live /\ node[n].next = m /\ m # Null
        BY <1>3, <2>2
      <4> QED
        BY <4>1, NextNode, NodesHold
    <3>2. m # h /\ m # w
      BY <1>1, <1>4, <3>1
    <3> QED
      <4>1. node'[m].live
        BY <1>5, <3>1
      <4>3. ASSUME NEW u \in Waiters \ {n}, node'[u].live PROVE node'[u].next # m
        <5>1. CASE u = w
          BY <1>3, <3>2, <5>1
        <5>2. CASE u # w
          <6>1. node'[u] = node[u] /\ node[u].live
            BY <1>3, <1>5, <4>3, <5>2
          <6> QED
            BY <3>1, <6>1
        <5> QED
          BY <5>1, <5>2
      <4>2. list' = list /\ waitersAndState'[Target[n]].head # m
        BY <1>2, <3>1, <3>2
      <4> QED
        BY <3>1, <4>1, <4>2, <4>3
  <2> QED
    BY <2>1, <2>2
<1>15. ReachInv'
  <2> SUFFICES ASSUME NEW C \in SUBSET {n \in Waiters : node'[n].live}, C # {}
               PROVE  \E n \in C : \/ waitersAndState'[Target[n]].head = n
                                   \/ list'[Target[n]].head = n
                                   \/ \E m \in Waiters \ C : node'[m].live /\ node'[m].next = n
    BY DEF ReachInv
  <2>1. CASE w \in C
    BY <1>1, <1>2, <2>1
  <2>2. CASE w \notin C
    <3>1. C \in SUBSET {n \in Waiters : node[n].live}
      BY <1>5, <2>2
    <3>2. PICK n \in C : \/ waitersAndState[Target[n]].head = n
                         \/ list[Target[n]].head = n
                         \/ \E m \in Waiters \ C : node[m].live /\ node[m].next = n
      BY <3>1, ReachHolds DEF ReachInv
    <3>3. n \in Waiters
      BY <3>1
    <3>4. CASE waitersAndState[Target[n]].head = n
      <4>1. CASE Target[n] = v
        <5>1. n = h /\ node'[w].live /\ node'[w].next = h /\ w \in Waiters \ C
          BY <1>1, <1>3, <2>2, <3>4, <4>1
        <5> QED
          BY <5>1
      <4>2. CASE Target[n] # v
        BY <1>2, <3>3, <3>4, <4>2
      <4> QED
        BY <4>1, <4>2
    <3>5. CASE list[Target[n]].head = n
      BY <1>2, <3>5
    <3>6. CASE \E m \in Waiters \ C : node[m].live /\ node[m].next = n
      <4>1. PICK m \in Waiters \ C : node[m].live /\ node[m].next = n
        BY <3>6
      <4>2. node'[m].live /\ node'[m].next = n
        BY <1>3, <1>5, <4>1
      <4> QED
        BY <4>2
    <3> QED
      BY <3>2, <3>4, <3>5, <3>6
  <2> QED
    BY <2>1, <2>2
<1>16. SlotInv'
  <2>1. Claimed'[w] = 1
    <3>1. Claimed'[w] = numValid(waitersAndState'[v].state)
      BY <1>1, <1>2 DEF Claimed
    <3>2. waitersAndState'[v].state = Valid(1)
      BY <1>2
    <3> QED
      BY <3>1, <3>2, SMTT(60) DEF numValid
  <2>2. \A n \in Waiters \ {w} : Claimed'[n] = Claimed[n]
    <3>1. numValid(waitersAndState[v].state) = NodeWaiters
      <4> HIDE <1>1
      <4>1. numValid(NodeWaiters + 1) = NodeWaiters
        BY SMTT(60) DEF numValid
      <4> QED
        BY <1>1, <4>1
    <3>2. ASSUME NEW n \in Waiters \ {w} PROVE Claimed'[n] = Claimed[n]
      <4>1. CASE Target[n] = v
        <5>1. /\ Claimed'[n] = NodeWaiters
              /\ Claimed[n] = NodeWaiters
          <6>1. waitersAndState'[v].head # n /\ list'[v].head # n /\ list[v].head # n
            BY <1>2, <1>4
          <6>2. Claimed'[n] = NodeWaiters
            BY <4>1, <6>1 DEF Claimed
          <6>3. Claimed[n] = NodeWaiters
            BY <3>1, <4>1, <6>1 DEF Claimed
          <6> QED
            BY <6>2, <6>3
        <5> QED
          BY <5>1
      <4>2. CASE Target[n] # v
        BY <1>2, <4>2 DEF Claimed
      <4> QED
        BY <4>1, <4>2
    <3> QED
      BY <3>2
  <2>3. ASSUME NEW n \in Waiters \ {w} PROVE SlotsAt(n)'
    BY <1>2, <1>3, <2>2, SlotsSame, SlotsHold DEF SlotInv
  <2>4. SlotsAt(w)'
    <3>1. \A k \in 1..NodeWaiters : k > 1 => k \in 2..NodeWaiters
      BY SMTT(60)
    <3>2. list'[Target[w]].head # w /\ w # Null
      BY <1>1, <1>2, <1>4
    <3>3. \A k \in 1..NodeWaiters : k = 1 \/ k \in 2..NodeWaiters
      BY SMTT(60)
    <3> HIDE Constants
    <3> QED
      BY <1>3, <2>1, <3>1, <3>2, <3>3 DEF SlotsAt
  <2>5. ASSUME NEW u \in Waiters PROVE ClaimAt(u)'
    <3>1. CASE ~Claiming(u)'
      BY <3>1 DEF ClaimAt
    <3>2. CASE Claiming(u)'
      <4>1. Claiming(u) /\ ClaimAt(u) /\ pcThen'[u] = pcThen[u]
        BY <1>2, <3>2, SlotsHold DEF SlotInv, Claiming
      <4>2. PICK n \in Waiters, j \in 2..NodeWaiters :
              n = oldValue[u].head /\ j = numValid(oldValue[u].state) /\ node[n].live
        BY <4>1, TypesHold DEF ClaimAt, Types, Words
      <4>3. node'[n] = node[n] /\ Claimed'[n] = Claimed[n]
        BY <1>3, <1>5, <2>2, <4>2
      <4>4. \A x \in Waiters : Claiming(x)' => Claiming(x)
        BY <1>2 DEF Claiming
      <4> QED
        BY <1>2, <4>1, <4>2, <4>3, <4>4 DEF ClaimAt
    <3> QED
      BY <3>1, <3>2
  <2> QED
    BY <2>3, <2>4, <2>5 DEF SlotInv
<1>17. PlacesInv'
  <2>1. Calling' = Calling \ {w} /\ w \in Calling /\ Known' = Known
    BY <1>1, <1>2, SMTT(60) DEF Calling, Known
  <2>2. \A k \in 1..NodeWaiters : k = 1 \/ k \in 2..NodeWaiters
    BY SMTT(60)
  <2>3. \A k \in 1..NodeWaiters : node'[w].waiters[k] \in {w, Null}
                                  /\ (node'[w].waiters[k] = w <=> k = 1)
    BY <1>3, <2>2
  <2>4. InSlots' = InSlots \cup {w}
    <3>1. ASSUME NEW x \in InSlots PROVE x \in InSlots'
      BY <1>3, <1>5, SMTT(60) DEF InSlots
    <3>2. w \in InSlots'
      BY <1>3, <2>3, SMTT(60) DEF InSlots
    <3>3. ASSUME NEW x \in InSlots', x # w PROVE x \in InSlots
      BY <1>3, <1>5, <2>3, <3>3, SMTT(60) DEF InSlots
    <3> QED
      BY <3>1, <3>2, <3>3
  <2>5. MovedOut' = MovedOut /\ Inline' = Inline /\ HasRun' = HasRun
    BY <1>2 DEF MovedOut, Inline, HasRun
  <2>6. SlotsDiffer'
    <3>1. \A n \in Waiters : \A i \in 1..NodeWaiters : node[n].live => node[n].waiters[i] # w
      <4>1. w \notin InSlots
        BY <2>1, PlacesHold DEF PlacesInv, PlacedOnce
      <4> QED
        BY <4>1 DEF InSlots
    <3>2. \A n \in Waiters : \A i \in 1..NodeWaiters : n # w =>
            node'[n].live = node[n].live /\ node'[n].waiters[i] = node[n].waiters[i]
      BY <1>3
    <3> HIDE Constants
    <3> QED
      BY <2>3, <3>1, <3>2, PlacesHold, SMTT(60) DEF PlacesInv, SlotsDiffer
  <2>7. UNCHANGED <<queued, payload, inlineWaiter>>
    BY <1>2
  <2>8. PlacedOnce'
    <3> HIDE Constants
    <3> QED
      BY <2>1, <2>4, <2>5, <2>7, PlacesHold, SMTT(60) DEF PlacesInv, PlacedOnce
  <2>9. AtTarget'
    BY <2>7, PlacesHold DEF PlacesInv, AtTarget
  <2> QED
    BY <2>6, <2>8, <2>9 DEF PlacesInv
<1>18. RefInv'
  BY <1>1, <1>2, RefsQuiet, RefsHold DEF OwnersKept
<1> QED
  BY <1>6, <1>8, <1>9, <1>10, <1>11, <1>12, <1>13, <1>14, <1>15, <1>16, <1>17, <1>18
     DEF AsyncInv

(* A waiter leaves the work queue and runs. *)
LEMMA RunQueuedInv ==
  ASSUME AsyncInv, NEW w \in Waiters, RunQueued(w)
  PROVE  AsyncInv'
<1> USE Constants
<1>1. /\ w \in queued /\ ran[w] = 0 /\ w \notin Calling /\ pcThen[w] # "none"
      /\ isReady(WordOf(w).state)
  <2>1. w \in queued /\ w \notin HasRun /\ w \notin Calling /\ w \in Known
    BY PlacesHold DEF PlacesInv, PlacedOnce, RunQueued
  <2>2. ran[w] \in {0, 1}
    BY TypesHold DEF Types
  <2>3. ran[w] # 1 /\ pcThen[w] # "none"
    BY <2>1 DEF HasRun, Known
  <2>4. isReady(WordOf(w).state)
    BY <2>1, ReadyHolds DEF ReadyInv
  <2> QED
    BY <2>1, <2>2, <2>3, <2>4
<1>2. /\ queued' = queued \ {w} /\ Run(w)
      /\ UNCHANGED <<waitersAndState, payload, refcount, destroyed, node, pcThen, oldValue,
                     newValue, newState, inlineWaiter, list>>
  BY DEF RunQueued, word, life, thens, setLocals
<1>3. /\ SetInv'
      /\ ran' \in [Waiters -> {0, 1}] /\ ran'[w] = 1
      /\ \A u \in Waiters \ {w} : ran'[u] = ran[u]
      /\ pcSet' \in [Values -> BeforeReady \cup AfterReady]
      /\ \A v \in Values : pcSet'[v] = pcSet[v]
                           \/ (pcSet[v] = "waiting" /\ pcSet'[v] = "resolve")
  BY <1>1, <1>2, RunSets, TypesHold, WordsHold, SetsHold
<1>4. ReadyKept /\ LinksKept
  BY <1>2 DEF ReadyKept, LinksKept
<1>5. Types'
  BY <1>2, <1>3, TypesHold DEF Types
<1>6. WordInv' /\ PayloadInv'
  <2>1. \A x \in Values : StageKept(x)
    BY <1>3 DEF StageKept, BeforeTake, Resolving
  <2>2. \A x \in Values : WordAt(x)'
    BY <1>2, <2>1, WordsQuiet, TypesHold, WordsHold
  <2>3. \A x \in Values : PayloadAt(x)'
    BY <1>2, <2>1, PayloadsQuiet, PayloadsHold
  <2> QED
    BY <2>2, <2>3 DEF WordInv, PayloadInv
<1>7. ReadInv' /\ WriteInv'
  BY <1>2, ReadsQuiet, WritesQuiet, ReadsHold, WritesHold
<1>8. ReadyInv'
  BY <1>1, <1>2, <1>3, ReadyHolds DEF ReadyInv, WordOf
<1>9. ListInv'
  <2>1. \A x \in Values : pcSet'[x] = pcSet[x] \/ {pcSet[x], pcSet'[x]} \subseteq BeforeTake
    BY <1>3 DEF BeforeTake, Resolving
  <2> QED
    BY <1>2, <2>1, ListsQuiet, TypesHold, ListsHold
<1>10. NodeInv' /\ ReachInv'
  BY <1>4, NodesQuiet, TypesHold, NodesHold, ReachHolds
<1>11. SlotInv'
  BY <1>2, <1>3, <1>4, SlotsQuiet, SlotsHold DEF Claiming
<1>12. PlacesInv'
  <2>1. Calling' = Calling /\ Known' = Known /\ HasRun' = HasRun \cup {w}
    BY <1>2, <1>3, SMTT(60) DEF Calling, Known, HasRun
  <2>2. Inline' = Inline /\ MovedOut' = MovedOut /\ InSlots' = InSlots
    BY <1>2 DEF Inline, MovedOut, InSlots
  <2> QED
    <3>1. PlacedOnce'
      <4> HIDE Constants
      <4>1. w \in queued /\ queued' = queued \ {w}
        BY <1>1, <1>2
      <4> QED
        BY <2>1, <2>2, <4>1, PlacesHold, SMTT(60) DEF PlacesInv, PlacedOnce
    <3>2. UNCHANGED <<payload, inlineWaiter, node>>
      BY <1>2
    <3>3. AtTarget' /\ SlotsDiffer'
      BY <3>2, SlotsDifferQuiet, PlacesHold DEF PlacesInv, AtTarget
    <3> QED
      BY <3>1, <3>3 DEF PlacesInv
<1>13. RefInv'
  <2>1. \A x \in Values : pcSet'[x] = pcSet[x]
          \/ {pcSet[x], pcSet'[x]} \subseteq BeforeReady \cup {"dropRef"}
    BY <1>3 DEF BeforeReady, BeforeTake, Resolving
  <2> QED
    BY <1>2, <2>1, RefsQuiet, RefsHold DEF OwnersKept
<1> QED
  BY <1>3, <1>5, <1>6, <1>7, <1>8, <1>9, <1>10, <1>11, <1>12, <1>13 DEF AsyncInv
=============================================================================
