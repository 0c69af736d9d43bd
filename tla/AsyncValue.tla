----------------------------- MODULE AsyncValue -----------------------------
(***************************************************************************)
(* The futures of the runtime (AsyncRT/Runtime/AsyncValue.h and .cpp): a   *)
(* value becomes ready once, and runs every waiter that andThenSync gave   *)
(* it.  The first waiter lives in the payload's storage, the others in a   *)
(* list of nodes; one atomic word holds the state and the list's head.     *)
(* An indirect value becomes ready when the value it is resolved to does:  *)
(* its resolve closure is a waiter of that value, so an indirect value is  *)
(* also the name of that waiter.                                           *)
(* Every andThenSync and every completion runs on a thread of its own; one *)
(* action is one access to shared state.                                   *)
(***************************************************************************)
EXTENDS Integers, FiniteSets, TLC

CONSTANTS
  Concretes, Indirects,  \* the values
  Users,                 \* the waiters that users register
  Target,                \* the value a user waits on or an indirect resolves to
  NodeWaiters,           \* 4 in the source: waiters in a list node
  Null

Values == Concretes \cup Indirects
Waiters == Users \cup Indirects

ASSUME AsyncValueAssumption ==
  /\ NodeWaiters \in Nat \ {0, 1}
  /\ Target \in [Waiters -> Values]
  /\ Null \notin Values \cup Waiters
  /\ Concretes \cap Indirects = {} /\ Users \cap Indirects = {}
  /\ IsFiniteSet(Waiters)

(* AsyncValue::State; Valid(k) is kUnconstructed<k>ValidOOLWaiterSlots. *)
kUnconstructed == 0
kUnconstructedInitializingInlineWaiter == 1
Valid(k) == 1 + k
kAvailable == NodeWaiters + 2
kError == NodeWaiters + 3
isReady(state) == state \in {kAvailable, kError}
numValid(state) == state - 1

VARIABLES
  waitersAndState,   \* per value: the list's head and the state
  payload,           \* per value: what its union holds
  refcount, destroyed,
  node,              \* per waiter: the list node its andThen may create
  pcThen, oldValue,                                \* per waiter: andThen
  pcSet, newValue, newState, inlineWaiter, list,   \* per value: completion
  queued,            \* the waiters that runWaiterLater gave to the work queue
  ran                \* how often each waiter ran

word == <<waitersAndState, payload>>
life == <<refcount, destroyed>>
thens == <<pcThen, oldValue>>
setLocals == <<newValue, newState, inlineWaiter, list>>
sets == <<pcSet, setLocals>>
work == <<queued, ran>>
vars == <<word, life, node, thens, sets, work>>

Nothing == [holds |-> "nothing"]
Waiter(w) == [holds |-> "waiter", of |-> w]
Result(s) == [holds |-> IF s = kError THEN "diagnostic" ELSE "value"]
Ref(v) == [holds |-> "ref", of |-> v]

FreeNode == [live |-> FALSE, waiters |-> [k \in 1..NodeWaiters |-> Null],
             initialized |-> {}, next |-> Null]

(* One reference for whoever completes the value, one for each caller of   *)
(* andThenSync and one for each indirect value to be resolved to it.       *)
Init ==
  /\ waitersAndState = [v \in Values |-> [head |-> Null, state |-> kUnconstructed]]
  /\ payload = [v \in Values |-> Nothing]
  /\ refcount = [v \in Values |-> 1 + Cardinality({w \in Waiters : Target[w] = v})]
  /\ destroyed = {}
  /\ node = [w \in Waiters |-> FreeNode]
  /\ pcThen = [w \in Waiters |-> IF w \in Users THEN "call" ELSE "none"]
  /\ oldValue = [w \in Waiters |-> [head |-> Null, state |-> kUnconstructed]]
  /\ pcSet = [v \in Values |-> "call"]
  /\ newValue = [v \in Values |-> IF v \in Indirects THEN Target[v] ELSE Null]
  /\ newState = [v \in Values |-> kUnconstructed]
  /\ inlineWaiter = [v \in Values |-> Null]
  /\ list = [v \in Values |-> [head |-> Null, valid |-> 0]]
  /\ queued = {}
  /\ ran = [w \in Waiters |-> 0]

(***************************************************************************)
(* Reference counts.  Destroying an indirect value drops the reference its *)
(* payload holds; the value it refers to is always a concrete one.         *)
(***************************************************************************)
Dropped(v) ==
  {v} \cup (IF refcount[v] = 1 /\ payload[v].holds = "ref" THEN {payload[v].of} ELSE {})

dropRef_KeepsPayload(v) ==
  /\ refcount' = [refcount EXCEPT ![v] = @ - 1]
  /\ destroyed' = destroyed \cup {u \in {v} : refcount[u] = 1}

dropRef(v) ==
  /\ refcount' = [u \in Values |-> refcount[u] - (IF u \in Dropped(v) THEN 1 ELSE 0)]
  /\ destroyed' = destroyed \cup {u \in Dropped(v) : refcount[u] = 1}

moveRef_NoCopy(v, u) ==
  /\ refcount' = [x \in Values |-> refcount[x] - (IF x \in Dropped(v) THEN 1 ELSE 0)]
  /\ destroyed' = destroyed \cup {x \in Dropped(v) : refcount[x] = 1}

(* newValue = copyRCRef(u), which drops the reference to v last. *)
moveRef(v, u) ==
  /\ refcount' = [x \in Values |->
       refcount[x] + (IF x = u THEN 1 ELSE 0) - (IF x \in Dropped(v) THEN 1 ELSE 0)]
  /\ destroyed' = destroyed \cup {x \in Dropped(v) \ {u} : refcount[x] = 1}

(* The waiter's closure: a user's, or an indirect value's resolve closure. *)
Run(w) ==
  /\ ran' = [ran EXCEPT ![w] = @ + 1]
  /\ pcSet' = IF w \in Indirects THEN [pcSet EXCEPT ![w] = "resolve"] ELSE pcSet

(***************************************************************************)
(* andThen                                                                 *)
(***************************************************************************)
GotoThen(w, label) == pcThen' = [pcThen EXCEPT ![w] = label]
WordOf(w) == waitersAndState[Target[w]]
SetWord(v, head, state) ==
  waitersAndState' = [waitersAndState EXCEPT ![v] = [head |-> head, state |-> state]]

NextStep(state) ==
  CASE state = kUnconstructed -> "claimInline"
    [] state = kUnconstructedInitializingInlineWaiter -> "load"
    [] state = Valid(NodeWaiters) -> "install"
    [] OTHER -> "claimSlot"

(* Go on with the word as it was just read: if the value is ready the      *)
(* waiter runs now.                                                        *)
Dispatch(w) ==
  /\ oldValue' = [oldValue EXCEPT ![w] = WordOf(w)]
  /\ IF isReady(WordOf(w).state)
       THEN Run(w) /\ GotoThen(w, "return")
       ELSE GotoThen(w, NextStep(WordOf(w).state)) /\ UNCHANGED <<ran, pcSet>>
  /\ UNCHANGED <<word, life, node, setLocals, queued>>

(* andThenSync loads the word; while another thread initializes the inline *)
(* waiter it loads it again.                                               *)
Load(w) ==
  /\ pcThen[w] \in {"call", "load"}
  /\ Dispatch(w)

ClaimInline(w) ==
  /\ pcThen[w] = "claimInline" /\ WordOf(w) = oldValue[w]
  /\ SetWord(Target[w], Null, kUnconstructedInitializingInlineWaiter)
  /\ GotoThen(w, "writeInline")
  /\ UNCHANGED <<payload, life, node, oldValue, sets, work>>

WriteInline(w) ==
  /\ pcThen[w] = "writeInline"
  /\ payload' = [payload EXCEPT ![Target[w]] = Waiter(w)]
  /\ GotoThen(w, "publishInline")
  /\ UNCHANGED <<waitersAndState, life, node, oldValue, sets, work>>

(* fetch_add(4) *)
PublishInline(w) ==
  /\ pcThen[w] = "publishInline"
  /\ waitersAndState' = [waitersAndState EXCEPT ![Target[w]].state = @ + NodeWaiters]
  /\ GotoThen(w, "return")
  /\ UNCHANGED <<payload, life, node, oldValue, sets, work>>

(* moveState keeps whatever list the word points to by now. *)
ClaimSlot(w) ==
  /\ pcThen[w] = "claimSlot" /\ WordOf(w).state = oldValue[w].state
  /\ SetWord(Target[w], WordOf(w).head, oldValue[w].state + 1)
  /\ oldValue' = [oldValue EXCEPT ![w] = [head |-> WordOf(w).head, state |-> @.state + 1]]
  /\ GotoThen(w, "setWaiter")
  /\ UNCHANGED <<payload, life, node, sets, work>>

(* A compare-exchange found another state: start over with what it read. *)
ClaimFails(w) ==
  /\ pcThen[w] \in {"claimInline", "claimSlot"}
  /\ WordOf(w).state # oldValue[w].state
  /\ Dispatch(w)

SetWaiter(w) ==
  /\ pcThen[w] = "setWaiter"
  /\ node' = [node EXCEPT ![oldValue[w].head].waiters[numValid(oldValue[w].state)] = w]
  /\ GotoThen(w, "setInitialized")
  /\ UNCHANGED <<word, life, oldValue, sets, work>>

SetInitialized(w) ==
  /\ pcThen[w] = "setInitialized"
  /\ node' = [node EXCEPT ![oldValue[w].head].initialized =
                @ \cup {numValid(oldValue[w].state)}]
  /\ GotoThen(w, "return")
  /\ UNCHANGED <<word, life, oldValue, sets, work>>

(* A new node, whose first waiter this is, before the full list. *)
Install(w) ==
  /\ pcThen[w] = "install" /\ WordOf(w) = oldValue[w]
  /\ node' = [node EXCEPT ![w] =
       [FreeNode EXCEPT !.live = TRUE, !.waiters[1] = w, !.next = oldValue[w].head]]
  /\ SetWord(Target[w], w, Valid(1))
  /\ GotoThen(w, "return")
  /\ UNCHANGED <<payload, life, oldValue, sets, work>>

InstallFails_DropsWaiter(w) ==
  /\ pcThen[w] = "install"
  /\ \/ /\ isReady(WordOf(w).state)
        /\ GotoThen(w, "return")
        /\ UNCHANGED <<word, life, node, oldValue, sets, work>>
     \/ /\ ~isReady(WordOf(w).state)
        /\ Dispatch(w)

(* The exchange failed, perhaps spuriously, and the node is deleted: the   *)
(* waiter is left to the work queue if the value became ready.             *)
InstallFails(w) ==
  /\ pcThen[w] = "install"
  /\ \/ /\ isReady(WordOf(w).state)
        /\ queued' = queued \cup {w}
        /\ GotoThen(w, "return")
        /\ UNCHANGED <<word, life, node, oldValue, sets, ran>>
     \/ /\ ~isReady(WordOf(w).state)
        /\ Dispatch(w)

(* andThenSync returns and a user drops the reference it called through;   *)
(* the reference of a resolve closure went into the closure.               *)
Return(w) ==
  /\ pcThen[w] = "return"
  /\ GotoThen(w, "done")
  /\ IF w \in Users THEN dropRef(Target[w]) ELSE UNCHANGED life
  /\ UNCHANGED <<word, node, oldValue, sets, work>>

RunQueued(w) ==
  /\ w \in queued
  /\ queued' = queued \ {w}
  /\ Run(w)
  /\ UNCHANGED <<word, life, node, thens, setLocals>>

(***************************************************************************)
(* emplaceAndDecRef, setToErrorAndDecRef and resolveIndirectAndDecRef      *)
(***************************************************************************)
GotoSet(v, label) == pcSet' = [pcSet EXCEPT ![v] = label]

CompleteConcrete(v) ==
  /\ v \in Concretes /\ pcSet[v] = "call"
  /\ \E s \in {kAvailable, kError} : newState' = [newState EXCEPT ![v] = s]
  /\ GotoSet(v, "remove")
  /\ UNCHANGED <<word, life, node, thens, newValue, inlineWaiter, list, work>>

ResolveReady_NoCollapse(v) ==
  LET state == waitersAndState[newValue[v]].state IN
  /\ v \in Indirects /\ pcSet[v] \in {"call", "resolve"} /\ isReady(state)
  /\ newState' = [newState EXCEPT ![v] = state]
  /\ GotoSet(v, "remove")
  /\ UNCHANGED <<word, life, node, thens, newValue, inlineWaiter, list, work>>

(* The new value is ready: collapse through it if it is indirect itself. *)
ResolveReady(v) ==
  LET new == newValue[v]
      state == waitersAndState[new].state
  IN
  /\ v \in Indirects /\ pcSet[v] \in {"call", "resolve"} /\ isReady(state)
  /\ newState' = [newState EXCEPT ![v] = state]
  /\ IF new \in Indirects
       THEN /\ newValue' = [newValue EXCEPT ![v] = payload[new].of]
            /\ moveRef(new, payload[new].of)
       ELSE UNCHANGED <<newValue, life>>
  /\ GotoSet(v, "remove")
  /\ UNCHANGED <<word, node, thens, inlineWaiter, list, work>>

ResolveLater(v) ==
  /\ v \in Indirects /\ pcSet[v] \in {"call", "resolve"}
  /\ ~isReady(waitersAndState[newValue[v]].state)
  /\ GotoSet(v, "waiting")
  /\ GotoThen(v, "call")
  /\ UNCHANGED <<word, life, node, oldValue, setLocals, work>>

(* removeAnyInlineWaiter: without an inline waiter the state moves on so   *)
(* that none can be added; otherwise the waiter is moved out.              *)
RemoveNoWaiter(v) ==
  /\ pcSet[v] = "remove" /\ waitersAndState[v].state = kUnconstructed
  /\ SetWord(v, Null, Valid(NodeWaiters))
  /\ GotoSet(v, "construct")
  /\ UNCHANGED <<payload, life, node, thens, setLocals, work>>

RemoveFindsWaiter(v) ==
  /\ pcSet[v] = "remove"
  /\ waitersAndState[v].state \notin
       {kUnconstructed, kUnconstructedInitializingInlineWaiter}
  /\ GotoSet(v, "take")
  /\ UNCHANGED <<word, life, node, thens, setLocals, work>>

TakeInlineWaiter(v) ==
  /\ pcSet[v] = "take"
  /\ inlineWaiter' = [inlineWaiter EXCEPT ![v] = payload[v].of]
  /\ payload' = [payload EXCEPT ![v] = Nothing]
  /\ GotoSet(v, "construct")
  /\ UNCHANGED <<waitersAndState, life, node, thens, newValue, newState, list, work>>

Construct(v) ==
  /\ pcSet[v] = "construct"
  /\ payload' = [payload EXCEPT ![v] =
       IF v \in Indirects THEN Ref(newValue[v]) ELSE Result(newState[v])]
  /\ GotoSet(v, "exchange")
  /\ UNCHANGED <<waitersAndState, life, node, thens, setLocals, work>>

Exchange_AlwaysAvailable(v) ==
  /\ pcSet[v] = "exchange"
  /\ list' = [list EXCEPT ![v] = [head |-> waitersAndState[v].head,
                                  valid |-> numValid(waitersAndState[v].state)]]
  /\ SetWord(v, Null, IF v \in Indirects THEN kAvailable ELSE newState[v])
  /\ GotoSet(v, "dropRef")
  /\ UNCHANGED <<payload, life, node, thens, newValue, newState, inlineWaiter, work>>

(* notifyReadyAndDecRef *)
Exchange(v) ==
  /\ pcSet[v] = "exchange"
  /\ list' = [list EXCEPT ![v] = [head |-> waitersAndState[v].head,
                                  valid |-> numValid(waitersAndState[v].state)]]
  /\ SetWord(v, Null, newState[v])
  /\ GotoSet(v, "dropRef")
  /\ UNCHANGED <<payload, life, node, thens, newValue, newState, inlineWaiter, work>>

NotifyDropRef(v) ==
  /\ pcSet[v] = "dropRef"
  /\ dropRef(v)
  /\ GotoSet(v, "extra")
  /\ UNCHANGED <<word, node, thens, setLocals, work>>

RunInlineWaiter_Skipped(v) ==
  /\ pcSet[v] = "extra"
  /\ GotoSet(v, "list")
  /\ UNCHANGED <<word, life, node, thens, setLocals, work>>

(* A waiter that was moved out runs later; the moved-from place is empty. *)
RunInlineWaiter(v) ==
  /\ pcSet[v] = "extra"
  /\ queued' = queued \cup ({inlineWaiter[v]} \ {Null})
  /\ inlineWaiter' = [inlineWaiter EXCEPT ![v] = Null]
  /\ GotoSet(v, "list")
  /\ UNCHANGED <<word, life, node, thens, newValue, newState, list, ran>>

(* runWaitersAndDeallocate, one node: its first waiter ... *)
RunFirst(v) ==
  LET n == list[v].head IN
  /\ pcSet[v] = "list" /\ n # Null
  /\ queued' = queued \cup {node[n].waiters[1]}
  /\ node' = [node EXCEPT ![n].waiters[1] = Null]
  /\ GotoSet(v, "rest")
  /\ UNCHANGED <<word, life, thens, setLocals, ran>>

RunRest_NoSpin(v) ==
  LET n == list[v].head IN
  /\ pcSet[v] = "rest"
  /\ queued' = queued \cup ({node[n].waiters[k] : k \in 2..list[v].valid} \ {Null})
  /\ list' = [list EXCEPT ![v] = [head |-> node[n].next, valid |-> NodeWaiters]]
  /\ node' = [node EXCEPT ![n] = FreeNode]
  /\ GotoSet(v, "list")
  /\ UNCHANGED <<word, life, thens, newValue, newState, inlineWaiter, ran>>

(* ... and the others, when the threads that claimed their slots are done. *)
RunRest(v) ==
  LET n == list[v].head
      slots == 2..list[v].valid
  IN
  /\ pcSet[v] = "rest" /\ node[n].initialized = slots
  /\ queued' = queued \cup {node[n].waiters[k] : k \in slots}
  /\ list' = [list EXCEPT ![v] = [head |-> node[n].next, valid |-> NodeWaiters]]
  /\ node' = [node EXCEPT ![n] = FreeNode]
  /\ GotoSet(v, "list")
  /\ UNCHANGED <<word, life, thens, newValue, newState, inlineWaiter, ran>>

ListDone(v) ==
  /\ pcSet[v] = "list" /\ list[v].head = Null
  /\ GotoSet(v, "done")
  /\ UNCHANGED <<word, life, node, thens, setLocals, work>>

(***************************************************************************)
(* The specification                                                       *)
(***************************************************************************)
ThenStep(w) ==
  \/ ClaimInline(w) \/ WriteInline(w) \/ PublishInline(w) \/ ClaimSlot(w)
  \/ ClaimFails(w) \/ SetWaiter(w) \/ SetInitialized(w) \/ Install(w)
  \/ InstallFails(w) \/ Return(w) \/ Load(w)

SetStep(v) ==
  \/ CompleteConcrete(v) \/ ResolveReady(v) \/ ResolveLater(v) \/ RemoveNoWaiter(v)
  \/ RemoveFindsWaiter(v) \/ TakeInlineWaiter(v) \/ Construct(v) \/ Exchange(v)
  \/ NotifyDropRef(v) \/ RunInlineWaiter(v) \/ RunFirst(v) \/ RunRest(v) \/ ListDone(v)

AllDone ==
  /\ \A w \in Waiters : pcThen[w] \in {"none", "done"}
  /\ \A v \in Values : pcSet[v] = "done"
  /\ queued = {}

Finished == AllDone /\ UNCHANGED vars

Next ==
  \/ \E w \in Waiters : ThenStep(w) \/ RunQueued(w)
  \/ \E v \in Values : SetStep(v)
  \/ Finished

Spec == Init /\ [][Next]_vars

(* Some thread that can take a step does.  A spin that loads the same word *)
(* again and a spurious failure of an exchange are stuttering steps.       *)
Fairness == WF_vars(Next)

FairSpec == Spec /\ Fairness

(***************************************************************************)
(* Properties                                                              *)
(***************************************************************************)
(* The value and the inline waiter share their storage: a ready value has  *)
(* its result there, with the outcome its state says, through an indirect  *)
(* value too, and a value is destroyed only when it is ready ("destroying  *)
(* a non-available AsyncValue isn't implemented").                         *)
ReadyHoldsResult ==
  /\ \A v \in Values :
       LET s == waitersAndState[v].state IN
       isReady(s) /\ v \notin destroyed =>
         \/ v \in Concretes /\ payload[v] = Result(s)
         \/ /\ v \in Indirects /\ payload[v].holds = "ref"
            /\ payload[v].of \in Concretes \ destroyed
            /\ waitersAndState[payload[v].of].state = s
  /\ \A v \in destroyed : isReady(waitersAndState[v].state)

(* Every variable has the type of its C++ counterpart, and the storage of  *)
(* a value, a union in the source, the type its state promises.            *)
TypeOK ==
  /\ \A v \in Values :
       /\ waitersAndState[v].head \in Waiters \cup {Null}
       /\ waitersAndState[v].state \in 0..kError
       /\ payload[v] \in {Nothing, Result(kAvailable), Result(kError)}
            \cup {Waiter(w) : w \in Waiters} \cup {Ref(u) : u \in Values}
       /\ inlineWaiter[v] \in Waiters \cup {Null}
       /\ newValue[v] \in Values \cup {Null}
       /\ list[v].head \in Waiters \cup {Null} /\ list[v].valid \in 0..NodeWaiters
  /\ refcount \in [Values -> Nat] /\ destroyed \subseteq Values
  /\ \A w \in Waiters :
       /\ \A k \in 1..NodeWaiters : node[w].waiters[k] \in Waiters \cup {Null}
       /\ node[w].initialized \subseteq 2..NodeWaiters
       /\ node[w].next \in Waiters \cup {Null}
  /\ queued \subseteq Waiters /\ ran \in [Waiters -> Nat]
  /\ ReadyHoldsResult

(* The places that hold a waiter: its andThen call, the inline storage,    *)
(* the slots of the nodes, the completing thread and the work queue.       *)
Held(w) ==
  LET calls == {"call", "load", "claimInline", "writeInline", "claimSlot",
                "setWaiter", "install"}
  IN (IF pcThen[w] \in calls THEN 1 ELSE 0)
     + (IF w \in queued THEN 1 ELSE 0)
     + Cardinality({v \in Values : payload[v] = Waiter(w)})
     + Cardinality({v \in Values : inlineWaiter[v] = w})
     + Cardinality({x \in Waiters \X (1..NodeWaiters) :
                      node[x[1]].live /\ node[x[1]].waiters[x[2]] = w})

(* A waiter given to andThenSync is held in one place until it has run and *)
(* in none afterwards: however registrations race with each other and with *)
(* the value becoming ready, none is dropped, overwritten or run twice.    *)
WaitersConserved ==
  \A w \in Waiters :
    IF pcThen[w] = "none" THEN Held(w) = 0 /\ ran[w] = 0 ELSE Held(w) + ran[w] = 1

(* The values and the nodes an activation may still touch. *)
UsesValue(v) ==
  \/ \E w \in Waiters :
       /\ Target[w] = v
       /\ pcThen[w] \in {"call", "load", "claimInline", "writeInline", "publishInline",
                         "claimSlot", "install"}
  \/ pcSet[v] \in {"remove", "take", "construct", "exchange", "dropRef", "resolve"}
  \/ \E u \in Indirects : pcSet[u] = "resolve" /\ newValue[u] = v
  \/ \E u \in Values \ destroyed : payload[u] = Ref(v)

UsesNode(n) ==
  \/ \E w \in Waiters :
       oldValue[w].head = n /\ pcThen[w] \in {"setWaiter", "setInitialized"}
  \/ \E v \in Values : list[v].head = n /\ pcSet[v] \in {"list", "rest"}
  \/ \E v \in Values : waitersAndState[v].head = n

(* No thread touches a value after its last reference is gone, nor a node  *)
(* after runWaitersAndDeallocate has deleted it, although notify drops the *)
(* reference before it runs the waiters and a resolve closure takes its    *)
(* reference along.                                                        *)
NoUseAfterFree ==
  /\ \A v \in destroyed : ~UsesValue(v)
  /\ \A n \in Waiters : UsesNode(n) => node[n].live

(* A value becomes ready once, and waiters run when it is: the promise of  *)
(* the abstract future.                                                    *)
F == INSTANCE Future WITH
  state <- [v \in Values |-> CASE waitersAndState[v].state = kAvailable -> "available"
                               [] waitersAndState[v].state = kError -> "error"
                               [] OTHER -> "pending"]

ImplementsFuture == F!FutureSpec

(* From some moment on every waiter of a ready value has run, also one     *)
(* whose andThenSync raced with the completion: a value stays ready, so    *)
(* none is forgotten.                                                      *)
WaitersRun ==
  <>[](\A w \in Waiters :
         pcThen[w] \notin {"none", "call"} /\ isReady(WordOf(w).state) => ran[w] = 1)

(* All references are dropped in the end: nothing leaks.                   *)
NothingLeaks ==
  AllDone => destroyed = Values /\ \A n \in Waiters : ~node[n].live
=============================================================================
