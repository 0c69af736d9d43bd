-------------------------- MODULE AsyncValueSteps --------------------------
(***************************************************************************)
(* The steps of AsyncValue that complete a value keep its invariant, and   *)
(* every step is one of the abstract future or none.                       *)
(***************************************************************************)
EXTENDS AsyncValueInvariant

\* The prover of every leaf that names no other.
USE ZenonT(120)

-----------------------------------------------------------------------------
(***************************************************************************)
(* Completions                                                             *)
(***************************************************************************)
(* A concrete value's outcome is given. *)
LEMMA CompleteConcreteInv ==
  ASSUME AsyncInv, NEW v \in Values, CompleteConcrete(v)
  PROVE  AsyncInv'
<1> USE Constants
<1>1. /\ v \in Concretes /\ pcSet[v] = "call" /\ pcSet'[v] = "remove"
      /\ \A x \in Values \ {v} : pcSet'[x] = pcSet[x] /\ newState'[x] = newState[x]
      /\ newState'[v] \in {kAvailable, kError}
      /\ UNCHANGED <<waitersAndState, payload, node, pcThen, oldValue, newValue,
                     inlineWaiter, list, queued, ran, refcount, destroyed>>
  BY TypesHold DEF Types, CompleteConcrete, GotoSet, word, thens, life, work
<1>2. ReadyKept /\ LinksKept
  BY <1>1 DEF ReadyKept, LinksKept
<1>3. Types'
  <2>1. pcSet' \in [Values -> BeforeReady \cup AfterReady]
    BY TypesHold DEF Types, CompleteConcrete, GotoSet, BeforeReady, BeforeTake
  <2>2. newState' \in [Values -> {kUnconstructed, kAvailable, kError}]
    BY TypesHold DEF Types, CompleteConcrete
  <2> QED
    BY <1>1, <2>1, <2>2, TypesHold DEF Types
<1>4. WordInv' /\ PayloadInv'
  BY <1>1, WordsHold, PayloadsHold, SMTT(60)
     DEF WordInv, WordAt, PayloadInv, PayloadAt, AfterReady, BeforeTake, Resolving
<1>11. ListInv'
  BY <1>1, ListsHold DEF ListInv
<1>5. SetInv'
  <2>1. OutcomeInv'
    BY <1>1, SetsHold DEF SetInv, OutcomeInv, Resolving
  <2>2. ASSUME NEW x \in Indirects PROVE SetAt(x)'
    BY <1>1, SetsHold, SMTT(60) DEF SetInv, SetAt, Resolving
  <2> QED
    BY <2>1, <2>2 DEF SetInv
<1>6. ReadInv' /\ WriteInv' /\ ReadyInv'
  BY <1>1, <1>2, ReadsQuiet, WritesQuiet, ReadyQuiet, ReadsHold, WritesHold, ReadyHolds
     DEF Writing
<1>7. NodeInv' /\ ReachInv'
  BY <1>2, NodesQuiet, TypesHold, NodesHold, ReachHolds
<1>8. SlotInv'
  BY <1>1, <1>2, SlotsQuiet, SlotsHold DEF Claiming
<1>9. PlacesInv'
  BY <1>1, PlacesQuiet, PlacesHold DEF Calling, Known
<1>10. RefInv'
  BY <1>1, RefsQuiet, RefsHold DEF OwnersKept, BeforeReady, BeforeTake, Resolving
<1> QED
  BY <1>3, <1>4, <1>5, <1>6, <1>7, <1>8, <1>9, <1>10, <1>11 DEF AsyncInv

(* Without an inline waiter the state moves on so that none can be added. *)
LEMMA RemoveNoWaiterInv ==
  ASSUME AsyncInv, NEW v \in Values, RemoveNoWaiter(v)
  PROVE  AsyncInv'
<1> USE Constants
<1>1. /\ pcSet[v] = "remove" /\ waitersAndState[v].state = 0
      /\ waitersAndState[v].head = Null /\ payload[v] = Nothing
  BY WordsHold, PayloadsHold DEF WordInv, WordAt, PayloadInv, PayloadAt, RemoveNoWaiter
<1>2. /\ pcSet'[v] = "construct"
      /\ \A x \in Values \ {v} : pcSet'[x] = pcSet[x] /\ waitersAndState'[x] = waitersAndState[x]
      /\ waitersAndState'[v].head = Null /\ waitersAndState'[v].state = NodeWaiters + 1
      /\ UNCHANGED <<payload, node, pcThen, oldValue, newValue, newState,
                     inlineWaiter, list, queued, ran, refcount, destroyed>>
  BY TypesHold DEF Types, RemoveNoWaiter, SetWord, GotoSet, thens, life, setLocals, work
<1>3. ReadyKept /\ LinksKept
  BY <1>1, <1>2, SMTT(60) DEF ReadyKept, LinksKept
<1>4. Types'
  <2>1. pcSet' \in [Values -> BeforeReady \cup AfterReady]
    BY TypesHold DEF Types, RemoveNoWaiter, GotoSet, BeforeReady
  <2>2. waitersAndState' \in [Values -> Words]
    BY TypesHold, SMTT(60) DEF Types, RemoveNoWaiter, SetWord, Words
  <2> QED
    BY <1>2, <2>1, <2>2, TypesHold DEF Types
<1>5. WordInv' /\ PayloadInv'
  BY <1>1, <1>2, WordsHold, PayloadsHold, SMTT(60)
     DEF WordInv, WordAt, PayloadInv, PayloadAt, AfterReady, BeforeTake, Resolving
<1>6. ListInv'
  BY <1>1, <1>2, ListsHold, SMTT(60) DEF ListInv
<1>7. SetInv'
  BY <1>1, <1>2, <1>3, SetsQuiet, TypesHold, WordsHold, SetsHold DEF Resolving
<1>8. ReadInv' /\ ReadyInv'
  BY <1>2, <1>3, ReadsQuiet, ReadyQuiet, ReadsHold, ReadyHolds
<1>9. WriteInv'
  <2>1. \A u \in Waiters : Writing(u) => Target[u] # v
    BY <1>1, WritesHold, SMTT(60) DEF WriteInv, WriteAt, WordOf
  <2> QED
    BY <1>1, <1>2, <2>1, WritesQuiet, WritesHold DEF Writing
<1>10. NodeInv' /\ ReachInv'
  BY <1>3, NodesQuiet, TypesHold, NodesHold, ReachHolds
<1>11. SlotInv'
  BY <1>1, <1>2, <1>3, SlotsQuiet, SlotsHold, SMTT(60) DEF Claiming
<1>12. PlacesInv'
  BY <1>2, PlacesQuiet, PlacesHold DEF Calling, Known
<1>13. RefInv'
  BY <1>1, <1>2, RefsQuiet, RefsHold DEF OwnersKept, BeforeReady, BeforeTake
<1> QED
  BY <1>4, <1>5, <1>6, <1>7, <1>8, <1>9, <1>10, <1>11, <1>12, <1>13 DEF AsyncInv

(* A step of a completion that changes nothing but where it is. *)
LEMMA MoveOnInv ==
  ASSUME AsyncInv, NEW v \in Values, RemoveFindsWaiter(v) \/ ListDone(v)
  PROVE  AsyncInv'
<1> USE Constants
<1>1. \/ /\ pcSet[v] = "remove" /\ pcSet'[v] = "take"
         /\ waitersAndState[v].state \notin {0, 1}
      \/ pcSet[v] = "list" /\ pcSet'[v] = "done" /\ list[v].head = Null
  BY TypesHold DEF Types, RemoveFindsWaiter, ListDone, GotoSet
<1>2. /\ \A x \in Values \ {v} : pcSet'[x] = pcSet[x]
      /\ UNCHANGED <<waitersAndState, payload, node, pcThen, oldValue, newValue, newState,
                     inlineWaiter, list, queued, ran, refcount, destroyed>>
  BY TypesHold
     DEF Types, RemoveFindsWaiter, ListDone, GotoSet, word, thens, life, setLocals, work
<1>3. ReadyKept /\ LinksKept
  BY <1>2 DEF ReadyKept, LinksKept
<1>4. Types'
  <2>1. pcSet' \in [Values -> BeforeReady \cup AfterReady]
    <3>1. {"take", "done"} \subseteq BeforeReady \cup AfterReady
      BY DEF BeforeReady, AfterReady
    <3> QED
      BY <3>1, TypesHold, SMTT(60) DEF Types, RemoveFindsWaiter, ListDone, GotoSet
  <2> QED
    BY <1>2, <2>1, TypesHold DEF Types
<1>5. WordInv' /\ PayloadInv'
  BY <1>1, <1>2, WordsHold, PayloadsHold, SMTT(60)
     DEF WordInv, WordAt, PayloadInv, PayloadAt, AfterReady, BeforeTake, Resolving
<1>6. ListInv'
  BY <1>1, <1>2, ListsHold DEF ListInv
<1>7. SetInv'
  BY <1>1, <1>2, <1>3, SetsQuiet, TypesHold, WordsHold, SetsHold DEF Resolving
<1>8. ReadInv' /\ ReadyInv' /\ WriteInv'
  BY <1>2, <1>3, ReadsQuiet, ReadyQuiet, WritesQuiet, ReadsHold, ReadyHolds, WritesHold
     DEF Writing
<1>9. NodeInv' /\ ReachInv'
  BY <1>3, NodesQuiet, TypesHold, NodesHold, ReachHolds
<1>10. SlotInv'
  BY <1>1, <1>2, <1>3, SlotsQuiet, SlotsHold DEF Claiming
<1>11. PlacesInv'
  BY <1>2, PlacesQuiet, PlacesHold DEF Calling, Known
<1>12. RefInv'
  BY <1>1, <1>2, RefsQuiet, RefsHold DEF OwnersKept, BeforeReady, BeforeTake, AfterReady
<1> QED
  BY <1>4, <1>5, <1>6, <1>7, <1>8, <1>9, <1>10, <1>11, <1>12 DEF AsyncInv

(* The inline waiter is moved out of the storage. *)
LEMMA TakeInlineWaiterInv ==
  ASSUME AsyncInv, NEW v \in Values, TakeInlineWaiter(v)
  PROVE  AsyncInv'
<1> USE Constants
<1>1. /\ pcSet[v] = "take" /\ inlineWaiter[v] = Null
      /\ waitersAndState[v].state \notin {0, 1, NodeWaiters + 2, NodeWaiters + 3}
      /\ waitersAndState[v].state \in 0..NodeWaiters + 3
  <2>1. pcSet[v] = "take" /\ "take" \notin BeforeTake /\ "take" \notin AfterReady
    BY DEF TakeInlineWaiter, BeforeTake, Resolving, AfterReady
  <2>2. waitersAndState[v].state \in 0..NodeWaiters + 3 /\ inlineWaiter[v] = Null
    BY <2>1, TypesHold, ListsHold DEF Types, Words, ListInv
  <2> QED
    BY <2>1, <2>2, WordsHold, SMTT(60) DEF WordInv, WordAt
<1>2. PICK w \in Waiters : Target[w] = v /\ payload[v] = Waiter(w) /\ payload[v].of = w
  BY <1>1, Payloads, PayloadsHold, SMTT(60) DEF PayloadInv, PayloadAt
<1>3. /\ pcSet'[v] = "construct" /\ inlineWaiter'[v] = w /\ payload'[v] = Nothing
      /\ \A x \in Values \ {v} : /\ pcSet'[x] = pcSet[x] /\ inlineWaiter'[x] = inlineWaiter[x]
                                 /\ payload'[x] = payload[x]
      /\ UNCHANGED <<waitersAndState, node, pcThen, oldValue, newValue, newState,
                     list, queued, ran, refcount, destroyed>>
  BY <1>2, TypesHold DEF Types, TakeInlineWaiter, GotoSet, thens, life, work
<1>4. ReadyKept /\ LinksKept
  BY <1>3 DEF ReadyKept, LinksKept
<1>5. Types'
  <2>1. pcSet' \in [Values -> BeforeReady \cup AfterReady]
    BY TypesHold DEF Types, TakeInlineWaiter, GotoSet, BeforeReady
  <2>2. inlineWaiter' \in [Values -> Waiters \cup {Null}] /\ DOMAIN payload' = Values
    BY <1>2, TypesHold DEF Types, TakeInlineWaiter
  <2> QED
    BY <1>3, <2>1, <2>2, TypesHold DEF Types
<1>6. WordInv' /\ PayloadInv'
  BY <1>1, <1>3, WordsHold, PayloadsHold, SMTT(60)
     DEF WordInv, WordAt, PayloadInv, PayloadAt, AfterReady, BeforeTake, Resolving
<1>7. ListInv'
  BY <1>1, <1>3, ListsHold DEF ListInv
<1>8. SetInv'
  BY <1>1, <1>3, <1>4, SetsQuiet, TypesHold, WordsHold, SetsHold DEF Resolving
<1>9. ReadInv' /\ ReadyInv'
  BY <1>3, <1>4, ReadsQuiet, ReadyQuiet, ReadsHold, ReadyHolds
<1>10. WriteInv'
  <2>1. \A u \in Waiters : Writing(u) => Target[u] # v
    BY <1>1, WritesHold DEF WriteInv, WriteAt, WordOf
  <2> QED
    BY <1>3, <2>1, WritesQuiet, WritesHold DEF Writing
<1>11. NodeInv' /\ ReachInv'
  BY <1>4, NodesQuiet, TypesHold, NodesHold, ReachHolds
<1>12. SlotInv'
  BY <1>1, <1>3, <1>4, SlotsQuiet, SlotsHold DEF Claiming
<1>13. PlacesInv'
  <2>1. Calling' = Calling /\ Known' = Known /\ InSlots' = InSlots /\ HasRun' = HasRun
    BY <1>3, SMTT(60) DEF Calling, Known, InSlots, HasRun
  <2>2. Inline' = Inline \ {w} /\ w \in Inline
    BY <1>2, <1>3, Payloads, SMTT(60) DEF Inline
  <2>3. MovedOut' = MovedOut \cup {w}
    BY <1>1, <1>2, <1>3, SMTT(60) DEF MovedOut
  <2>4. AtTarget'
    BY <1>2, <1>3, Payloads, PlacesHold, SMTT(60) DEF PlacesInv, AtTarget
  <2>5. UNCHANGED <<queued, node>>
    BY <1>3
  <2>6. PlacedOnce'
    <3> HIDE Constants
    <3> QED
      BY <2>1, <2>2, <2>3, <2>5, PlacesHold, SMTT(60) DEF PlacesInv, PlacedOnce
  <2>7. SlotsDiffer'
    BY <2>5, SlotsDifferQuiet, PlacesHold DEF PlacesInv
  <2> QED
    BY <2>4, <2>6, <2>7 DEF PlacesInv
<1>14. RefInv'
  BY <1>1, <1>3, RefsQuiet, RefsHold DEF OwnersKept, BeforeReady
<1> QED
  BY <1>5, <1>6, <1>7, <1>8, <1>9, <1>10, <1>11, <1>12, <1>13, <1>14 DEF AsyncInv

(* The result is constructed in the storage. *)
LEMMA ConstructInv ==
  ASSUME AsyncInv, NEW v \in Values, Construct(v)
  PROVE  AsyncInv'
<1> USE Constants
<1> DEFINE p == IF v \in Indirects THEN Ref(newValue[v]) ELSE Result(newState[v])
<1>1. /\ pcSet[v] = "construct" /\ payload[v] = Nothing
      /\ waitersAndState[v].state \notin {0, 1, NodeWaiters + 2, NodeWaiters + 3}
      /\ \A w \in Waiters : p # Waiter(w)
  BY Payloads, WordsHold, PayloadsHold, SMTT(60)
     DEF WordInv, WordAt, PayloadInv, PayloadAt, Construct, BeforeTake, Resolving, AfterReady
<1>2. /\ pcSet'[v] = "exchange" /\ payload'[v] = p
      /\ \A x \in Values \ {v} : pcSet'[x] = pcSet[x] /\ payload'[x] = payload[x]
      /\ UNCHANGED <<waitersAndState, node, pcThen, oldValue, newValue, newState,
                     inlineWaiter, list, queued, ran, refcount, destroyed>>
  BY TypesHold DEF Types, Construct, GotoSet, thens, life, setLocals, work
<1>3. ReadyKept /\ LinksKept
  BY <1>2 DEF ReadyKept, LinksKept
<1>4. Types'
  <2>1. pcSet' \in [Values -> BeforeReady \cup AfterReady]
    BY TypesHold DEF Types, Construct, GotoSet, BeforeReady
  <2>2. DOMAIN payload' = Values
    BY TypesHold DEF Types, Construct
  <2> QED
    BY <1>2, <2>1, <2>2, TypesHold DEF Types
<1>5. WordInv' /\ PayloadInv'
  BY <1>1, <1>2, WordsHold, PayloadsHold, SMTT(60)
     DEF WordInv, WordAt, PayloadInv, PayloadAt, AfterReady, BeforeTake, Resolving
<1> HIDE DEF p
<1>6. ListInv'
  BY <1>1, <1>2, ListsHold DEF ListInv
<1>7. SetInv'
  BY <1>1, <1>2, <1>3, SetsQuiet, TypesHold, WordsHold, SetsHold DEF Resolving
<1>8. ReadInv' /\ ReadyInv'
  BY <1>2, <1>3, ReadsQuiet, ReadyQuiet, ReadsHold, ReadyHolds
<1>9. WriteInv'
  <2>1. \A u \in Waiters : Writing(u) => Target[u] # v
    BY <1>1, WritesHold DEF WriteInv, WriteAt, WordOf
  <2> QED
    BY <1>2, <2>1, WritesQuiet, WritesHold DEF Writing
<1>10. NodeInv' /\ ReachInv'
  BY <1>3, NodesQuiet, TypesHold, NodesHold, ReachHolds
<1>11. SlotInv'
  BY <1>1, <1>2, <1>3, SlotsQuiet, SlotsHold DEF Claiming
<1>12. PlacesInv'
  <2>1. /\ Calling' = Calling /\ Known' = Known /\ InSlots' = InSlots /\ HasRun' = HasRun
        /\ MovedOut' = MovedOut
    <3>1. UNCHANGED <<pcThen, node, ran, inlineWaiter>>
      BY <1>2
    <3> QED
      BY <3>1 DEF Calling, Known, InSlots, HasRun, MovedOut
  <2>2. \A x \in Values : \A u \in Waiters : payload'[x] = Waiter(u) <=> payload[x] = Waiter(u)
    BY <1>1, <1>2, Payloads
  <2>3. Inline' = Inline
    BY <2>2 DEF Inline
  <2>4. UNCHANGED <<queued, node, inlineWaiter>>
    BY <1>2
  <2>5. PlacedOnce'
    <3> HIDE Constants
    <3> QED
      BY <2>1, <2>3, <2>4, PlacesHold, SMTT(60) DEF PlacesInv, PlacedOnce
  <2>6. AtTarget'
    BY <2>2, <2>4, PlacesHold DEF PlacesInv, AtTarget
  <2>7. SlotsDiffer'
    BY <2>4, SlotsDifferQuiet, PlacesHold DEF PlacesInv
  <2> QED
    BY <2>5, <2>6, <2>7 DEF PlacesInv
<1>13. RefInv'
  BY <1>1, <1>2, RefsQuiet, RefsHold DEF OwnersKept, BeforeReady
<1> QED
  BY <1>4, <1>5, <1>6, <1>7, <1>8, <1>9, <1>10, <1>11, <1>12, <1>13 DEF AsyncInv

(* The waiter that was moved out goes to the work queue. *)
LEMMA RunInlineWaiterInv ==
  ASSUME AsyncInv, NEW v \in Values, RunInlineWaiter(v)
  PROVE  AsyncInv'
<1> USE Constants
<1>1. /\ pcSet[v] = "extra" /\ isReady(waitersAndState[v].state)
      /\ inlineWaiter[v] \in Waiters \cup {Null}
      /\ inlineWaiter[v] # Null => Target[inlineWaiter[v]] = v
  <2>1. pcSet[v] = "extra" /\ isReady(waitersAndState[v].state)
    BY WordsHold DEF WordInv, WordAt, AfterReady, RunInlineWaiter
  <2>2. inlineWaiter[v] \in Waiters \cup {Null}
    BY TypesHold DEF Types
  <2> QED
    BY <2>1, <2>2, PlacesHold DEF PlacesInv, AtTarget
<1>2. /\ pcSet'[v] = "list" /\ inlineWaiter'[v] = Null
      /\ \A x \in Values \ {v} : pcSet'[x] = pcSet[x] /\ inlineWaiter'[x] = inlineWaiter[x]
      /\ queued' = queued \cup ({inlineWaiter[v]} \ {Null})
      /\ UNCHANGED <<waitersAndState, payload, node, pcThen, oldValue, newValue, newState,
                     list, ran, refcount, destroyed>>
  BY TypesHold DEF Types, RunInlineWaiter, GotoSet, word, thens, life
<1>3. ReadyKept /\ LinksKept
  BY <1>2 DEF ReadyKept, LinksKept
<1>4. Types'
  <2>1. pcSet' \in [Values -> BeforeReady \cup AfterReady]
    BY TypesHold DEF Types, RunInlineWaiter, GotoSet, AfterReady
  <2>2. inlineWaiter' \in [Values -> Waiters \cup {Null}] /\ queued' \subseteq Waiters
    BY <1>1, TypesHold DEF Types, RunInlineWaiter
  <2> QED
    BY <1>2, <2>1, <2>2, TypesHold DEF Types
<1>5. WordInv' /\ PayloadInv'
  <2>1. \A x \in Values : StageKept(x)
    BY <1>1, <1>2 DEF StageKept, BeforeTake, Resolving, AfterReady
  <2>2. \A x \in Values : WordAt(x)'
    BY <1>2, <2>1, WordsQuiet, TypesHold, WordsHold
  <2>3. \A x \in Values : PayloadAt(x)'
    BY <1>2, <2>1, PayloadsQuiet, PayloadsHold
  <2> QED
    BY <2>2, <2>3 DEF WordInv, PayloadInv
<1>6. ListInv'
  BY <1>1, <1>2, ListsHold DEF ListInv
<1>7. SetInv'
  BY <1>1, <1>2, <1>3, SetsQuiet, TypesHold, WordsHold, SetsHold DEF Resolving
<1>8. ReadInv' /\ WriteInv'
  BY <1>2, <1>3, ReadsQuiet, WritesQuiet, ReadsHold, WritesHold DEF Writing
<1>9. ReadyInv'
  BY <1>1, <1>2, ReadyHolds DEF ReadyInv, WordOf
<1>10. NodeInv' /\ ReachInv'
  BY <1>3, NodesQuiet, TypesHold, NodesHold, ReachHolds
<1>11. SlotInv'
  BY <1>1, <1>2, <1>3, SlotsQuiet, SlotsHold DEF Claiming
<1>12. PlacesInv'
  <2>1. /\ Calling' = Calling /\ Known' = Known /\ InSlots' = InSlots /\ HasRun' = HasRun
        /\ Inline' = Inline
    BY <1>2, SMTT(60) DEF Calling, Known, InSlots, HasRun, Inline
  <2>2. MovedOut' = MovedOut \ {inlineWaiter[v]}
    BY <1>1, <1>2, SMTT(60) DEF MovedOut
  <2>3. inlineWaiter[v] # Null => inlineWaiter[v] \in MovedOut
    BY <1>1 DEF MovedOut
  <2>4. inlineWaiter[v] = Null => MovedOut' = MovedOut /\ queued' = queued
    BY <1>2, <2>2, SMTT(60) DEF MovedOut
  <2>5. inlineWaiter[v] # Null => queued' = queued \cup {inlineWaiter[v]}
    BY <1>2
  <2>6. \A x \in Values : \A u \in Waiters : inlineWaiter'[x] = u => inlineWaiter[x] = u
    BY <1>2
  <2>7. UNCHANGED <<payload, node>>
    BY <1>2
  <2>8. PlacedOnce'
    <3> HIDE Constants
    <3> QED
      BY <2>1, <2>2, <2>3, <2>4, <2>5, PlacesHold, SMTT(60) DEF PlacesInv, PlacedOnce
  <2>9. AtTarget'
    BY <2>6, <2>7, PlacesHold DEF PlacesInv, AtTarget
  <2>10. SlotsDiffer'
    BY <2>7, SlotsDifferQuiet, PlacesHold DEF PlacesInv
  <2> QED
    BY <2>8, <2>9, <2>10 DEF PlacesInv
<1>13. RefInv'
  BY <1>1, <1>2, RefsQuiet, RefsHold DEF OwnersKept, AfterReady
<1> QED
  BY <1>4, <1>5, <1>6, <1>7, <1>8, <1>9, <1>10, <1>11, <1>12, <1>13 DEF AsyncInv

(* The resolve closure becomes a waiter of the value to be resolved to. *)
LEMMA ResolveLaterInv ==
  ASSUME AsyncInv, NEW v \in Values, ResolveLater(v)
  PROVE  AsyncInv'
<1> USE Constants
<1>1. /\ v \in Indirects /\ v \in Waiters /\ v \notin Users
      /\ pcSet[v] = "call" /\ pcThen[v] = "none" /\ ran[v] = 0
      /\ newValue[v] = Target[v] /\ v \notin Known
  <2>1. /\ v \in Indirects /\ v \in Waiters /\ v \notin Users
        /\ pcSet[v] \in {"call", "resolve"} /\ newValue[v] = Target[v]
        /\ ~isReady(waitersAndState[Target[v]].state)
    BY SetsHold DEF SetInv, SetAt, Resolving, ResolveLater
  <2>2. ran[v] # 1
    BY <2>1, ReadyHolds DEF ReadyInv, WordOf
  <2>3. pcSet[v] = "call" /\ pcThen[v] = "none"
    BY <2>1, <2>2, SetsHold DEF SetInv, SetAt
  <2> QED
    BY <2>1, <2>2, <2>3, TypesHold DEF Types, Known
<1>2. /\ pcSet'[v] = "waiting" /\ pcThen'[v] = "call"
      /\ \A x \in Values \ {v} : pcSet'[x] = pcSet[x]
      /\ \A u \in Waiters \ {v} : pcThen'[u] = pcThen[u]
      /\ UNCHANGED <<waitersAndState, payload, node, oldValue, newValue, newState,
                     inlineWaiter, list, queued, ran, refcount, destroyed>>
  BY <1>1, TypesHold
     DEF Types, ResolveLater, GotoSet, GotoThen, word, life, setLocals, work
<1>3. ReadyKept /\ LinksKept
  BY <1>2 DEF ReadyKept, LinksKept
<1>4. Types'
  <2>1. pcSet' \in [Values -> BeforeReady \cup AfterReady]
    BY TypesHold DEF Types, ResolveLater, GotoSet, BeforeReady, BeforeTake, Resolving
  <2>2. pcThen' \in [Waiters -> ThenLabels]
    BY TypesHold DEF Types, ResolveLater, GotoThen, ThenLabels
  <2> QED
    BY <1>2, <2>1, <2>2, TypesHold DEF Types
<1>5. WordInv' /\ PayloadInv'
  <2>1. \A x \in Values : StageKept(x)
    BY <1>1, <1>2 DEF StageKept, BeforeTake, Resolving, AfterReady
  <2>2. \A x \in Values : WordAt(x)'
    BY <1>2, <2>1, WordsQuiet, TypesHold, WordsHold
  <2>3. \A x \in Values : PayloadAt(x)'
    BY <1>2, <2>1, PayloadsQuiet, PayloadsHold
  <2> QED
    BY <2>2, <2>3 DEF WordInv, PayloadInv
<1>6. ListInv'
  <2>1. UNCHANGED <<list, inlineWaiter, node>>
    BY <1>2
  <2>2. \A x \in Values : pcSet'[x] = pcSet[x] \/ {pcSet[x], pcSet'[x]} \subseteq BeforeTake
    BY <1>1, <1>2 DEF BeforeTake, Resolving
  <2> QED
    BY <2>1, <2>2, ListsQuiet, TypesHold, ListsHold
<1>7. SetInv'
  <2>1. OutcomeInv'
    BY <1>1, <1>2, SetsHold DEF SetInv, OutcomeInv, Resolving
  <2>2. ASSUME NEW x \in Indirects PROVE SetAt(x)'
    BY <1>1, <1>2, SetsHold, SMTT(60) DEF SetInv, SetAt, Resolving
  <2> QED
    BY <2>1, <2>2 DEF SetInv
<1>8. ReadInv' /\ WriteInv' /\ ReadyInv'
  BY <1>1, <1>2, <1>3, ReadsQuiet, WritesQuiet, ReadyQuiet, ReadsHold, WritesHold, ReadyHolds DEF Writing
<1>9. NodeInv' /\ ReachInv'
  BY <1>3, NodesQuiet, TypesHold, NodesHold, ReachHolds
<1>10. SlotInv'
  BY <1>1, <1>2, <1>3, SlotsQuiet, SlotsHold DEF Claiming
<1>11. PlacesInv'
  <2>1. Calling' = Calling \cup {v} /\ Known' = Known \cup {v}
    BY <1>1, <1>2 DEF Calling, Known
  <2>3. UNCHANGED <<payload, node, inlineWaiter, queued, ran>>
    BY <1>2
  <2>2. /\ Inline' = Inline /\ MovedOut' = MovedOut /\ InSlots' = InSlots
        /\ HasRun' = HasRun
    BY <2>3 DEF Inline, MovedOut, InSlots, HasRun
  <2>4. PlacedOnce'
    <3> HIDE Constants
    <3> QED
      BY <1>1, <2>1, <2>2, <2>3, PlacesHold, SMTT(60) DEF PlacesInv, PlacedOnce
  <2>5. AtTarget' /\ SlotsDiffer'
    BY <2>3, SlotsDifferQuiet, PlacesHold DEF PlacesInv, AtTarget
  <2> QED
    BY <2>4, <2>5 DEF PlacesInv
<1>12. RefInv'
  BY <1>1, <1>2, RefsQuiet, RefsHold DEF OwnersKept, BeforeReady, BeforeTake, Resolving
<1> QED
  BY <1>4, <1>5, <1>6, <1>7, <1>8, <1>9, <1>10, <1>11, <1>12 DEF AsyncInv

(* The value becomes ready, and the list of its waiters is taken. *)
LEMMA ExchangeInv ==
  ASSUME AsyncInv, NEW v \in Values, Exchange(v)
  PROVE  AsyncInv'
<1> USE Constants
<1> DEFINE h == waitersAndState[v].head
           s == waitersAndState[v].state
<1>1. /\ pcSet[v] = "exchange" /\ s \in 2..NodeWaiters + 1
      /\ list[v].head = Null /\ newState[v] \in {NodeWaiters + 2, NodeWaiters + 3}
      /\ h \in Waiters \cup {Null} /\ (h # Null => node[h].live /\ Target[h] = v)
  <2>1. /\ pcSet[v] = "exchange" /\ "exchange" \notin BeforeTake
        /\ "exchange" \notin AfterReady /\ "exchange" \notin Resolving
    BY DEF Exchange, BeforeTake, Resolving, AfterReady
  <2>2. s \in 0..NodeWaiters + 3 /\ h \in Waiters \cup {Null} /\ list[v].head = Null
    BY <2>1, TypesHold, ListsHold DEF Types, Words, ListInv
  <2>3. s \notin {0, 1, NodeWaiters + 2, NodeWaiters + 3}
    BY <2>1, WordsHold, SMTT(60) DEF WordInv, WordAt
  <2>4. newState[v] \in {NodeWaiters + 2, NodeWaiters + 3}
    BY <2>1, SetsHold DEF SetInv, OutcomeInv
  <2>5. h # Null => node[h].live /\ Target[h] = v
    BY WordsHold DEF WordInv, WordAt
  <2> QED
    BY <2>1, <2>2, <2>3, <2>4, <2>5, SMTT(60)
<1>2. /\ pcSet'[v] = "dropRef"
      /\ waitersAndState'[v].head = Null /\ waitersAndState'[v].state = newState[v]
      /\ list'[v].head = h /\ list'[v].valid = numValid(s)
      /\ \A x \in Values \ {v} : /\ pcSet'[x] = pcSet[x] /\ list'[x] = list[x]
                                 /\ waitersAndState'[x] = waitersAndState[x]
      /\ UNCHANGED <<payload, node, pcThen, oldValue, newValue, newState,
                     inlineWaiter, queued, ran, refcount, destroyed>>
  BY TypesHold DEF Types, Exchange, SetWord, GotoSet, thens, life, work
<1>3. numValid(s) \in 1..NodeWaiters
  BY <1>1, SMTT(60) DEF numValid
<1>17. /\ ~isReady(s) /\ isReady(newState[v])
       /\ newState[v] \notin {kUnconstructed, kUnconstructedInitializingInlineWaiter}
       /\ newState[v] \notin Valid(1)..NodeWaiters
       /\ s # kUnconstructedInitializingInlineWaiter
  BY <1>1, SMTT(60)
<1>4. ReadyKept
  BY <1>2, <1>17 DEF ReadyKept
<1>5. Types'
  <2>1. pcSet' \in [Values -> BeforeReady \cup AfterReady]
    BY TypesHold DEF Types, Exchange, GotoSet, AfterReady
  <2>2. [head |-> Null, state |-> newState[v]] \in Words
    BY <1>1, SMTT(60) DEF Words
  <2>3. waitersAndState' \in [Values -> Words]
    BY <2>2, TypesHold DEF Types, Exchange, SetWord
  <2>4. [head |-> h, valid |-> numValid(s)] \in [head : Waiters \cup {Null}, valid : 0..NodeWaiters]
    BY <1>1, <1>3, SMTT(60)
  <2>5. list' \in [Values -> [head : Waiters \cup {Null}, valid : 0..NodeWaiters]]
    BY <2>4, TypesHold DEF Types, Exchange
  <2> QED
    BY <1>2, <2>1, <2>3, <2>5, TypesHold DEF Types
<1>6. WordInv' /\ PayloadInv'
  <2>1. \A x \in Values \ {v} : StageKept(x)
    BY <1>2 DEF StageKept
  <2>2. \A x \in Values \ {v} : WordAt(x)'
    BY <1>2, <2>1, WordsQuiet, TypesHold, WordsHold
  <2>3. \A x \in Values \ {v} : PayloadAt(x)'
    BY <1>2, <2>1, PayloadsQuiet, PayloadsHold
  <2>4. /\ pcSet'[v] \in AfterReady /\ pcSet'[v] \notin BeforeTake \cup {"take"}
        /\ pcSet'[v] # "construct" /\ UNCHANGED <<payload, newValue, newState>>
    BY <1>2 DEF AfterReady, BeforeTake, Resolving
  <2>5. WordAt(v)'
    BY <1>2, <1>17, <2>4 DEF WordAt
  <2>6. PayloadAt(v) /\ pcSet[v] \in {"exchange"} \cup AfterReady
    BY <1>1, PayloadsHold DEF PayloadInv
  <2>7. PayloadAt(v)'
    BY <1>2, <1>17, <2>4, <2>6 DEF PayloadAt
  <2> QED
    BY <2>2, <2>3, <2>5, <2>7 DEF WordInv, PayloadInv
<1>7. ListInv'
  <2>1. \A x \in Values \ {v} : /\ pcSet'[x] = pcSet[x] /\ list'[x] = list[x]
    BY <1>2
  <2>2. numValid(s) >= 1
    BY <1>3, SMTT(60)
  <2>3. UNCHANGED <<node, inlineWaiter>> /\ pcSet'[v] = "dropRef"
        /\ list'[v].head = h /\ list'[v].valid = numValid(s)
    BY <1>2
  <2>4. h # Null => node[h].live /\ Target[h] = v
    BY <1>1
  <2>5. inlineWaiter[v] # Null => pcSet'[v] \in {"construct", "exchange", "dropRef", "extra"}
    BY <2>3
  <2> HIDE DEF h, s
  <2> SUFFICES ASSUME NEW x \in Values
               PROVE  /\ inlineWaiter[x] # Null =>
                           pcSet'[x] \in {"construct", "exchange", "dropRef", "extra"}
                      /\ pcSet'[x] = "rest" => list'[x].head # Null
                      /\ list'[x].head # Null =>
                           /\ pcSet'[x] \in {"dropRef", "extra", "list", "rest"}
                           /\ node[list'[x].head].live /\ Target[list'[x].head] = x
                           /\ list'[x].valid >= 1
    BY <2>3 DEF ListInv
  <2>6. CASE x = v
    BY <2>2, <2>3, <2>4, <2>5, <2>6
  <2>7. CASE x # v
    <3>1. /\ inlineWaiter[x] # Null => pcSet[x] \in {"construct", "exchange", "dropRef", "extra"}
          /\ pcSet[x] = "rest" => list[x].head # Null
          /\ list[x].head # Null =>
               /\ pcSet[x] \in {"dropRef", "extra", "list", "rest"}
               /\ node[list[x].head].live /\ Target[list[x].head] = x /\ list[x].valid >= 1
      BY ListsHold DEF ListInv
    <3> QED
      BY <2>1, <2>7, <3>1
  <2> QED
    BY <2>6, <2>7
<1>8. SetInv'
  <2>2. pcSet[v] = "exchange" /\ pcSet'[v] = "dropRef"
        /\ \A x \in Values \ {v} : pcSet'[x] = pcSet[x]
    BY <1>1, <1>2
  <2>1. \A x \in Values : pcSet'[x] = pcSet[x] \/ {pcSet[x], pcSet'[x]} \cap Resolving = {}
    BY <2>2 DEF Resolving
  <2> QED
    BY <1>2, <1>4, <2>1, SetsQuiet, TypesHold, WordsHold, SetsHold
<1>9. ReadInv' /\ ReadyInv'
  BY <1>2, <1>4, ReadsQuiet, ReadyQuiet, ReadsHold, ReadyHolds
<1>10. WriteInv'
  <2>1. \A u \in Waiters : Writing(u) => Target[u] # v
    BY <1>17, WritesHold DEF WriteInv, WriteAt, WordOf
  <2> QED
    BY <1>2, <2>1, WritesQuiet, WritesHold DEF Writing
<1>11. \A n \in Waiters : Target[n] = v => list[v].head # n /\ waitersAndState'[v].head # n
  <2>1. list[v].head = Null /\ waitersAndState'[v].head = Null
    BY <1>1, <1>2
  <2> QED
    BY <2>1, SMTT(60)
<1>12. NodeInv'
  <2> SUFFICES ASSUME NEW n \in Waiters, NEW m \in Waiters, node[n].live, m = node[n].next
               PROVE  /\ node[m].live /\ m # n /\ Target[m] = Target[n]
                      /\ waitersAndState'[Target[n]].head # m /\ list'[Target[n]].head # m
                      /\ \A u \in Waiters \ {n} : node[u].live => node[u].next # m
    <3>1. (\A n \in Waiters : node[n].next \in Waiters \cup {Null}) /\ node' = node
      BY <1>2, TypesHold DEF Types, Nodes
    <3> QED
      BY <3>1, SMTT(60) DEF NodeInv
  <2>1. /\ node[m].live /\ m # n /\ Target[m] = Target[n]
        /\ waitersAndState[Target[n]].head # m /\ list[Target[n]].head # m
        /\ \A u \in Waiters \ {n} : node[u].live => node[u].next # m
    <3>1. node[n].live /\ node[n].next = m /\ m # Null
      OBVIOUS
    <3> QED
      BY <3>1, NextNode, NodesHold
  <2>2. CASE Target[n] = v
    BY <1>2, <2>1, <2>2
  <2>3. CASE Target[n] # v
    BY <1>2, <2>1, <2>3
  <2> QED
    BY <2>2, <2>3
<1>13. ReachInv'
  <2>1. \A n \in Waiters :
          waitersAndState[Target[n]].head = n \/ list[Target[n]].head = n
          => waitersAndState'[Target[n]].head = n \/ list'[Target[n]].head = n
    BY <1>2, <1>11
  <2> SUFFICES ASSUME NEW C \in SUBSET {n \in Waiters : node'[n].live}, C # {}
               PROVE  \E n \in C : \/ waitersAndState'[Target[n]].head = n
                                   \/ list'[Target[n]].head = n
                                   \/ \E m \in Waiters \ C : node'[m].live /\ node'[m].next = n
    BY DEF ReachInv
  <2>2. node' = node
    BY <1>2
  <2>3. C \in SUBSET {n \in Waiters : node[n].live}
    BY <2>2
  <2>4. PICK n \in C : \/ waitersAndState[Target[n]].head = n
                       \/ list[Target[n]].head = n
                       \/ \E m \in Waiters \ C : node[m].live /\ node[m].next = n
    BY <2>3, ReachHolds DEF ReachInv
  <2>5. n \in Waiters
    BY <2>3
  <2> QED
    BY <2>1, <2>2, <2>4, <2>5
<1>14. SlotInv'
  <2>1. ASSUME NEW n \in Waiters PROVE Claimed'[n] = Claimed[n]
    <3>1. CASE Target[n] = v
      BY <1>2, <1>11, <3>1 DEF Claimed
    <3>2. CASE Target[n] # v
      BY <1>2, <3>2 DEF Claimed
    <3> QED
      BY <3>1, <3>2
  <2>2. ASSUME NEW n \in Waiters PROVE SlotsAt(n)'
    <3>1. list'[Target[n]].head = n /\ pcSet'[Target[n]] = "rest"
          <=> list[Target[n]].head = n /\ pcSet[Target[n]] = "rest"
      BY <1>1, <1>2
    <3> QED
      BY <1>2, <2>1, <3>1, SlotsSame, SlotsHold DEF SlotInv
  <2>3. ASSUME NEW w \in Waiters PROVE ClaimAt(w)'
    <3>1. ClaimAt(w) /\ \A u \in Waiters : Claiming(u)' <=> Claiming(u)
      BY <1>2, SlotsHold DEF SlotInv, Claiming
    <3>2. CASE ~Claiming(w)
      BY <3>1, <3>2 DEF ClaimAt
    <3>3. CASE Claiming(w)
      <4>1. PICK n \in Waiters : n = oldValue[w].head
        BY <3>1, <3>3, TypesHold DEF ClaimAt, Types, Words
      <4> QED
        BY <1>2, <2>1, <3>1, <3>3, <4>1 DEF ClaimAt
    <3> QED
      BY <3>2, <3>3
  <2> QED
    BY <2>2, <2>3 DEF SlotInv
<1>15. PlacesInv'
  BY <1>2, PlacesQuiet, PlacesHold DEF Calling, Known
<1>16. RefInv'
  BY <1>1, <1>2, RefsQuiet, RefsHold DEF OwnersKept, BeforeReady
<1> QED
  BY <1>5, <1>6, <1>7, <1>8, <1>9, <1>10, <1>12, <1>13, <1>14, <1>15, <1>16 DEF AsyncInv

(* The first waiter of a node goes to the work queue. *)
LEMMA RunFirstInv ==
  ASSUME AsyncInv, NEW v \in Values, RunFirst(v)
  PROVE  AsyncInv'
<1> USE Constants
<1>1. PICK h \in Waiters : /\ h = list[v].head /\ node[h].live /\ Target[h] = v
                           /\ list[v].valid >= 1
  BY TypesHold, ListsHold, SMTT(60) DEF Types, ListInv, RunFirst
<1>2. /\ pcSet[v] = "list" /\ isReady(waitersAndState[v].state)
      /\ node[h].waiters[1] # Null
  <2>1. pcSet[v] = "list" /\ isReady(waitersAndState[v].state)
    BY WordsHold DEF WordInv, WordAt, AfterReady, RunFirst
  <2>2. SlotsAt(h)
    BY SlotsHold DEF SlotInv
  <2> QED
    BY <1>1, <2>1, <2>2 DEF SlotsAt
<1>3. PICK w \in Waiters : w = node[h].waiters[1] /\ Target[w] = v /\ w \in InSlots
  <2>1. node[h].waiters[1] \in Waiters /\ 1 \in 1..NodeWaiters
    <3>1. node[h] \in Nodes /\ 1 \in 1..NodeWaiters
      BY TypesHold, SMTT(60) DEF Types
    <3>2. node[h].waiters \in [1..NodeWaiters -> Waiters \cup {Null}]
      BY <3>1 DEF Nodes
    <3> QED
      BY <1>2, <3>1, <3>2
  <2>2. Target[node[h].waiters[1]] = v
    BY <1>1, <1>2, <2>1, SlotsHold, SMTT(60) DEF SlotInv, SlotsAt
  <2> QED
    BY <1>1, <2>1, <2>2 DEF InSlots
<1>4. /\ pcSet'[v] = "rest" /\ queued' = queued \cup {w}
      /\ \A x \in Values \ {v} : pcSet'[x] = pcSet[x]
      /\ UNCHANGED <<waitersAndState, payload, pcThen, oldValue, newValue, newState,
                     inlineWaiter, list, ran, refcount, destroyed>>
  BY <1>1, <1>3, TypesHold DEF Types, RunFirst, GotoSet, word, thens, life, setLocals
<1>5. /\ node' \in [Waiters -> Nodes] /\ \A n \in Waiters \ {h} : node'[n] = node[n]
      /\ node'[h].live = node[h].live /\ node'[h].initialized = node[h].initialized
      /\ node'[h].next = node[h].next /\ node'[h].waiters[1] = Null
      /\ \A l \in (1..NodeWaiters) \ {1} : node'[h].waiters[l] = node[h].waiters[l]
  <2>1. SlotBecomes(h, 1, Null)
    BY <1>1 DEF RunFirst, SlotBecomes
  <2>2. /\ node \in [Waiters -> Nodes] /\ 1 \in 1..NodeWaiters /\ Null \in Waiters \cup {Null}
    BY TypesHold, SMTT(60) DEF Types
  <2> HIDE Constants
  <2> QED
    BY <2>1, <2>2, SlotWritten
<1>6. ReadyKept /\ LinksKept
  BY <1>4, <1>5 DEF ReadyKept, LinksKept
<1>7. Types'
  <2>1. pcSet' \in [Values -> BeforeReady \cup AfterReady]
    BY TypesHold DEF Types, RunFirst, GotoSet, AfterReady
  <2> QED
    BY <1>4, <1>5, <2>1, TypesHold DEF Types
<1>8. WordInv' /\ PayloadInv'
  <2>1. \A x \in Values : StageKept(x)
    BY <1>2, <1>4 DEF StageKept, AfterReady
  <2>2. \A x \in Values : WordAt(x)'
    BY <1>4, <1>6, <2>1, WordsQuiet, TypesHold, WordsHold DEF LinksKept
  <2>3. \A x \in Values : PayloadAt(x)'
    BY <1>4, <2>1, PayloadsQuiet, PayloadsHold
  <2> QED
    BY <2>2, <2>3 DEF WordInv, PayloadInv
<1>9. SetInv'
  BY <1>2, <1>4, <1>6, SetsQuiet, TypesHold, WordsHold, SetsHold DEF Resolving
<1>10. ReadInv' /\ WriteInv'
  BY <1>4, <1>6, ReadsQuiet, WritesQuiet, ReadsHold, WritesHold DEF Writing, LinksKept
<1>11. ReadyInv'
  BY <1>2, <1>3, <1>4, ReadyHolds DEF ReadyInv, WordOf
<1>12. ListInv'
  <2>1. \A n \in Waiters : node'[n].live = node[n].live
    BY <1>6 DEF LinksKept
  <2>2. \A x \in Values : list[x].head \in Waiters \cup {Null}
    BY TypesHold DEF Types
  <2> QED
    BY <1>1, <1>2, <1>4, <2>1, <2>2, ListsHold, SMTT(60) DEF ListInv
<1>13. NodeInv' /\ ReachInv'
  BY <1>6, NodesQuiet, TypesHold, NodesHold, ReachHolds
<1>14. SlotInv'
  <2>1. Claimed' = Claimed
    BY <1>4 DEF Claimed
  <2>2. ASSUME NEW n \in Waiters \ {h} PROVE SlotsAt(n)'
    <3>1. list'[Target[n]].head = n /\ pcSet'[Target[n]] = "rest"
          <=> list[Target[n]].head = n /\ pcSet[Target[n]] = "rest"
      BY <1>1, <1>4
    <3> QED
      BY <1>5, <2>1, <3>1, SlotsSame, SlotsHold DEF SlotInv
  <2>3. SlotsAt(h)'
    <3>1. SlotsAt(h) /\ node[h].initialized \subseteq 2..NodeWaiters
      BY SlotsHold, TypesHold DEF SlotInv, Types, Nodes
    <3>2. \A l \in node'[h].initialized : node'[h].waiters[l] # Null
      <4>1. \A l \in node[h].initialized : l \in (1..NodeWaiters) \ {1}
        BY <3>1, SMTT(60)
      <4>2. \A l \in node[h].initialized : node[h].waiters[l] # Null
        BY <1>1, <3>1 DEF SlotsAt
      <4> QED
        BY <1>5, <4>1, <4>2
    <3>3. \A l \in 1..NodeWaiters : \/ node'[h].waiters[l] = node[h].waiters[l]
                                    \/ node'[h].waiters[l] = Null
      BY <1>5
    <3>4. \A l \in 1..NodeWaiters : l > Claimed'[h] =>
            node'[h].waiters[l] = Null /\ l \notin node'[h].initialized
      <4>1. \A l \in 1..NodeWaiters : l > Claimed[h] =>
              node[h].waiters[l] = Null /\ l \notin node[h].initialized
        BY <1>1, <3>1 DEF SlotsAt
      <4> QED
        BY <1>5, <2>1, <3>3, <4>1
    <3>5. \A l \in 1..NodeWaiters : node'[h].waiters[l] # Null =>
            Target[node'[h].waiters[l]] = Target[h]
      <4>1. \A l \in 1..NodeWaiters : node[h].waiters[l] # Null =>
              Target[node[h].waiters[l]] = Target[h]
        BY <1>1, <3>1 DEF SlotsAt
      <4> QED
        BY <3>3, <4>1
    <3>6. list'[Target[h]].head = h /\ pcSet'[Target[h]] = "rest" /\ node'[h].waiters[1] = Null
      BY <1>1, <1>4, <1>5
    <3> QED
      BY <3>2, <3>4, <3>5, <3>6 DEF SlotsAt
  <2>4. ASSUME NEW u \in Waiters PROVE ClaimAt(u)'
    <3>1. ClaimAt(u) /\ \A x \in Waiters : Claiming(x)' <=> Claiming(x)
      BY <1>4, SlotsHold DEF SlotInv, Claiming
    <3>2. CASE ~Claiming(u)
      BY <3>1, <3>2 DEF ClaimAt
    <3>3. CASE Claiming(u)
      <4>1. PICK n \in Waiters, j \in 2..NodeWaiters :
              n = oldValue[u].head /\ j = numValid(oldValue[u].state)
        BY <3>1, <3>3, TypesHold DEF ClaimAt, Types, Words
      <4>2. j \in (1..NodeWaiters) \ {1}
        BY SMTT(60)
      <4>3. /\ node'[n].waiters[j] = node[n].waiters[j]
            /\ node'[n].live = node[n].live /\ node'[n].initialized = node[n].initialized
        BY <1>5, <4>2
      <4> QED
        BY <1>4, <2>1, <3>1, <3>3, <4>1, <4>3 DEF ClaimAt
    <3> QED
      BY <3>2, <3>3
  <2> QED
    BY <2>2, <2>3, <2>4 DEF SlotInv
<1>15. PlacesInv'
  <2>1. /\ Calling' = Calling /\ Known' = Known /\ HasRun' = HasRun
        /\ Inline' = Inline /\ MovedOut' = MovedOut
    BY <1>4 DEF Calling, Known, HasRun, Inline, MovedOut
  <2>2. \A n \in Waiters : \A i \in 1..NodeWaiters :
          /\ node'[n].waiters[i] # Null => node'[n].waiters[i] = node[n].waiters[i]
          /\ n # h \/ i # 1 => node'[n].waiters[i] = node[n].waiters[i]
          /\ node'[n].live = node[n].live
    BY <1>5
  <2>3. \A n \in Waiters : \A i \in 1..NodeWaiters :
          node[n].live /\ node[n].waiters[i] = w => n = h /\ i = 1
    <3>1. 1 \in 1..NodeWaiters /\ w # Null
      BY SMTT(60)
    <3> QED
      BY <1>1, <1>3, <3>1, PlacesHold, SMTT(60) DEF PlacesInv, SlotsDiffer
  <2>4. InSlots' = InSlots \ {w}
    <3>1. ASSUME NEW x \in InSlots', x # Null PROVE x \in InSlots /\ x # w
      <4>1. PICK n \in Waiters, i \in 1..NodeWaiters : node'[n].live /\ node'[n].waiters[i] = x
        BY DEF InSlots
      <4>2. node[n].live /\ node[n].waiters[i] = x
        BY <2>2, <3>1, <4>1
      <4>3. x # w
        BY <1>5, <2>3, <3>1, <4>1, <4>2, SMTT(60)
      <4> QED
        BY <4>2, <4>3 DEF InSlots
    <3>2. ASSUME NEW x \in InSlots, x # w PROVE x \in InSlots'
      <4>1. PICK n \in Waiters, i \in 1..NodeWaiters : node[n].live /\ node[n].waiters[i] = x
        BY DEF InSlots
      <4>2. node'[n].live /\ node'[n].waiters[i] = x
        BY <1>3, <2>2, <3>2, <4>1
      <4> QED
        BY <4>2 DEF InSlots
    <3>3. Null \notin InSlots'
      BY DEF InSlots
    <3> QED
      BY <3>1, <3>2, <3>3
  <2>5. SlotsDiffer'
    BY <2>2, PlacesHold, SMTT(60) DEF PlacesInv, SlotsDiffer
  <2>6. PlacedOnce'
    <3>1. queued' = queued \cup {w} \/ queued' = queued
      BY <1>4
    <3> HIDE Constants
    <3> QED
      BY <1>3, <1>4, <2>1, <2>4, PlacesHold, SMTT(60) DEF PlacesInv, PlacedOnce
  <2> QED
    BY <1>4, <2>5, <2>6, PlacesHold DEF PlacesInv, AtTarget
<1>16. RefInv'
  BY <1>2, <1>4, RefsQuiet, RefsHold DEF OwnersKept, AfterReady
<1> QED
  BY <1>7, <1>8, <1>9, <1>10, <1>11, <1>12, <1>13, <1>14, <1>15, <1>16 DEF AsyncInv

(* The other waiters of a node go to the work queue, all of them since no  *)
(* slot is still being initialized, and the node is deleted.               *)
LEMMA RunRestInv ==
  ASSUME AsyncInv, NEW v \in Values, RunRest(v)
  PROVE  AsyncInv'
<1> USE Constants
<1>1. PICK h \in Waiters : /\ h = list[v].head /\ node[h].live /\ Target[h] = v
                           /\ list[v].valid >= 1
  <2>1. pcSet[v] = "rest" /\ list[v].head \in Waiters \cup {Null}
    BY TypesHold DEF Types, RunRest
  <2>2. list[v].head # Null
    BY <2>1, ListsHold DEF ListInv
  <2>3. /\ node[list[v].head].live /\ Target[list[v].head] = v /\ list[v].valid >= 1
    BY <2>2, ListsHold DEF ListInv
  <2> QED
    BY <2>1, <2>2, <2>3
<1>2. PICK d \in 1..NodeWaiters : d = list[v].valid
  <2>1. list[v].valid \in 0..NodeWaiters
    BY TypesHold DEF Types
  <2> QED
    BY <1>1, <2>1, SMTT(60)
<1>3. /\ pcSet[v] = "rest" /\ isReady(waitersAndState[v].state)
      /\ waitersAndState[v].head = Null
  BY WordsHold DEF WordInv, WordAt, AfterReady, RunRest
<1>4. PICK m \in Waiters \cup {Null} : m = node[h].next
  BY TypesHold DEF Types, Nodes
<1>5. PICK Q : Q = {node[h].waiters[k] : k \in 2..d}
  OBVIOUS
<1>6. /\ pcSet'[v] = "list" /\ queued' = queued \cup Q
      /\ \A x \in Values \ {v} : pcSet'[x] = pcSet[x] /\ list'[x] = list[x]
      /\ list'[v].head = m /\ list'[v].valid = NodeWaiters
      /\ node[h].initialized = 2..d
      /\ UNCHANGED <<waitersAndState, payload, pcThen, oldValue, newValue, newState,
                     inlineWaiter, ran, refcount, destroyed>>
  BY <1>1, <1>2, <1>4, <1>5, TypesHold, SMTT(60) DEF Types, RunRest, GotoSet, word, thens, life
<1>7. FreeNode \in Nodes /\ ~FreeNode.live
  BY DEF FreeNode, Nodes
<1>8. /\ node' \in [Waiters -> Nodes] /\ \A n \in Waiters \ {h} : node'[n] = node[n]
      /\ ~node'[h].live
  BY <1>1, <1>7, TypesHold DEF Types, RunRest
<1>9. /\ \A n \in Waiters : node'[n].live <=> node[n].live /\ n # h
      /\ \A n \in Waiters : node'[n].live => node'[n] = node[n]
  BY <1>8, TypesHold DEF Types, Nodes
<1>10. SlotsAt(h) /\ Claimed[h] = d /\ node[h] \in Nodes
  <2>1. Claimed[h] = d
    BY <1>1, <1>2, <1>3 DEF Claimed
  <2> QED
    BY <2>1, SlotsHold, TypesHold DEF SlotInv, Types
<1>11. /\ node[h].waiters[1] = Null
       /\ \A k \in 1..NodeWaiters : node[h].waiters[k] \in Waiters \cup {Null}
       /\ \A k \in 1..NodeWaiters : node[h].waiters[k] # Null <=> k \in 2..d
  <2>1. node[h].waiters[1] = Null
    BY <1>1, <1>3, <1>10 DEF SlotsAt
  <2>2. \A k \in 1..NodeWaiters : node[h].waiters[k] \in Waiters \cup {Null}
    BY <1>10 DEF Nodes
  <2>3. \A k \in 2..d : node[h].waiters[k] # Null
    BY <1>1, <1>6, <1>10 DEF SlotsAt
  <2>4. \A k \in 1..NodeWaiters : k > d => node[h].waiters[k] = Null
    BY <1>1, <1>10 DEF SlotsAt
  <2>5. \A k \in 1..NodeWaiters : k = 1 \/ k \in 2..d \/ k > d
    BY <1>2, SMTT(60)
  <2> QED
    BY <2>1, <2>2, <2>3, <2>4, <2>5
<1>12. \A q \in Q : q \in Waiters /\ Target[q] = v
                    /\ \E k \in 1..NodeWaiters : node[h].waiters[k] = q
  <2> SUFFICES ASSUME NEW k \in 2..d
               PROVE  /\ node[h].waiters[k] \in Waiters /\ Target[node[h].waiters[k]] = v
                      /\ k \in 1..NodeWaiters
    BY <1>5, SMTT(60)
  <2>1. k \in 1..NodeWaiters
    BY <1>2, SMTT(60)
  <2>2. node[h].waiters[k] # Null /\ node[h].waiters[k] \in Waiters
    BY <1>11, <2>1
  <2> QED
    BY <1>1, <1>10, <2>1, <2>2 DEF SlotsAt
<1>13. ReadyKept
  BY <1>6 DEF ReadyKept
<1>14. Types'
  <2>1. pcSet' \in [Values -> BeforeReady \cup AfterReady]
    BY TypesHold DEF Types, RunRest, GotoSet, AfterReady
  <2>2. [head |-> m, valid |-> NodeWaiters] \in [head : Waiters \cup {Null}, valid : 0..NodeWaiters]
    BY SMTT(60)
  <2>3. list' \in [Values -> [head : Waiters \cup {Null}, valid : 0..NodeWaiters]]
    BY <1>1, <1>4, <2>2, TypesHold DEF Types, RunRest
  <2> QED
    BY <1>6, <1>8, <1>12, <2>1, <2>3, TypesHold DEF Types
<1>15. WordInv' /\ PayloadInv'
  <2>1. \A x \in Values : LET g == waitersAndState[x].head IN
          g # Null => node'[g].live /\ Target[g] = x
    <3> SUFFICES ASSUME NEW x \in Values, waitersAndState[x].head # Null
                 PROVE  LET g == waitersAndState[x].head IN node'[g].live /\ Target[g] = x
      OBVIOUS
    <3>1. PICK g \in Waiters : g = waitersAndState[x].head
      BY TypesHold DEF Types, Words
    <3>2. node[g].live /\ Target[g] = x /\ x # v
      BY <1>3, <3>1, WordsHold DEF WordInv, WordAt
    <3> QED
      BY <1>1, <1>9, <3>1, <3>2
  <2>2. \A x \in Values : StageKept(x)
    BY <1>3, <1>6 DEF StageKept, AfterReady
  <2>3. UNCHANGED <<waitersAndState, payload, newValue, newState>>
    BY <1>6
  <2>4. \A x \in Values : PayloadAt(x)'
    BY <2>2, <2>3, PayloadsQuiet, PayloadsHold
  <2>5. ASSUME NEW x \in Values PROVE WordAt(x)'
    <3>1. WordAt(x) /\ (pcSet'[x] = pcSet[x] \/ {pcSet[x], pcSet'[x]} \subseteq AfterReady)
      BY <1>3, <1>6, WordsHold DEF WordInv, AfterReady
    <3>2. /\ pcSet'[x] \in AfterReady <=> pcSet[x] \in AfterReady
          /\ pcSet'[x] \in BeforeTake <=> pcSet[x] \in BeforeTake
          /\ pcSet'[x] = "construct" <=> pcSet[x] = "construct"
      BY <3>1 DEF AfterReady, BeforeTake, Resolving
    <3> QED
      BY <2>1, <2>3, <3>1, <3>2 DEF WordAt
  <2> QED
    BY <2>4, <2>5 DEF WordInv, PayloadInv
<1>16. SetInv'
  BY <1>3, <1>6, <1>13, SetsQuiet, TypesHold, WordsHold, SetsHold DEF Resolving
<1>17. ReadInv' /\ WriteInv'
  BY <1>6, <1>9, ReadsQuiet, WritesQuiet, ReadsHold, WritesHold DEF Writing
<1>18. ReadyInv'
  BY <1>3, <1>6, <1>12, ReadyHolds DEF ReadyInv, WordOf
<1>19. m # Null => /\ node[m].live /\ m # h /\ Target[m] = v
                   /\ \A u \in Waiters \ {h} : node[u].live => node[u].next # m
  <2>1. node[h].live /\ Target[h] = v /\ node[h].next = m
    BY <1>1, <1>4
  <2> SUFFICES ASSUME m # Null
               PROVE  /\ node[m].live /\ m # h /\ Target[m] = v
                      /\ \A u \in Waiters \ {h} : node[u].live => node[u].next # m
    OBVIOUS
  <2> QED
    <3>1. /\ node[m].live /\ m # h /\ Target[m] = Target[h]
          /\ \A u \in Waiters \ {h} : node[u].live => node[u].next # m
      <4>1. NodeInv /\ node[h].live /\ node[h].next = m /\ m # Null
        BY <2>1, NodesHold
      <4> HIDE Constants
      <4> QED
        BY <4>1, NextNode
    <3> QED
      BY <2>1, <3>1
<1>20. ListInv'
  <2> SUFFICES ASSUME NEW x \in Values
               PROVE  /\ inlineWaiter'[x] # Null =>
                           pcSet'[x] \in {"construct", "exchange", "dropRef", "extra"}
                      /\ pcSet'[x] = "rest" => list'[x].head # Null
                      /\ list'[x].head # Null =>
                           /\ pcSet'[x] \in {"dropRef", "extra", "list", "rest"}
                           /\ node'[list'[x].head].live /\ Target[list'[x].head] = x
                           /\ list'[x].valid >= 1
    BY DEF ListInv
  <2>1. CASE x = v
    <3>1. /\ pcSet'[v] = "list" /\ list'[v].head = m /\ list'[v].valid = NodeWaiters
          /\ inlineWaiter'[v] = inlineWaiter[v]
      BY <1>6
    <3>2. inlineWaiter[v] = Null
      BY <1>3, ListsHold DEF ListInv
    <3>3. NodeWaiters >= 1
      BY SMTT(60)
    <3>4. m # Null => node'[m].live /\ Target[m] = v
      BY <1>9, <1>19
    <3> QED
      BY <2>1, <3>1, <3>2, <3>3, <3>4
  <2>2. CASE x # v
    <3>1. list[x].head \in Waiters \cup {Null}
      BY TypesHold DEF Types
    <3>2. list'[x] = list[x] /\ pcSet'[x] = pcSet[x] /\ inlineWaiter'[x] = inlineWaiter[x]
      BY <1>6, <2>2
    <3>3. /\ inlineWaiter[x] # Null => pcSet[x] \in {"construct", "exchange", "dropRef", "extra"}
          /\ pcSet[x] = "rest" => list[x].head # Null
          /\ list[x].head # Null =>
               /\ pcSet[x] \in {"dropRef", "extra", "list", "rest"}
               /\ node[list[x].head].live /\ Target[list[x].head] = x /\ list[x].valid >= 1
      BY ListsHold DEF ListInv
    <3>4. list[x].head # Null => list[x].head # h
      BY <1>1, <2>2, <3>3
    <3>5. list[x].head # Null => node'[list[x].head].live
      BY <1>9, <3>1, <3>3, <3>4
    <3> QED
      BY <3>2, <3>3, <3>5
  <2> QED
    BY <2>1, <2>2
<1>21. NodeInv'
  <2> SUFFICES ASSUME NEW n \in Waiters, node'[n].live, node'[n].next # Null
               PROVE  LET p == node'[n].next IN
                      /\ node'[p].live /\ p # n /\ Target[p] = Target[n]
                      /\ waitersAndState'[Target[n]].head # p /\ list'[Target[n]].head # p
                      /\ \A u \in Waiters \ {n} : node'[u].live => node'[u].next # p
    BY DEF NodeInv
  <2>1. PICK p \in Waiters : p = node[n].next /\ p = node'[n].next
    BY <1>9, TypesHold, SMTT(60) DEF Types, Nodes
  <2>2. node[n].live /\ n # h
    BY <1>9
  <2>3. /\ node[p].live /\ p # n /\ Target[p] = Target[n]
        /\ waitersAndState[Target[n]].head # p /\ list[Target[n]].head # p
        /\ \A u \in Waiters \ {n} : node[u].live => node[u].next # p
    <3>1. NodeInv /\ node[n].next # Null
      BY <2>1 DEF AsyncInv
    <3>2. LET q == node[n].next IN
          /\ node[q].live /\ q # n /\ Target[q] = Target[n]
          /\ waitersAndState[Target[n]].head # q /\ list[Target[n]].head # q
          /\ \A u \in Waiters \ {n} : node[u].live => node[u].next # q
      BY <2>2, <3>1 DEF NodeInv
    <3> QED
      BY <2>1, <3>2
  <2>4. p # h
    BY <1>1, <2>3
  <2>5. list'[Target[n]].head # p
    BY <1>4, <1>1, <1>6, <2>2, <2>3, SMTT(60)
  <2> QED
    BY <1>6, <1>9, <2>1, <2>3, <2>4, <2>5
<1>22. ReachInv'
  <2> SUFFICES ASSUME NEW C \in SUBSET {n \in Waiters : node'[n].live}, C # {}
               PROVE  \E n \in C : \/ waitersAndState'[Target[n]].head = n
                                   \/ list'[Target[n]].head = n
                                   \/ \E u \in Waiters \ C : node'[u].live /\ node'[u].next = n
    BY DEF ReachInv
  <2>1. C \in SUBSET {n \in Waiters : node[n].live} /\ h \notin C
    BY <1>9
  <2>2. PICK n \in C : \/ waitersAndState[Target[n]].head = n
                       \/ list[Target[n]].head = n
                       \/ \E u \in Waiters \ C : node[u].live /\ node[u].next = n
    BY <2>1, ReachHolds DEF ReachInv
  <2>3. n \in Waiters /\ n # h
    BY <2>1
  <2>4. CASE waitersAndState[Target[n]].head = n
    BY <1>6, <2>4
  <2>5. CASE list[Target[n]].head = n
    BY <1>1, <1>6, <2>3, <2>5, SMTT(60)
  <2>6. CASE \E u \in Waiters \ C : node[u].live /\ node[u].next = n
    <3>1. PICK u \in Waiters \ C : node[u].live /\ node[u].next = n
      BY <2>6
    <3>2. CASE u = h
      BY <1>4, <1>6, <1>19, <2>3, <3>1, <3>2, SMTT(60)
    <3>3. CASE u # h
      BY <1>9, <3>1, <3>3
    <3> QED
      BY <3>2, <3>3
  <2> QED
    BY <2>2, <2>4, <2>5, <2>6
<1>23. SlotInv'
  <2>1. ASSUME NEW n \in Waiters \ {h} PROVE Claimed'[n] = Claimed[n]
    <3>1. CASE Target[n] = v
      BY <1>1, <1>3, <1>6, <3>1 DEF Claimed
    <3>2. CASE Target[n] # v
      BY <1>6, <3>2 DEF Claimed
    <3> QED
      BY <3>1, <3>2
  <2>2. ASSUME NEW n \in Waiters PROVE SlotsAt(n)'
    <3>1. CASE ~node'[n].live
      BY <3>1 DEF SlotsAt
    <3>2. CASE node'[n].live
      <4>1. node[n].live /\ n # h /\ node'[n] = node[n] /\ SlotsAt(n)
        BY <1>9, <3>2, SlotsHold DEF SlotInv
      <4>2. list'[Target[n]].head = n /\ pcSet'[Target[n]] = "rest"
            <=> list[Target[n]].head = n /\ pcSet[Target[n]] = "rest"
        BY <1>1, <1>6, <4>1
      <4> QED
        BY <2>1, <4>1, <4>2, SlotsSame
    <3> QED
      BY <3>1, <3>2
  <2>3. ASSUME NEW u \in Waiters PROVE ClaimAt(u)'
    <3>1. ClaimAt(u) /\ \A x \in Waiters : Claiming(x)' <=> Claiming(x)
      BY <1>6, SlotsHold DEF SlotInv, Claiming
    <3>2. CASE ~Claiming(u)
      BY <3>1, <3>2 DEF ClaimAt
    <3>3. CASE Claiming(u)
      <4>1. PICK n \in Waiters, j \in 2..NodeWaiters :
              /\ n = oldValue[u].head /\ j = numValid(oldValue[u].state)
              /\ node[n].live /\ j <= Claimed[n] /\ j \notin node[n].initialized
        BY <3>1, <3>3, TypesHold DEF ClaimAt, Types, Words
      <4>2. n # h
        BY <1>6, <1>10, <4>1, SMTT(60)
      <4>3. node'[n] = node[n] /\ Claimed'[n] = Claimed[n]
        BY <1>8, <2>1, <4>2
      <4> QED
        BY <1>6, <3>1, <3>3, <4>1, <4>3 DEF ClaimAt
    <3> QED
      BY <3>2, <3>3
  <2> QED
    BY <2>2, <2>3 DEF SlotInv
<1>24. PlacesInv'
  <2>1. /\ Calling' = Calling /\ Known' = Known /\ HasRun' = HasRun
        /\ Inline' = Inline /\ MovedOut' = MovedOut
    BY <1>6 DEF Calling, Known, HasRun, Inline, MovedOut
  <2>2. InSlots' = InSlots \ Q /\ Q \subseteq InSlots
    <3>1. Q \subseteq InSlots
      BY <1>1, <1>12 DEF InSlots
    <3>2. ASSUME NEW x \in InSlots' PROVE x \in InSlots /\ x \notin Q
      <4>1. PICK n \in Waiters, i \in 1..NodeWaiters : node'[n].live /\ node'[n].waiters[i] = x
        BY DEF InSlots
      <4>2. node[n].live /\ n # h /\ node[n].waiters[i] = x
        BY <1>9, <4>1
      <4>3. x \in Waiters /\ x # Null
        BY DEF InSlots
      <4>4. x \notin Q
        <5> SUFFICES ASSUME x \in Q PROVE FALSE
          OBVIOUS
        <5>1. PICK k \in 1..NodeWaiters : node[h].waiters[k] = x
          BY <1>12
        <5> QED
          BY <1>1, <4>2, <4>3, <5>1, PlacesHold, SMTT(60) DEF PlacesInv, SlotsDiffer
      <4> QED
        BY <4>2, <4>3, <4>4 DEF InSlots
    <3>3. ASSUME NEW x \in InSlots, x \notin Q PROVE x \in InSlots'
      <4>1. PICK n \in Waiters, i \in 1..NodeWaiters : node[n].live /\ node[n].waiters[i] = x
        BY DEF InSlots
      <4>2. x # Null /\ x \in Waiters
        BY DEF InSlots
      <4>3. n # h
        BY <1>5, <1>11, <3>3, <4>1, <4>2
      <4>4. node'[n].live /\ node'[n].waiters[i] = x
        BY <1>8, <4>1, <4>3
      <4> QED
        BY <4>2, <4>4 DEF InSlots
    <3> QED
      BY <3>1, <3>2, <3>3
  <2>3. SlotsDiffer'
    <3>1. \A n \in Waiters : node'[n].live => node[n].live /\ node'[n].waiters = node[n].waiters
      BY <1>9
    <3> QED
      BY <3>1, SlotsDifferQuiet, PlacesHold DEF PlacesInv
  <2>4. queued' = queued \cup Q /\ UNCHANGED <<inlineWaiter, payload>>
    BY <1>6
  <2>5. PlacedOnce'
    <3> HIDE Constants
    <3> QED
      BY <2>1, <2>2, <2>4, PlacesHold, SMTT(60) DEF PlacesInv, PlacedOnce
  <2> QED
    BY <2>3, <2>4, <2>5, PlacesHold DEF PlacesInv, AtTarget
<1>25. RefInv'
  BY <1>3, <1>6, RefsQuiet, RefsHold DEF OwnersKept, AfterReady
<1> QED
  BY <1>14, <1>15, <1>16, <1>17, <1>18, <1>20, <1>21, <1>22, <1>23, <1>24, <1>25 DEF AsyncInv

(* The invariant depends on nothing but the variables. *)
LEMMA StutterInv ==
  ASSUME AsyncInv, UNCHANGED vars
  PROVE  AsyncInv'
<1>1. UNCHANGED <<waitersAndState, payload, refcount, destroyed, node, pcThen, oldValue, pcSet,
                  newValue, newState, inlineWaiter, list, queued, ran>>
  BY DEF vars, word, life, thens, sets, setLocals, work
<1>2. ReadyKept /\ LinksKept /\ OwnersKept
  BY <1>1 DEF ReadyKept, LinksKept, OwnersKept
<1>3. Types' /\ WordInv' /\ PayloadInv' /\ ListInv'
  <2>1. Types'
    BY <1>1, TypesHold DEF Types
  <2>2. \A v \in Values : StageKept(v)
    BY <1>1 DEF StageKept
  <2>3. \A v \in Values : WordAt(v)'
    BY <1>1, <2>2, WordsQuiet, TypesHold, WordsHold
  <2>4. \A v \in Values : PayloadAt(v)'
    BY <1>1, <2>2, PayloadsQuiet, PayloadsHold
  <2>5. ListInv'
    BY <1>1, ListsQuiet, TypesHold, ListsHold
  <2> QED
    BY <2>1, <2>3, <2>4, <2>5 DEF WordInv, PayloadInv
<1>4. SetInv' /\ ReadInv' /\ WriteInv' /\ ReadyInv'
  BY <1>1, <1>2, SetsQuiet, ReadsQuiet, WritesQuiet, ReadyQuiet, TypesHold, WordsHold, SetsHold,
     ReadsHold, WritesHold, ReadyHolds
<1>5. NodeInv' /\ ReachInv' /\ SlotInv'
  BY <1>1, <1>2, NodesQuiet, SlotsQuiet, TypesHold, NodesHold, ReachHolds, SlotsHold
     DEF Claiming
<1>6. PlacesInv' /\ RefInv'
  BY <1>1, <1>2, PlacesQuiet, RefsQuiet, PlacesHold, RefsHold DEF Calling, Known
<1> QED
  BY <1>3, <1>4, <1>5, <1>6 DEF AsyncInv

-----------------------------------------------------------------------------
(***************************************************************************)
(* What storage without a result holds, and that users call andThenSync.   *)
(***************************************************************************)
Built == {"exchange"} \cup AfterReady
MoreInv ==
  /\ \A w \in Users : pcThen[w] # "none"
  /\ \A v \in Values : pcSet[v] \in Built
       \/ payload[v] = Nothing \/ \E w \in Waiters : payload[v] = Waiter(w)

(* A waiter that is not yet run has a resolve closure that is waiting. *)
LEMMA Waits ==
  ASSUME AsyncInv, NEW w \in Calling \cup queued \cup Inline
  PROVE  w \in Waiters /\ ran[w] = 0 /\ (w \in Indirects => pcSet[w] = "waiting")
<1>1. w \in Waiters /\ w \in Known /\ w \notin HasRun
  BY PlacesHold DEF PlacesInv, PlacedOnce, Known
<1>2. ran[w] = 0
  BY <1>1, TypesHold DEF Types, HasRun
<1> QED
  BY <1>1, <1>2, SetsHold DEF SetInv, SetAt, Known

(* Each thread keeps it. *)
LEMMA MoreKept ==
  ASSUME AsyncInv, MoreInv, [Next]_vars
  PROVE  MoreInv'
<1> USE Constants
<1> DEFINE Labels == \A w \in Users : pcThen'[w] = pcThen[w] \/ pcThen'[w] # "none"
           Storage == \A v \in Values :
             \/ pcSet'[v] \in Built
             \/ payload'[v] = Nothing \/ \E w \in Waiters : payload'[v] = Waiter(w)
             \/ payload'[v] = payload[v] /\ pcSet[v] \notin Built
<1>1. ASSUME Labels, Storage PROVE MoreInv'
  BY <1>1 DEF MoreInv
<1>2. ASSUME UNCHANGED <<payload, pcSet>> PROVE Storage
  BY <1>2 DEF MoreInv
<1>3. ASSUME NEW w \in Calling \cup queued, Run(w), payload' = payload PROVE Storage
  <2>1. "waiting" \notin Built
    BY DEF Built, AfterReady
  <2>2. \A v \in Values : pcSet'[v] = pcSet[v] \/ pcSet[v] = "waiting"
    BY <1>3, Waits, TypesHold DEF Run, Types
  <2> QED
    BY <1>3, <2>1, <2>2 DEF MoreInv
<1>4. ASSUME NEW w \in Waiters, NEW l, l # "none", GotoThen(w, l) PROVE Labels
  BY <1>4, TypesHold DEF GotoThen, Types
<1>5. ASSUME NEW w \in Waiters, Dispatch(w), w \in Calling PROVE MoreInv'
  <2>1. NextStep(WordOf(w).state) # "none"
    BY DEF NextStep
  <2>2. Labels
    BY <1>4, <1>5, <2>1 DEF Dispatch
  <2>3. CASE isReady(WordOf(w).state)
    BY <1>1, <1>3, <1>5, <2>2, <2>3 DEF Dispatch, word
  <2>4. CASE ~isReady(WordOf(w).state)
    BY <1>1, <1>2, <1>5, <2>2, <2>4 DEF Dispatch, word
  <2> QED
    BY <2>3, <2>4
<1>6. ASSUME NEW w \in Waiters, ThenStep(w) PROVE MoreInv'
  <2>1. CASE Load(w) \/ ClaimFails(w)
    BY <1>5, <2>1 DEF Load, ClaimFails, Calling
  <2>2. CASE WriteInline(w)
    <3>1. Labels
      BY <1>4, <2>2 DEF WriteInline
    <3>2. Storage
      <4>1. \A v \in Values : payload'[v] = payload[v] \/ payload'[v] = Waiter(w)
        BY <2>2, TypesHold DEF WriteInline, Types
      <4>2. pcSet' = pcSet
        BY <2>2 DEF WriteInline, sets
      <4> QED
        BY <4>1, <4>2 DEF MoreInv
    <3> QED
      BY <1>1, <3>1, <3>2
  <2>3. CASE InstallFails(w)
    <3>1. CASE isReady(WordOf(w).state)
      BY <1>1, <1>2, <1>4, <2>3, <3>1 DEF InstallFails, word, sets
    <3>2. CASE ~isReady(WordOf(w).state)
      BY <1>5, <2>3, <3>2 DEF InstallFails, Calling
    <3> QED
      BY <3>1, <3>2
  <2>4. CASE \/ ClaimInline(w) \/ PublishInline(w) \/ ClaimSlot(w) \/ SetWaiter(w)
             \/ SetInitialized(w) \/ Install(w) \/ Return(w)
    <3>1. UNCHANGED <<payload, pcSet>>
      BY <2>4 DEF ClaimInline, PublishInline, ClaimSlot, SetWaiter, SetInitialized, Install,
                  Return, word, sets
    <3>2. Labels
      BY <1>4, <2>4 DEF ClaimInline, PublishInline, ClaimSlot, SetWaiter, SetInitialized, Install,
                        Return
    <3> QED
      BY <1>1, <1>2, <3>1, <3>2
  <2> QED
    BY <1>6, <2>1, <2>2, <2>3, <2>4 DEF ThenStep
<1>7. ASSUME NEW w \in Waiters, RunQueued(w) PROVE MoreInv'
  BY <1>1, <1>3, <1>7 DEF RunQueued, word, thens
<1>8. ASSUME NEW v \in Values, SetStep(v) PROVE MoreInv'
  <2>1. Labels
    <3>1. pcThen' = pcThen \/ (GotoThen(v, "call") /\ v \in Waiters)
      BY <1>8 DEF SetStep, CompleteConcrete, ResolveReady, ResolveLater, RemoveNoWaiter,
           RemoveFindsWaiter, TakeInlineWaiter, Construct, Exchange, NotifyDropRef, RunInlineWaiter,
           RunFirst, RunRest, ListDone, thens
    <3> QED
      BY <1>4, <3>1
  <2>2. \A x \in Values \ {v} : pcSet'[x] = pcSet[x] /\ payload'[x] = payload[x]
    <3>1. \E l : GotoSet(v, l)
      BY <1>8 DEF SetStep, CompleteConcrete, ResolveReady, ResolveLater, RemoveNoWaiter,
           RemoveFindsWaiter, TakeInlineWaiter, Construct, Exchange, NotifyDropRef, RunInlineWaiter,
           RunFirst, RunRest, ListDone
    <3>2. payload' = payload \/ \E p : payload' = [payload EXCEPT ![v] = p]
      BY <1>8 DEF SetStep, CompleteConcrete, ResolveReady, ResolveLater, RemoveNoWaiter,
           RemoveFindsWaiter, TakeInlineWaiter, Construct, Exchange, NotifyDropRef, RunInlineWaiter,
           RunFirst, RunRest, ListDone, word
    <3> QED
      BY <3>1, <3>2, TypesHold DEF GotoSet, Types
  <2>3. \/ pcSet'[v] \in Built
        \/ payload'[v] = Nothing
        \/ payload'[v] = payload[v] /\ pcSet[v] \notin Built
    <3>1. CASE \/ Construct(v) \/ Exchange(v) \/ NotifyDropRef(v) \/ RunInlineWaiter(v)
               \/ RunFirst(v) \/ RunRest(v) \/ ListDone(v)
      BY <3>1, TypesHold, SMTT(60)
         DEF Construct, Exchange, NotifyDropRef, RunInlineWaiter, RunFirst, RunRest, ListDone,
         GotoSet, Built, AfterReady, Types
    <3>2. CASE TakeInlineWaiter(v)
      BY <3>2, TypesHold DEF TakeInlineWaiter, Types
    <3>3. CASE \/ CompleteConcrete(v) \/ ResolveReady(v) \/ ResolveLater(v) \/ RemoveNoWaiter(v)
               \/ RemoveFindsWaiter(v)
      BY <3>3 DEF CompleteConcrete, ResolveReady, ResolveLater, RemoveNoWaiter, RemoveFindsWaiter,
                  word, Built, AfterReady
    <3> QED
      BY <1>8, <3>1, <3>2, <3>3 DEF SetStep
  <2>4. Storage
    BY <2>2, <2>3 DEF MoreInv
  <2> QED
    BY <1>1, <2>1, <2>4
<1>9. ASSUME UNCHANGED vars PROVE MoreInv'
  BY <1>9 DEF MoreInv, vars, word, thens, sets
<1> QED
  BY <1>6, <1>7, <1>8, <1>9 DEF Next, Finished

-----------------------------------------------------------------------------
(***************************************************************************)
(* The abstract future                                                     *)
(***************************************************************************)
StateOf(s) == CASE s = kAvailable -> "available" [] s = kError -> "error" [] OTHER -> "pending"
FutureState == [v \in Values |-> StateOf(waitersAndState[v].state)]

(* The abstract state depends on whether a value is ready, and how. *)
LEMMA States ==
  /\ StateOf(kAvailable) = "available" /\ StateOf(kError) = "error"
  /\ \A s : StateOf(s) = "pending" <=> ~isReady(s)
BY Constants, SMTT(60) DEF StateOf, isReady

(* A step that makes no value ready and runs no waiter is none of the      *)
(* abstract future.                                                        *)
LEMMA FutureStutters ==
  ASSUME ran' = ran,
         \A v \in Values : \/ waitersAndState'[v].state = waitersAndState[v].state
                           \/ /\ ~isReady(waitersAndState[v].state)
                              /\ ~isReady(waitersAndState'[v].state)
  PROVE  UNCHANGED <<FutureState, ran>>
<1>1. \A v \in Values : StateOf(waitersAndState'[v].state) = StateOf(waitersAndState[v].state)
  BY States
<1> QED
  BY <1>1 DEF FutureState

(* A waiter runs once, when the value it waits on is ready. *)
LEMMA RunIsRunWaiter ==
  ASSUME AsyncInv, NEW w \in Calling \cup queued, isReady(WordOf(w).state), Run(w),
         waitersAndState' = waitersAndState
  PROVE  F!RunWaiter(w) /\ w \in Users \cup Indirects
<1>1. w \in Waiters /\ ran[w] = 0
  BY Waits
<1>2. Target[w] \in Values
  BY <1>1, Constants
<1>3. FutureState[Target[w]] # "pending" /\ FutureState' = FutureState
  BY <1>2, States DEF FutureState, WordOf
<1>4. ran' = [ran EXCEPT ![w] = 1]
  BY <1>1, TypesHold, SMTT(60) DEF Run, Types
<1> QED
  BY <1>1, <1>3, <1>4 DEF F!RunWaiter, FutureState, StateOf, Waiters

(* Each step is one of the abstract future, or none. *)
LEMMA FutureStep ==
  ASSUME AsyncInv, [Next]_vars
  PROVE  [F!FutureNext]_<<FutureState, ran>>
<1> USE Constants
<1>1. ASSUME NEW w \in Waiters, Dispatch(w), w \in Calling
      PROVE  F!FutureNext \/ UNCHANGED <<FutureState, ran>>
  <2>1. waitersAndState' = waitersAndState
    BY <1>1 DEF Dispatch, word
  <2>2. CASE isReady(WordOf(w).state)
    BY <1>1, <2>1, <2>2, RunIsRunWaiter DEF Dispatch, F!FutureNext
  <2>3. CASE ~isReady(WordOf(w).state)
    BY <1>1, <2>1, <2>3, FutureStutters DEF Dispatch
  <2> QED
    BY <2>2, <2>3
<1>2. ASSUME NEW w \in Waiters, ThenStep(w)
      PROVE  F!FutureNext \/ UNCHANGED <<FutureState, ran>>
  <2>1. CASE Load(w) \/ ClaimFails(w)
    BY <1>1, <2>1 DEF Load, ClaimFails, Calling
  <2>2. CASE InstallFails(w)
    <3>1. CASE isReady(WordOf(w).state)
      BY <2>2, <3>1, FutureStutters DEF InstallFails, word
    <3>2. CASE ~isReady(WordOf(w).state)
      BY <1>1, <2>2, <3>2 DEF InstallFails, Calling
    <3> QED
      BY <3>1, <3>2
  <2>3. CASE WriteInline(w) \/ SetWaiter(w) \/ SetInitialized(w) \/ Return(w)
    <3>1. UNCHANGED <<waitersAndState, ran>>
      BY <2>3 DEF WriteInline, SetWaiter, SetInitialized, Return, word, work
    <3> QED
      BY <3>1, FutureStutters
  <2>4. CASE ClaimInline(w) \/ PublishInline(w) \/ ClaimSlot(w) \/ Install(w)
    <3>1. /\ Target[w] \in Values /\ ran' = ran
          /\ \A x \in Values \ {Target[w]} : waitersAndState'[x] = waitersAndState[x]
      BY <2>4, TypesHold
         DEF ClaimInline, PublishInline, ClaimSlot, Install, SetWord, work, Types
    <3>2. waitersAndState[Target[w]].state \in 0..NodeWaiters + 1
      <4>1. pcThen[w] = "claimInline" => oldValue[w].state = 0
        BY ReadsHold DEF ReadInv, ReadAt
      <4>2. pcThen[w] = "claimSlot" => oldValue[w].state \in 2..NodeWaiters
        BY ReadsHold DEF ReadInv, ReadAt
      <4>3. pcThen[w] = "install" => oldValue[w].state = NodeWaiters + 1
        BY ReadsHold DEF ReadInv, ReadAt
      <4>4. pcThen[w] = "publishInline" => waitersAndState[Target[w]].state = 1
        BY WritesHold DEF WriteInv, WriteAt, Writing, WordOf
      <4> QED
        BY <2>4, <4>1, <4>2, <4>3, <4>4, SMTT(60) DEF ClaimInline, PublishInline, ClaimSlot, Install, WordOf
    <3>3. waitersAndState'[Target[w]].state \in 0..NodeWaiters + 1
      <4>1. CASE ClaimInline(w)
        BY <3>1, <4>1, TypesHold, SMTT(60) DEF ClaimInline, SetWord, Types
      <4>2. CASE Install(w)
        BY <3>1, <4>2, TypesHold, SMTT(60) DEF Install, SetWord, Types
      <4>3. CASE PublishInline(w)
        <5>1. waitersAndState[Target[w]].state = 1
          BY <4>3, WritesHold DEF PublishInline, WriteInv, WriteAt, Writing, WordOf
        <5> QED
          BY <3>1, <4>3, <5>1, TypesHold, SMTT(60) DEF PublishInline, Types, Words
      <4>4. CASE ClaimSlot(w)
        <5>1. oldValue[w].state \in 2..NodeWaiters
          BY <4>4, ReadsHold DEF ClaimSlot, ReadInv, ReadAt
        <5> QED
          BY <3>1, <4>4, <5>1, TypesHold, SMTT(60) DEF ClaimSlot, SetWord, Types
      <4> QED
        BY <2>4, <4>1, <4>2, <4>3, <4>4
    <3> QED
      BY <3>1, <3>2, <3>3, FutureStutters, SMTT(60)
  <2> QED
    BY <1>2, <2>1, <2>2, <2>3, <2>4 DEF ThenStep
<1>3. ASSUME NEW w \in Waiters, RunQueued(w) PROVE F!FutureNext
  <2>1. isReady(WordOf(w).state)
    BY <1>3, ReadyHolds DEF RunQueued, ReadyInv
  <2> QED
    BY <1>3, <2>1, RunIsRunWaiter DEF RunQueued, word, F!FutureNext
<1>4. ASSUME NEW v \in Values, Exchange(v) PROVE F!FutureNext
  <2>1. PICK s \in {kAvailable, kError} : s = newState[v]
    BY <1>4, SetsHold DEF Exchange, SetInv, OutcomeInv, Resolving
  <2>2. ~isReady(waitersAndState[v].state)
    BY <1>4, WordsHold DEF Exchange, WordInv, WordAt, AfterReady
  <2>3. FutureState[v] = "pending"
    BY <2>2, States DEF FutureState
  <2>4. v \in Indirects => FutureState[Target[v]] = StateOf(s) /\ Target[v] \in Values
    BY <1>4, <2>1, SetsHold DEF Exchange, FutureState, SetInv, SetAt, Resolving
  <2>5. /\ waitersAndState'[v].state = s
        /\ \A x \in Values \ {v} : waitersAndState'[x] = waitersAndState[x]
    BY <1>4, <2>1, TypesHold DEF Exchange, SetWord, Types
  <2>6. FutureState' = [FutureState EXCEPT ![v] = StateOf(s)]
    BY <2>5 DEF FutureState
  <2>7. StateOf(s) \in {"available", "error"} /\ ran' = ran
    BY <1>4, States DEF Exchange, work
  <2>8. F!Resolve(v)
    BY <2>3, <2>4, <2>6, <2>7 DEF F!Resolve, FutureState, StateOf
  <2> QED
    BY <2>8 DEF F!FutureNext, Values
<1>5. ASSUME NEW v \in Values, SetStep(v), ~Exchange(v) PROVE UNCHANGED <<FutureState, ran>>
  <2>1. CASE RemoveNoWaiter(v)
    <3>1. /\ ran' = ran /\ waitersAndState[v].state = 0
          /\ waitersAndState'[v].state = NodeWaiters + 1
          /\ \A x \in Values \ {v} : waitersAndState'[x] = waitersAndState[x]
      BY <2>1, TypesHold DEF RemoveNoWaiter, SetWord, work, Types
    <3> QED
      BY <3>1, FutureStutters, SMTT(60)
  <2>2. CASE ~RemoveNoWaiter(v)
    <3>1. UNCHANGED <<waitersAndState, ran>>
      BY <1>5, <2>2 DEF SetStep, CompleteConcrete, ResolveReady, ResolveLater, RemoveFindsWaiter,
           TakeInlineWaiter, Construct, NotifyDropRef, RunInlineWaiter, RunFirst, RunRest, ListDone,
           word, work
    <3> QED
      BY <3>1, FutureStutters
  <2> QED
    BY <2>1, <2>2
<1>6. ASSUME UNCHANGED vars PROVE UNCHANGED <<FutureState, ran>>
  BY <1>6, FutureStutters DEF vars, word, work
<1> QED
  BY <1>2, <1>3, <1>4, <1>5, <1>6 DEF Next, Finished

=============================================================================
