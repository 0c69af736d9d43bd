-------------------------- MODULE AsyncValueProofs --------------------------
(***************************************************************************)
(* The futures of the runtime keep every waiter in one place until it has  *)
(* run, touch nothing that is freed, free everything in the end and        *)
(* implement the abstract future, for all values, waiters and targets and  *)
(* every size of a list node.                                              *)
(***************************************************************************)
EXTENDS AsyncValueSteps, FiniteSetTheorems

\* The prover of every leaf that names no other.
USE ZenonT(120)

-----------------------------------------------------------------------------
(***************************************************************************)
(* References                                                              *)
(***************************************************************************)
(* The facts about finite sets that the counts of references need. *)
LEMMA FiniteSet ==
  /\ IsFiniteSet({}) /\ Cardinality({}) = 0
  /\ \A x : IsFiniteSet({x}) /\ Cardinality({x}) = 1
  /\ \A S : IsFiniteSet(S) => Cardinality(S) \in Nat /\ (Cardinality(S) = 0 <=> S = {})
  /\ \A S, x : IsFiniteSet(S) =>
       /\ IsFiniteSet(S \cup {x}) /\ IsFiniteSet(S \ {x})
       /\ x \notin S => Cardinality(S \cup {x}) = Cardinality(S) + 1
       /\ x \in S => Cardinality(S \ {x}) = Cardinality(S) - 1
  /\ \A S : \A T \in SUBSET S : IsFiniteSet(S) => IsFiniteSet(T)
<1>1. /\ IsFiniteSet({}) /\ Cardinality({}) = 0
      /\ \A x : IsFiniteSet({x}) /\ Cardinality({x}) = 1
  BY FS_EmptySet, FS_Singleton
<1>2. \A S : IsFiniteSet(S) => Cardinality(S) \in Nat /\ (Cardinality(S) = 0 <=> S = {})
  BY FS_EmptySet, FS_CardinalityType
<1>3. ASSUME NEW S, NEW x, IsFiniteSet(S)
      PROVE  /\ IsFiniteSet(S \cup {x}) /\ IsFiniteSet(S \ {x})
             /\ x \notin S => Cardinality(S \cup {x}) = Cardinality(S) + 1
             /\ x \in S => Cardinality(S \ {x}) = Cardinality(S) - 1
  BY <1>3, FS_AddElement, FS_RemoveElement
<1>4. \A S : \A T \in SUBSET S : IsFiniteSet(S) => IsFiniteSet(T)
  BY FS_Subset
<1> QED
  BY <1>1, <1>2, <1>3, <1>4

(* The owners of a value other than the indirect values that refer to it. *)
Direct ==
  [v \in Values |->
     {w \in Users : Target[w] = v /\ pcThen[w] # "done"}
       \cup {x \in {Null} : pcSet[v] \in BeforeReady \cup {"dropRef"}}]

(* Together with the indirect values that refer to a value they are all   *)
(* its owners.                                                             *)
LEMMA OwnersAre ==
  /\ \A v \in Values :
       Owners[v] = Direct[v] \cup {u \in Indirects : newValue[u] = v /\ u \notin destroyed}
  /\ \A v \in Values : Direct[v] \cap Indirects = {}
  /\ \A v \in Values : Null \in Direct[v] <=> pcSet[v] \in BeforeReady \cup {"dropRef"}
BY Constants DEF Owners, Direct

(* Counting a finite set of owners. *)
LEMMA Counting ==
  ASSUME NEW S, IsFiniteSet(S)
  PROVE  /\ Cardinality(S) \in Nat /\ (Cardinality(S) = 0 <=> S = {})
         /\ \A o \in S : /\ Cardinality(S \ {o}) = Cardinality(S) - 1
                         /\ Cardinality(S) = 1 <=> S = {o}
         /\ \A o : o \notin S => Cardinality(S \cup {o}) = Cardinality(S) + 1
<1>1. Cardinality(S) \in Nat /\ (Cardinality(S) = 0 <=> S = {})
  BY FiniteSet
<1>2. ASSUME NEW o \in S
      PROVE  /\ Cardinality(S \ {o}) = Cardinality(S) - 1
             /\ Cardinality(S) = 1 <=> S = {o}
  <2>1. IsFiniteSet(S \ {o}) /\ Cardinality(S \ {o}) = Cardinality(S) - 1
    BY FiniteSet
  <2>2. Cardinality(S \ {o}) = 0 <=> S \ {o} = {}
    BY <2>1, FiniteSet
  <2> QED
    BY <1>1, <2>1, <2>2, SMTT(60)
<1>3. \A o : o \notin S => Cardinality(S \cup {o}) = Cardinality(S) + 1
  BY FiniteSet
<1> QED
  BY <1>1, <1>2, <1>3

(* A value has finitely many owners. *)
LEMMA OwnersFinite == \A v \in Values : IsFiniteSet(Owners[v])
<1> SUFFICES ASSUME NEW v \in Values PROVE IsFiniteSet(Owners[v])
  OBVIOUS
<1>1. IsFiniteSet(Waiters \cup {Null})
  BY AsyncValueAssumption, FiniteSet
<1>2. Owners[v] \in SUBSET (Waiters \cup {Null})
  BY Constants DEF Owners
<1> QED
  BY <1>1, <1>2, FiniteSet

(* What a reference count says about the owners. *)
LEMMA Counts ==
  ASSUME RefInv
  PROVE  /\ \A v \in Values :
              /\ refcount[v] = Cardinality(Owners[v]) /\ refcount[v] \in Nat
              /\ v \in destroyed <=> Owners[v] = {}
              /\ \A o \in Owners[v] : /\ Cardinality(Owners[v] \ {o}) = refcount[v] - 1
                                      /\ refcount[v] = 1 <=> Owners[v] = {o}
         /\ destroyed \subseteq Values
BY OwnersFinite, Counting DEF RefInv

(* A value that lost its last reference had its result: an indirect one a  *)
(* reference to the concrete value it was resolved to.                     *)
LEMMA LastReference ==
  ASSUME AsyncInv, NEW v \in Values, pcSet[v] \in AfterReady
  PROVE  /\ v \in Indirects => /\ payload[v] = Ref(newValue[v])
                               /\ payload[v].holds = "ref" /\ payload[v].of = newValue[v]
                               /\ newValue[v] \in Concretes
         /\ v \in Concretes => payload[v].holds # "ref"
<1>1. v \in Indirects => payload[v] = Ref(newValue[v])
  BY PayloadsHold DEF PayloadInv, PayloadAt
<1>2. v \in Concretes => payload[v] = Result(newState[v])
  BY Constants, PayloadsHold DEF PayloadInv, PayloadAt
<1>3. v \in Indirects => newValue[v] \in Concretes
  BY SetsHold DEF SetInv, SetAt, AfterReady, Resolving
<1> QED
  BY <1>1, <1>2, <1>3, Payloads

(* dropRef takes one owner away, and with the last one the reference that  *)
(* an indirect value has.                                                  *)
LEMMA DropRefRefs ==
  ASSUME AsyncInv, NEW v \in Values, NEW o \in Direct[v], dropRef(v), newValue' = newValue,
         o = Null => pcSet[v] = "dropRef",
         \A x \in Values : Direct'[x] = IF x = v THEN Direct[v] \ {o} ELSE Direct[x]
  PROVE  RefInv'
<1>1. o \in Owners[v] /\ o \notin Indirects
  BY OwnersAre
<1>2. RefInv
  BY DEF AsyncInv
<1> DEFINE Refer(x) == {u \in Indirects : newValue[u] = x /\ u \notin destroyed}
           ReferNow(x) == {u \in Indirects : newValue[u] = x /\ u \notin destroyed'}
<1>5. \A x \in Values : /\ Owners[x] = Direct[x] \cup Refer(x)
                        /\ Owners'[x] = Direct'[x] \cup ReferNow(x)
                        /\ o \notin Refer(x)
  BY <1>1 DEF Owners, Direct
<1> HIDE DEF Refer, ReferNow
<1>3. CASE refcount[v] # 1
  <2>1. Dropped(v) = {v}
    BY <1>3 DEF Dropped
  <2>2. destroyed' = destroyed
    BY <1>3, <2>1 DEF dropRef
  <2>3. \A x \in Values : Owners'[x] = IF x = v THEN Owners[v] \ {o} ELSE Owners[x]
    <3>1. \A x \in Values : ReferNow(x) = Refer(x)
      BY <2>2 DEF Refer, ReferNow
    <3> QED
      BY <1>5, <3>1
  <2>4. \A x \in Values : refcount'[x] = IF x = v THEN refcount[v] - 1 ELSE refcount[x]
    BY <1>2, <2>1, Counts, SMTT(60) DEF dropRef
  <2>5. \A x \in Values : refcount'[x] = Cardinality(Owners'[x])
    <3>1. Cardinality(Owners[v] \ {o}) = refcount[v] - 1
      BY <1>1, <1>2, Counts
    <3>2. \A x \in Values : refcount[x] = Cardinality(Owners[x])
      BY <1>2, Counts
    <3> QED
      BY <2>3, <2>4, <3>1, <3>2
  <2>6. \A x \in Values : x \in destroyed' <=> Owners'[x] = {}
    <3>1. Owners[v] # {o} /\ Owners[v] # {} /\ v \notin destroyed
      BY <1>1, <1>2, <1>3, Counts
    <3>2. \A x \in Values : x \in destroyed <=> Owners[x] = {}
      BY <1>2, Counts
    <3> QED
      BY <1>1, <2>2, <2>3, <3>1, <3>2
  <2> QED
    <3>1. refcount' \in [Values -> Int] /\ destroyed' \subseteq Values
      BY <1>2, <2>2, Counts, SMTT(60) DEF RefInv, dropRef
    <3> QED
      BY <2>5, <2>6, <3>1 DEF RefInv
<1>4. CASE refcount[v] = 1
  <2>1. Owners[v] = {o} /\ v \notin destroyed /\ pcSet[v] \in AfterReady
    <3>1. Owners[v] = {o} /\ v \notin destroyed
      BY <1>1, <1>2, <1>4, Counts
    <3>2. o # Null => pcSet[v] \notin BeforeReady \cup {"dropRef"}
      BY <3>1, OwnersAre
    <3> QED
      BY <3>1, <3>2, TypesHold DEF Types, AfterReady
  <2>2. CASE v \in Concretes
    <3>1. Dropped(v) = {v}
      BY <2>1, <2>2, LastReference DEF Dropped
    <3>2. destroyed' = destroyed \cup {v} /\ v \notin Indirects
      BY <1>4, <2>2, <3>1, Constants DEF dropRef
    <3>3. \A x \in Values : Owners'[x] = IF x = v THEN Owners[v] \ {o} ELSE Owners[x]
      <4>1. \A x \in Values : ReferNow(x) = Refer(x)
        BY <3>2 DEF Refer, ReferNow
      <4> QED
        BY <1>5, <4>1
    <3>4. \A x \in Values : refcount'[x] = IF x = v THEN refcount[v] - 1 ELSE refcount[x]
      BY <1>2, <3>1, Counts, SMTT(60) DEF dropRef
    <3>5. \A x \in Values : refcount'[x] = Cardinality(Owners'[x])
      <4>1. Cardinality(Owners[v] \ {o}) = refcount[v] - 1
        BY <1>1, <1>2, Counts
      <4>2. \A x \in Values : refcount[x] = Cardinality(Owners[x])
        BY <1>2, Counts
      <4> QED
        BY <3>3, <3>4, <4>1, <4>2
    <3>6. \A x \in Values : x \in destroyed' <=> Owners'[x] = {}
      BY <1>2, <2>1, <3>2, <3>3, Counts
    <3> QED
      BY <1>2, <3>2, <3>5, <3>6, Counts, SMTT(60) DEF RefInv, dropRef
  <2>3. CASE v \in Indirects
    <3>1. PICK u \in Concretes : u = newValue[v] /\ payload[v].holds = "ref" /\ payload[v].of = u
      BY <2>1, <2>3, LastReference
    <3>2. Dropped(v) = {v, u} /\ u # v /\ u \in Values /\ u \notin Indirects
      BY <1>4, <2>3, <3>1, Constants DEF Dropped
    <3>3. v \in Owners[u]
      BY <2>1, <2>3, <3>1, <3>2, OwnersAre, SMTT(60)
    <3>4. destroyed' = destroyed \cup {v} \cup {x \in {u} : refcount[x] = 1}
      BY <1>4, <3>2 DEF dropRef
    <3>5. \A x \in Values :
            Owners'[x] = IF x = v THEN Owners[v] \ {o}
                         ELSE IF x = u THEN Owners[u] \ {v} ELSE Owners[x]
      <4>1. \A x \in Values : ReferNow(x) = IF x = u THEN Refer(u) \ {v} ELSE Refer(x)
        BY <3>1, <3>2, <3>4 DEF Refer, ReferNow
      <4>2. v \notin Direct[u]
        BY <2>3, <3>2, OwnersAre
      <4> QED
        <5>1. ASSUME NEW x \in Values PROVE
                Owners'[x] = IF x = v THEN Owners[v] \ {o}
                             ELSE IF x = u THEN Owners[u] \ {v} ELSE Owners[x]
          <6>1. CASE x = v
            <7>1. Owners'[v] = (Direct[v] \ {o}) \cup Refer(v)
              BY <1>5, <3>2, <4>1
            <7> QED
              BY <1>5, <6>1, <7>1
          <6>2. CASE x = u
            <7>1. Owners'[u] = Direct[u] \cup (Refer(u) \ {v})
              BY <1>5, <3>2, <4>1
            <7>2. Owners[u] = Direct[u] \cup Refer(u)
              BY <1>5, <3>2
            <7>3. Owners'[u] = Owners[u] \ {v}
              BY <4>2, <7>1, <7>2
            <7> QED
              BY <3>2, <6>2, <7>3
          <6>3. CASE x # v /\ x # u
            BY <1>5, <4>1, <6>3
          <6> QED
            BY <6>1, <6>2, <6>3
        <5> QED
          BY <5>1
    <3>6. \A x \in Values :
            refcount'[x] = IF x \in {v, u} THEN refcount[x] - 1 ELSE refcount[x]
      BY <1>2, <3>2, Counts, SMTT(60) DEF dropRef
    <3>7. \A x \in Values : refcount'[x] = Cardinality(Owners'[x])
      <4>1. /\ Cardinality(Owners[v] \ {o}) = refcount[v] - 1
            /\ Cardinality(Owners[u] \ {v}) = refcount[u] - 1
        BY <1>1, <1>2, <3>2, <3>3, Counts
      <4>2. \A x \in Values : refcount[x] = Cardinality(Owners[x])
        BY <1>2, Counts
      <4> QED
        BY <3>2, <3>5, <3>6, <4>1, <4>2
    <3>8. \A x \in Values : x \in destroyed' <=> Owners'[x] = {}
      <4>1. u \notin destroyed /\ (refcount[u] = 1 <=> Owners[u] \ {v} = {})
        <5>1. u \notin destroyed
          BY <1>2, <3>2, <3>3, Counts
        <5>2. refcount[u] = 1 <=> Owners[u] = {v}
          BY <1>2, <3>2, <3>3, Counts
        <5>3. Owners[u] = {v} <=> Owners[u] \ {v} = {}
          BY <3>3
        <5> QED
          BY <5>1, <5>2, <5>3
      <4>2. \A x \in Values : x \in destroyed <=> Owners[x] = {}
        BY <1>2, Counts
      <4>3. \A x : x \in destroyed' <=> x \in destroyed \/ x = v \/ (x = u /\ refcount[u] = 1)
        BY <3>4
      <4>4. Owners[v] \ {o} = {}
        BY <2>1
      <4> QED
        BY <3>2, <3>5, <4>1, <4>2, <4>3, <4>4
    <3> QED
      BY <1>2, <3>2, <3>4, <3>7, <3>8, Counts, SMTT(60) DEF RefInv, dropRef
  <2> QED
    BY <2>2, <2>3, Constants
<1> QED
  BY <1>3, <1>4

(* A user's call returns and the user drops the reference. *)
LEMMA ReturnInv ==
  ASSUME AsyncInv, NEW w \in Waiters, Return(w)
  PROVE  AsyncInv'
<1> USE Constants
<1>1. /\ pcThen[w] = "return" /\ pcThen'[w] = "done"
      /\ \A u \in Waiters \ {w} : pcThen'[u] = pcThen[u]
      /\ UNCHANGED <<waitersAndState, payload, node, oldValue, pcSet, newValue, newState,
                     inlineWaiter, list, queued, ran>>
  BY TypesHold DEF Types, Return, GotoThen, word, sets, setLocals, work
<1>2. ReadyKept /\ LinksKept
  BY <1>1 DEF ReadyKept, LinksKept
<1>3. Types'
  <2>1. pcThen' \in [Waiters -> ThenLabels]
    BY TypesHold DEF Types, Return, GotoThen, ThenLabels
  <2> QED
    BY <1>1, <2>1, TypesHold DEF Types
<1>4. WordInv' /\ PayloadInv' /\ ListInv'
  <2>1. \A x \in Values : StageKept(x)
    BY <1>1 DEF StageKept
  <2>2. \A x \in Values : WordAt(x)'
    BY <1>1, <2>1, WordsQuiet, TypesHold, WordsHold
  <2>3. \A x \in Values : PayloadAt(x)'
    BY <1>1, <2>1, PayloadsQuiet, PayloadsHold
  <2>4. ListInv'
    BY <1>1, ListsQuiet, TypesHold, ListsHold
  <2> QED
    BY <2>2, <2>3, <2>4 DEF WordInv, PayloadInv
<1>5. SetInv'
  BY <1>1, <1>2, SetsQuiet, TypesHold, WordsHold, SetsHold
<1>6. ReadInv' /\ WriteInv' /\ ReadyInv'
  BY <1>1, <1>2, ReadsQuiet, WritesQuiet, ReadyQuiet, ReadsHold, WritesHold, ReadyHolds
     DEF Writing
<1>7. NodeInv' /\ ReachInv'
  BY <1>2, NodesQuiet, TypesHold, NodesHold, ReachHolds
<1>8. SlotInv'
  BY <1>1, <1>2, SlotsQuiet, SlotsHold DEF Claiming
<1>9. PlacesInv'
  BY <1>1, PlacesQuiet, PlacesHold DEF Calling, Known
<1>10. RefInv'
  <2>1. CASE w \in Users
    <3>1. PICK v \in Values : v = Target[w]
      OBVIOUS
    <3>2. dropRef(v)
      BY <2>1, <3>1 DEF Return
    <3>3. w \in Direct[v] /\ w # Null
      BY <1>1, <2>1, <3>1 DEF Direct
    <3>4. \A x \in Values : Direct'[x] = IF x = v THEN Direct[v] \ {w} ELSE Direct[x]
      <4>1. ASSUME NEW x \in Values
            PROVE  {u \in Users : Target[u] = x /\ pcThen'[u] # "done"} =
                     {u \in Users : Target[u] = x /\ pcThen[u] # "done"} \ {w}
        BY <1>1
      <4>2. ASSUME NEW x \in Values, x # v PROVE w \notin Direct[x]
        BY <3>1, <4>2 DEF Direct
      <4>3. ASSUME NEW x \in Values PROVE Direct'[x] = Direct[x] \ {w}
        <5> DEFINE P == {y \in {Null} : pcSet[x] \in BeforeReady \cup {"dropRef"}}
        <5>1. Direct[x] = {u \in Users : Target[u] = x /\ pcThen[u] # "done"} \cup P
          BY DEF Direct
        <5>2. Direct'[x] = {u \in Users : Target[u] = x /\ pcThen'[u] # "done"} \cup P
          BY <1>1 DEF Direct
        <5>3. w \notin P
          BY <3>3
        <5> HIDE DEF P
        <5> QED
          BY <4>1, <5>1, <5>2, <5>3, SMTT(60)
      <4>4. ASSUME NEW x \in Values, x # v PROVE Direct[x] \ {w} = Direct[x]
        BY <4>2, <4>4
      <4> QED
        BY <4>3, <4>4
    <3> QED
      BY <1>1, <3>2, <3>3, <3>4, DropRefRefs
  <2>2. CASE w \notin Users
    <3>1. UNCHANGED <<refcount, destroyed>>
      BY <2>2 DEF Return, life
    <3> QED
      BY <1>1, <2>2, <3>1, RefsQuiet, RefsHold DEF OwnersKept
  <2> QED
    BY <2>1, <2>2
<1> QED
  BY <1>3, <1>4, <1>5, <1>6, <1>7, <1>8, <1>9, <1>10 DEF AsyncInv

(* The completion drops its reference before it runs the waiters. *)
LEMMA NotifyDropRefInv ==
  ASSUME AsyncInv, NEW v \in Values, NotifyDropRef(v)
  PROVE  AsyncInv'
<1> USE Constants
<1>1. /\ pcSet[v] = "dropRef" /\ pcSet'[v] = "extra" /\ dropRef(v)
      /\ \A x \in Values \ {v} : pcSet'[x] = pcSet[x]
      /\ UNCHANGED <<waitersAndState, payload, node, pcThen, oldValue, newValue, newState,
                     inlineWaiter, list, queued, ran>>
  BY TypesHold DEF Types, NotifyDropRef, GotoSet, word, thens, setLocals, work
<1>2. ReadyKept /\ LinksKept
  BY <1>1 DEF ReadyKept, LinksKept
<1>3. Types'
  <2>1. pcSet' \in [Values -> BeforeReady \cup AfterReady]
    BY TypesHold DEF Types, NotifyDropRef, GotoSet, AfterReady
  <2> QED
    BY <1>1, <2>1, TypesHold DEF Types
<1>4. WordInv' /\ PayloadInv'
  <2>1. \A x \in Values : StageKept(x)
    BY <1>1 DEF StageKept, BeforeTake, Resolving, AfterReady
  <2>2. \A x \in Values : WordAt(x)'
    BY <1>1, <2>1, WordsQuiet, TypesHold, WordsHold
  <2>3. \A x \in Values : PayloadAt(x)'
    BY <1>1, <2>1, PayloadsQuiet, PayloadsHold
  <2> QED
    BY <2>2, <2>3 DEF WordInv, PayloadInv
<1>11. ListInv'
  BY <1>1, ListsHold DEF ListInv
<1>5. SetInv'
  BY <1>1, <1>2, SetsQuiet, TypesHold, WordsHold, SetsHold DEF Resolving
<1>6. ReadInv' /\ WriteInv' /\ ReadyInv'
  BY <1>1, <1>2, ReadsQuiet, WritesQuiet, ReadyQuiet, ReadsHold, WritesHold, ReadyHolds
     DEF Writing
<1>7. NodeInv' /\ ReachInv'
  BY <1>2, NodesQuiet, TypesHold, NodesHold, ReachHolds
<1>8. SlotInv'
  BY <1>1, <1>2, SlotsQuiet, SlotsHold DEF Claiming
<1>9. PlacesInv'
  BY <1>1, PlacesQuiet, PlacesHold DEF Calling, Known
<1>10. RefInv'
  <2>1. "extra" \notin BeforeReady \cup {"dropRef"}
    BY DEF BeforeReady, BeforeTake, Resolving
  <2>2. Null \in Direct[v]
    BY <1>1 DEF Direct
  <2>3. \A x \in Values : Direct'[x] = IF x = v THEN Direct[v] \ {Null} ELSE Direct[x]
    BY <1>1, <2>1, SMTT(60) DEF Direct
  <2> QED
    BY <1>1, <2>2, <2>3, DropRefRefs
<1> QED
  BY <1>3, <1>4, <1>5, <1>6, <1>7, <1>8, <1>9, <1>10, <1>11 DEF AsyncInv

(* Collapsing through an indirect value gives up the reference to it for   *)
(* one to the concrete value it refers to.                                 *)
LEMMA MoveRefRefs ==
  ASSUME AsyncInv, NEW v \in Indirects, NEW new \in Indirects, NEW u \in Concretes,
         newValue[v] = new, newValue[new] = u, payload[new] = Ref(u),
         pcSet[v] \in BeforeReady, pcSet[new] \in AfterReady,
         moveRef(new, u), newValue' = [newValue EXCEPT ![v] = u],
         Direct' = Direct
  PROVE  RefInv'
<1>1. RefInv /\ v # new /\ u # new /\ u # v /\ {u, v, new} \subseteq Values
      /\ newValue'[v] = u /\ \A x \in Indirects \ {v} : newValue'[x] = newValue[x]
  <2>1. v # new
    BY DEF BeforeReady, BeforeTake, Resolving, AfterReady
  <2>2. {u, v, new} \subseteq Values /\ u \notin Indirects
    BY Constants, SMTT(60)
  <2>3. newValue'[v] = u /\ \A x \in Indirects \ {v} : newValue'[x] = newValue[x]
    <3>1. newValue \in [Values -> Values \cup {Null}] /\ Indirects \subseteq Values
      BY TypesHold, Constants DEF Types
    <3> QED
      BY <3>1
  <2> QED
    BY <2>1, <2>2, <2>3, RefsHold
<1> DEFINE Refer(x) == {w \in Indirects : newValue[w] = x /\ w \notin destroyed}
           ReferNow(x) == {w \in Indirects : newValue'[w] = x /\ w \notin destroyed'}
<1>2. \A x \in Values : /\ Owners[x] = Direct[x] \cup Refer(x)
                        /\ Owners'[x] = Direct[x] \cup ReferNow(x)
                        /\ Direct[x] \cap Indirects = {}
  <2>1. \A x \in Values : /\ Owners[x] = Direct[x] \cup Refer(x)
                          /\ Owners'[x] = Direct'[x] \cup ReferNow(x)
                          /\ Direct[x] \cap Indirects = {}
    BY Constants, SMTT(60) DEF Owners, Direct
  <2> QED
    BY <2>1
<1>3. \A x \in Values : x \in destroyed <=> Owners[x] = {}
  BY <1>1, Counts
<1>4. v \notin destroyed
  <2>1. Null \in Owners[v]
    BY <1>1, OwnersAre, SMTT(60)
  <2> QED
    BY <1>1, <1>3, <2>1
<1>5. v \in Owners[new] /\ new \notin destroyed
  BY <1>1, <1>2, <1>3, <1>4
<1>6. new \in Owners[u] /\ u \notin destroyed /\ v \notin Owners[u]
  BY <1>1, <1>2, <1>3, <1>5, SMTT(60)
<1>7. /\ refcount[new] = 1 <=> Owners[new] = {v}
      /\ Cardinality(Owners[new] \ {v}) = refcount[new] - 1
      /\ Cardinality(Owners[u] \cup {v}) = refcount[u] + 1
      /\ Cardinality((Owners[u] \cup {v}) \ {new}) = refcount[u]
      /\ \A x \in Values : refcount[x] = Cardinality(Owners[x]) /\ refcount[x] \in Nat
  <2>1. /\ refcount[new] = 1 <=> Owners[new] = {v}
        /\ Cardinality(Owners[new] \ {v}) = refcount[new] - 1
        /\ \A x \in Values : refcount[x] = Cardinality(Owners[x]) /\ refcount[x] \in Nat
    BY <1>1, <1>5, Counts
  <2>2. IsFiniteSet(Owners[u])
    BY <1>1, OwnersFinite
  <2>3. /\ IsFiniteSet(Owners[u] \cup {v})
        /\ Cardinality(Owners[u] \cup {v}) = refcount[u] + 1
    <3>1. IsFiniteSet(Owners[u] \cup {v})
      BY <2>2, FiniteSet
    <3>2. Cardinality(Owners[u] \cup {v}) = Cardinality(Owners[u]) + 1
      BY <1>6, <2>2, Counting, SMTT(60)
    <3> QED
      BY <1>1, <2>1, <3>1, <3>2
  <2>4. Cardinality((Owners[u] \cup {v}) \ {new}) = Cardinality(Owners[u] \cup {v}) - 1
    BY <1>6, <2>3, Counting
  <2> QED
    BY <1>1, <2>1, <2>3, <2>4, SMTT(60)
<1>8. payload[new].holds = "ref" /\ payload[new].of = u
  BY Payloads
<1>11. refcount' = [x \in Values |-> refcount'[x]]
  BY DEF moveRef
<1> HIDE DEF Refer, ReferNow
<1>9. CASE refcount[new] # 1
  <2>1. Dropped(new) = {new}
    BY <1>9 DEF Dropped
  <2>2. destroyed' = destroyed
    BY <1>9, <2>1 DEF moveRef
  <2>3. \A x \in Values : ReferNow(x) = IF x = u THEN Refer(u) \cup {v}
                                        ELSE IF x = new THEN Refer(new) \ {v} ELSE Refer(x)
    BY <1>1, <1>4, <2>2 DEF Refer, ReferNow
  <2>4. \A x \in Values : Owners'[x] = IF x = u THEN Owners[u] \cup {v}
                                       ELSE IF x = new THEN Owners[new] \ {v} ELSE Owners[x]
    <3>1. v \notin Direct[new]
      BY <1>1, <1>2
    <3>2. ReferNow(u) = Refer(u) \cup {v} /\ ReferNow(new) = Refer(new) \ {v}
      BY <1>1, <2>3
    <3>3. Owners'[u] = Owners[u] \cup {v} /\ Owners'[new] = Owners[new] \ {v}
      BY <1>1, <1>2, <3>1, <3>2, SMTT(60)
    <3>4. \A x \in Values \ {u, new} : Owners'[x] = Owners[x]
      BY <1>2, <2>3
    <3> QED
      BY <1>1, <3>3, <3>4
  <2>5. \A x \in Values : refcount'[x] = IF x = u THEN refcount[u] + 1
                                         ELSE IF x = new THEN refcount[new] - 1 ELSE refcount[x]
    BY <1>1, <1>7, <2>1, SMTT(60) DEF moveRef
  <2>6. \A x \in Values : refcount'[x] = Cardinality(Owners'[x])
    BY <1>1, <1>7, <2>4, <2>5
  <2>7. \A x \in Values : x \in destroyed' <=> Owners'[x] = {}
    <3>1. Owners[new] \ {v} # {}
      BY <1>5, <1>7, <1>9
    <3> QED
      BY <1>1, <1>3, <1>5, <1>6, <2>2, <2>4, <3>1
  <2> QED
    BY <1>1, <1>11, <2>2, <2>6, <2>7, Counts DEF RefInv
<1>10. CASE refcount[new] = 1
  <2>1. Dropped(new) = {new, u}
    BY <1>8, <1>10 DEF Dropped
  <2>2. destroyed' = destroyed \cup {new}
    BY <1>1, <1>10, <2>1 DEF moveRef
  <2>3. \A x \in Values : ReferNow(x) = IF x = u THEN (Refer(u) \cup {v}) \ {new}
                                        ELSE IF x = new THEN Refer(new) \ {v} ELSE Refer(x)
    BY <1>1, <1>4, <2>2 DEF Refer, ReferNow
  <2>4. \A x \in Values : Owners'[x] = IF x = u THEN (Owners[u] \cup {v}) \ {new}
                                       ELSE IF x = new THEN Owners[new] \ {v} ELSE Owners[x]
    <3>1. new \notin Direct[u] /\ v \notin Direct[new]
      BY <1>1, <1>2
    <3>2. ReferNow(u) = (Refer(u) \cup {v}) \ {new} /\ ReferNow(new) = Refer(new) \ {v}
      BY <1>1, <2>3
    <3>3. Owners'[u] = (Owners[u] \cup {v}) \ {new} /\ Owners'[new] = Owners[new] \ {v}
      BY <1>1, <1>2, <3>1, <3>2, SMTT(60)
    <3>4. \A x \in Values \ {u, new} : Owners'[x] = Owners[x]
      BY <1>2, <2>3
    <3> QED
      BY <1>1, <3>3, <3>4
  <2>5. \A x \in Values : refcount'[x] = IF x = new THEN refcount[new] - 1 ELSE refcount[x]
    BY <1>1, <1>7, <2>1, SMTT(60) DEF moveRef
  <2>6. \A x \in Values : refcount'[x] = Cardinality(Owners'[x])
    BY <1>1, <1>7, <2>4, <2>5
  <2>7. \A x \in Values : x \in destroyed' <=> Owners'[x] = {}
    <3>1. Owners[new] \ {v} = {} /\ (Owners[u] \cup {v}) \ {new} # {}
      BY <1>1, <1>7, <1>10
    <3> QED
      BY <1>1, <1>3, <1>6, <2>2, <2>4, <3>1
  <2> QED
    BY <1>1, <1>11, <2>2, <2>6, <2>7, Counts, SMTT(60) DEF RefInv
<1> QED
  BY <1>9, <1>10

(* An indirect value takes over the outcome of the value it is resolved    *)
(* to, and a reference to the concrete value behind that one.              *)
LEMMA ResolveReadyInv ==
  ASSUME AsyncInv, NEW v \in Values, ResolveReady(v)
  PROVE  AsyncInv'
<1> USE Constants
<1>1. /\ v \in Indirects /\ pcSet[v] \in {"call", "resolve"}
      /\ newValue[v] = Target[v] /\ isReady(waitersAndState[Target[v]].state)
  BY SetsHold DEF SetInv, SetAt, Resolving, ResolveReady
<1>2. PICK new \in Values : new = Target[v]
  BY <1>1
<1>3. PICK s \in {NodeWaiters + 2, NodeWaiters + 3} : s = waitersAndState[new].state
  BY <1>1, <1>2
<1>4. pcSet[new] \in AfterReady /\ s = newState[new] /\ new # v
  <2>1. pcSet[new] \in AfterReady /\ s = newState[new]
    BY <1>1, <1>2, <1>3, WordsHold DEF WordInv, WordAt
  <2> QED
    BY <1>1, <2>1 DEF AfterReady
<1>5. new \in Indirects => /\ payload[new] = Ref(newValue[new]) /\ newValue[new] \in Concretes
                           /\ payload[new].of = newValue[new]
                           /\ waitersAndState[newValue[new]].state = s
  <2>1. pcSet[new] \notin Resolving
    BY <1>4 DEF AfterReady, Resolving
  <2> QED
    BY <1>4, <2>1, LastReference, SetsHold DEF SetInv, SetAt
<1>6. PICK u \in Concretes : /\ u = IF new \in Indirects THEN newValue[new] ELSE new
                             /\ waitersAndState[u].state = s
  BY <1>3, <1>5
<1>7. newValue' = [newValue EXCEPT ![v] = u]
  <2>1. new \in Indirects => newValue' = [newValue EXCEPT ![v] = u]
    BY <1>1, <1>2, <1>5, <1>6 DEF ResolveReady
  <2>2. new \notin Indirects => newValue' = newValue /\ newValue[v] = u
    BY <1>1, <1>2, <1>6 DEF ResolveReady
  <2> QED
    BY <2>1, <2>2, TypesHold, SMTT(60) DEF Types
<1>8. /\ pcSet'[v] = "remove" /\ newState'[v] = s /\ newValue'[v] = u
      /\ \A x \in Values \ {v} : /\ pcSet'[x] = pcSet[x] /\ newState'[x] = newState[x]
                                 /\ newValue'[x] = newValue[x]
      /\ UNCHANGED <<waitersAndState, payload, node, pcThen, oldValue, inlineWaiter, list,
                     queued, ran>>
  BY <1>1, <1>2, <1>3, <1>7, TypesHold DEF Types, ResolveReady, GotoSet, word, thens, work
<1>9. ReadyKept /\ LinksKept
  BY <1>8 DEF ReadyKept, LinksKept
<1>10. Types'
  <2>1. pcSet' \in [Values -> BeforeReady \cup AfterReady]
    BY TypesHold DEF Types, ResolveReady, GotoSet, BeforeReady, BeforeTake
  <2>2. newState' \in [Values -> {kUnconstructed, kAvailable, kError}]
    BY <1>1, <1>2, <1>3, TypesHold DEF Types, ResolveReady
  <2>3. newValue' \in [Values -> Values \cup {Null}]
    BY <1>7, TypesHold DEF Types
  <2> QED
    BY <1>8, <2>1, <2>2, <2>3, TypesHold DEF Types
<1>11. WordInv' /\ PayloadInv'
  <2>1. \A x \in Values \ {v} : StageKept(x)
    BY <1>8 DEF StageKept
  <2>2. UNCHANGED <<waitersAndState, payload, node>>
    BY <1>8
  <2>3. \A x \in Values \ {v} : WordAt(x)'
    BY <1>8, <2>1, <2>2, WordsQuiet, TypesHold, WordsHold
  <2>4. \A x \in Values \ {v} : PayloadAt(x)'
    BY <1>8, <2>1, <2>2, PayloadsQuiet, PayloadsHold
  <2>5. /\ pcSet'[v] = "remove" /\ {pcSet[v], pcSet'[v]} \subseteq BeforeTake
        /\ pcSet[v] \notin AfterReady /\ pcSet'[v] \notin AfterReady
    BY <1>1, <1>8 DEF BeforeTake, Resolving, AfterReady
  <2>6. WordAt(v) /\ PayloadAt(v)
    BY WordsHold, PayloadsHold DEF WordInv, PayloadInv
  <2>7. WordAt(v)'
    BY <2>2, <2>5, <2>6 DEF WordAt
  <2>8. PayloadAt(v)'
    BY <2>2, <2>5, <2>6 DEF PayloadAt
  <2> QED
    BY <2>3, <2>4, <2>7, <2>8 DEF WordInv, PayloadInv
<1>12. ListInv'
  <2>1. UNCHANGED <<list, inlineWaiter, node>>
    BY <1>8
  <2>2. \A x \in Values : pcSet'[x] = pcSet[x] \/ {pcSet[x], pcSet'[x]} \subseteq BeforeTake
    BY <1>1, <1>8 DEF BeforeTake, Resolving
  <2> QED
    BY <2>1, <2>2, ListsQuiet, TypesHold, ListsHold
<1>13. SetInv'
  <2>1. OutcomeInv'
    BY <1>1, <1>8, SetsHold, SMTT(60) DEF SetInv, OutcomeInv, Resolving
  <2>2. SetAt(v)'
    BY <1>1, <1>2, <1>3, <1>6, <1>8, SetsHold DEF SetInv, SetAt, Resolving
  <2>3. ASSUME NEW x \in Indirects \ {v} PROVE SetAt(x)'
    BY <1>8, SetsHold, SMTT(60) DEF SetInv, SetAt
  <2> QED
    BY <2>1, <2>2, <2>3 DEF SetInv
<1>14. ReadInv' /\ WriteInv' /\ ReadyInv'
  BY <1>8, <1>9, ReadsQuiet, WritesQuiet, ReadyQuiet, ReadsHold, WritesHold, ReadyHolds
     DEF Writing
<1>15. NodeInv' /\ ReachInv'
  BY <1>9, NodesQuiet, TypesHold, NodesHold, ReachHolds
<1>16. SlotInv'
  BY <1>1, <1>8, <1>9, SlotsQuiet, SlotsHold DEF Claiming
<1>17. PlacesInv'
  BY <1>8, PlacesQuiet, PlacesHold DEF Calling, Known
<1>18. RefInv'
  <2>1. \A x \in Values : pcSet'[x] \in BeforeReady \cup {"dropRef"}
                          <=> pcSet[x] \in BeforeReady \cup {"dropRef"}
    BY <1>1, <1>8 DEF BeforeReady, BeforeTake, Resolving
  <2>2. pcSet[v] \in BeforeReady
    BY <1>1 DEF BeforeReady, BeforeTake, Resolving
  <2>3. CASE new \in Indirects
    <3>1. moveRef(new, u) /\ newValue[v] = new /\ newValue[new] = u /\ payload[new] = Ref(u)
      BY <1>1, <1>2, <1>5, <1>6, <2>3 DEF ResolveReady
    <3>2. Direct' = Direct
      BY <1>8, <2>1, SMTT(60) DEF Direct
    <3> QED
      BY <1>1, <1>4, <1>7, <2>2, <2>3, <3>1, <3>2, MoveRefRefs
  <2>4. CASE new \notin Indirects
    <3>1. UNCHANGED <<refcount, destroyed, newValue>>
      BY <1>1, <1>2, <2>4 DEF ResolveReady, life
    <3> QED
      BY <1>1, <1>8, <3>1, RefsQuiet, RefsHold
         DEF OwnersKept, BeforeReady, BeforeTake, Resolving
  <2> QED
    BY <2>3, <2>4
<1> QED
  BY <1>10, <1>11, <1>12, <1>13, <1>14, <1>15, <1>16, <1>17, <1>18 DEF AsyncInv

-----------------------------------------------------------------------------
(***************************************************************************)
(* The invariant                                                           *)
(***************************************************************************)
(* It holds before any andThenSync is called and any value completed. *)
LEMMA InitInv ==
  ASSUME Init
  PROVE  AsyncInv
<1> USE Constants
<1>1. /\ \A v \in Values : /\ waitersAndState[v].head = Null /\ waitersAndState[v].state = 0
                           /\ payload[v] = Nothing /\ pcSet[v] = "call"
                           /\ newState[v] = kUnconstructed /\ inlineWaiter[v] = Null
                           /\ list[v].head = Null /\ list[v].valid = 0
      /\ \A v \in Indirects : newValue[v] = Target[v]
      /\ \A v \in Concretes : newValue[v] = Null
      /\ \A w \in Users : pcThen[w] = "call"
      /\ \A w \in Indirects : pcThen[w] = "none"
      /\ queued = {} /\ destroyed = {} /\ \A w \in Waiters : ran[w] = 0
  BY DEF Init
<1>2. FreeNode \in Nodes /\ ~FreeNode.live
  BY DEF FreeNode, Nodes
<1>3. \A w \in Waiters : node[w] = FreeNode /\ ~node[w].live
  BY <1>2 DEF Init
<1>4. Types
  <2>1. waitersAndState \in [Values -> Words] /\ oldValue \in [Waiters -> Words]
    BY SMTT(60) DEF Init, Words
  <2>2. pcThen \in [Waiters -> ThenLabels] /\ pcSet \in [Values -> BeforeReady \cup AfterReady]
    BY DEF Init, ThenLabels, BeforeReady, BeforeTake, Resolving
  <2>3. newValue \in [Values -> Values \cup {Null}]
    BY DEF Init
  <2>4. list \in [Values -> [head : Waiters \cup {Null}, valid : 0..NodeWaiters]]
    BY SMTT(60) DEF Init
  <2>5. node \in [Waiters -> Nodes]
    BY <1>2 DEF Init
  <2> QED
    BY <2>1, <2>2, <2>3, <2>4, <2>5 DEF Init, Types
<1>5. WordInv /\ PayloadInv /\ ListInv
  <2>4. \A v \in Values : pcSet[v] \in {"call", "waiting"} /\ pcSet[v] \notin AfterReady
                          /\ pcSet[v] \in BeforeTake
    BY <1>1 DEF AfterReady, BeforeTake, Resolving
  <2>5. \A v \in Values : /\ waitersAndState[v].state = kUnconstructed
                          /\ waitersAndState[v].head = Null /\ payload[v] = Nothing
    BY <1>1
  <2>1. WordInv
    BY <2>4, <2>5, SMTT(60) DEF WordInv, WordAt
  <2>2. PayloadInv
    BY <2>4, <2>5, SMTT(60) DEF PayloadInv, PayloadAt
  <2>3. ListInv
    BY <1>1 DEF ListInv
  <2> QED
    BY <2>1, <2>2, <2>3
<1>6. SetInv
  BY <1>1 DEF SetInv, OutcomeInv, SetAt, Resolving
<1>7. ReadInv /\ WriteInv /\ ReadyInv
  BY <1>1, <1>3, SMTT(60) DEF ReadInv, ReadAt, WriteInv, WriteAt, Writing, ReadyInv
<1>8. NodeInv /\ ReachInv
  BY <1>3 DEF NodeInv, ReachInv
<1>9. SlotInv
  BY <1>1, <1>3 DEF SlotInv, SlotsAt, ClaimAt, Claiming
<1>10. PlacesInv
  <2>1. Known = Calling
    BY <1>1, SMTT(60) DEF Known, Calling
  <2>2. Inline = {} /\ MovedOut = {} /\ InSlots = {} /\ HasRun = {}
    BY <1>1, <1>3, Payloads, SMTT(60) DEF Inline, MovedOut, InSlots, HasRun
  <2>3. \A v \in Values : \A w \in Waiters : ~(payload[v] = Waiter(w) \/ inlineWaiter[v] = w)
    BY <1>1, Payloads, SMTT(60)
  <2> QED
    BY <1>1, <1>3, <2>1, <2>2, <2>3 DEF PlacesInv, PlacedOnce, AtTarget, SlotsDiffer
<1>11. RefInv
  <2>1. ASSUME NEW v \in Values
        PROVE  refcount[v] = Cardinality(Owners[v]) /\ Owners[v] # {}
    <3>1. PICK S : S = {w \in Waiters : Target[w] = v}
      OBVIOUS
    <3>2. Owners[v] = S \cup {Null}
      <4>1. {x \in {Null} : pcSet[v] \in BeforeReady \cup {"dropRef"}} = {Null}
        BY <1>1 DEF BeforeReady, BeforeTake, Resolving
      <4>2. {w \in Users : Target[w] = v /\ pcThen[w] # "done"}
              \cup {u \in Indirects : newValue[u] = v /\ u \notin destroyed} = S
        BY <1>1, <3>1, SMTT(60)
      <4> QED
        BY <4>1, <4>2 DEF Owners
    <3>3. IsFiniteSet(S) /\ Null \notin S
      BY <3>1, AsyncValueAssumption, FiniteSet
    <3>4. Cardinality(S \cup {Null}) = Cardinality(S) + 1 /\ Cardinality(S) \in Nat
      BY <3>3, Counting
    <3>5. refcount[v] = 1 + Cardinality(S)
      BY <3>1 DEF Init
    <3> QED
      BY <3>2, <3>4, <3>5, SMTT(60)
  <2>2. refcount = [v \in Values |-> refcount[v]]
    BY DEF Init
  <2> QED
    BY <1>1, <2>1, <2>2, SMTT(60) DEF RefInv
<1> QED
  BY <1>4, <1>5, <1>6, <1>7, <1>8, <1>9, <1>10, <1>11 DEF AsyncInv

(* Every step of every thread keeps it. *)
LEMMA NextInv ==
  ASSUME AsyncInv, [Next]_vars
  PROVE  AsyncInv'
<1>1. ASSUME NEW w \in Waiters, ThenStep(w) PROVE AsyncInv'
  <2>1. CASE Load(w) \/ ClaimFails(w)
    BY <2>1, DispatchInv DEF Load, ClaimFails
  <2> QED
    BY <1>1, <2>1, ClaimInlineInv, WriteInlineInv, PublishInlineInv, ClaimSlotInv, SetWaiterInv,
       SetInitializedInv, InstallInv, InstallFailsInv, ReturnInv DEF ThenStep
<1>2. ASSUME NEW w \in Waiters, RunQueued(w) PROVE AsyncInv'
  BY <1>2, RunQueuedInv
<1>3. ASSUME NEW v \in Values, SetStep(v) PROVE AsyncInv'
  BY <1>3, CompleteConcreteInv, ResolveReadyInv, ResolveLaterInv, RemoveNoWaiterInv, MoveOnInv,
     TakeInlineWaiterInv, ConstructInv, ExchangeInv, NotifyDropRefInv, RunInlineWaiterInv,
     RunFirstInv, RunRestInv DEF SetStep
<1> QED
  BY <1>1, <1>2, <1>3, StutterInv DEF Next, Finished

(* The invariant of the futures holds in every reachable state. *)
THEOREM AsyncInvariant == Spec => []AsyncInv
BY InitInv, NextInv, PTL DEF Spec

(* Both invariants hold together. *)
LEMMA AllInvariants == Spec => [](AsyncInv /\ MoreInv)
<1>1. Init => MoreInv
  BY Constants, SMTT(60) DEF Init, MoreInv
<1> QED
  BY <1>1, InitInv, NextInv, MoreKept, PTL DEF Spec

-----------------------------------------------------------------------------
(***************************************************************************)
(* The properties                                                          *)
(***************************************************************************)
(* A ready value that is not destroyed has its result in its storage.      *)
LEMMA Ready ==
  ASSUME AsyncInv
  PROVE  ReadyHoldsResult
<1> USE Constants
<1>1. ASSUME NEW v \in Values, isReady(waitersAndState[v].state), v \notin destroyed
      PROVE  LET s == waitersAndState[v].state IN
             \/ v \in Concretes /\ payload[v] = Result(s)
             \/ /\ v \in Indirects /\ payload[v].holds = "ref"
                /\ payload[v].of \in Concretes \ destroyed
                /\ waitersAndState[payload[v].of].state = s
  <2>1. pcSet[v] \in AfterReady /\ waitersAndState[v].state = newState[v] /\ pcSet[v] \notin Resolving
    BY <1>1, WordsHold DEF WordInv, WordAt, AfterReady, Resolving
  <2>2. CASE v \in Concretes
    <3>1. v \notin Indirects
      BY <2>2
    <3> QED
      BY <2>1, <2>2, <3>1, PayloadsHold DEF PayloadInv, PayloadAt
  <2>3. CASE v \in Indirects
    <3>1. PICK u \in Concretes : u = newValue[v] /\ payload[v].holds = "ref" /\ payload[v].of = u
      BY <2>1, <2>3, LastReference
    <3>2. waitersAndState[u].state = newState[v]
      BY <2>1, <2>3, <3>1, SetsHold DEF SetInv, SetAt
    <3>3. v \in Owners[u] /\ u \in Values
      BY <1>1, <2>3, <3>1, OwnersAre, SMTT(60)
    <3>4. u \notin destroyed
      BY <3>3, Counts, RefsHold
    <3> QED
      BY <2>1, <2>3, <3>1, <3>2, <3>4
  <2> QED
    BY <2>2, <2>3
<1>2. ASSUME NEW v \in destroyed PROVE isReady(waitersAndState[v].state)
  <2>1. v \in Values /\ Owners[v] = {}
    BY Counts, RefsHold
  <2>2. pcSet[v] \notin BeforeReady \cup {"dropRef"}
    BY <2>1, OwnersAre
  <2>3. pcSet[v] \in AfterReady
    BY <2>1, <2>2, TypesHold DEF Types
  <2> QED
    BY <2>1, <2>3, WordsHold DEF WordInv, WordAt
<1> QED
  BY <1>1, <1>2 DEF ReadyHoldsResult

(* Every variable keeps its type, and the storage of a ready value holds   *)
(* its result, through an indirect value too.                              *)
THEOREM TypeCorrect == Spec => []TypeOK
<1> USE Constants
<1>1. ASSUME AsyncInv, MoreInv PROVE TypeOK
  <2>1. ASSUME NEW v \in Values
        PROVE  payload[v] \in {Nothing, Result(kAvailable), Result(kError)}
                 \cup {Waiter(w) : w \in Waiters} \cup {Ref(u) : u \in Values}
    <3>1. CASE pcSet[v] \in Built
      <4>1. payload[v] = IF v \in Indirects THEN Ref(newValue[v]) ELSE Result(newState[v])
        BY <1>1, <3>1, PayloadsHold DEF Built, PayloadInv, PayloadAt
      <4>2. pcSet[v] \notin Resolving
        BY <3>1 DEF Built, AfterReady, Resolving
      <4>3. v \in Indirects => newValue[v] \in Values
        BY <1>1, <4>2, SetsHold DEF SetInv, SetAt
      <4>4. newState[v] \in {kAvailable, kError}
        BY <1>1, <4>2, SetsHold DEF SetInv, OutcomeInv
      <4> QED
        BY <4>1, <4>3, <4>4
    <3>2. CASE pcSet[v] \notin Built
      BY <1>1, <3>2 DEF MoreInv
    <3> QED
      BY <3>1, <3>2
  <2>2. ASSUME NEW v \in Values
        PROVE  /\ waitersAndState[v].head \in Waiters \cup {Null}
               /\ waitersAndState[v].state \in 0..kError
               /\ inlineWaiter[v] \in Waiters \cup {Null}
               /\ newValue[v] \in Values \cup {Null}
               /\ list[v].head \in Waiters \cup {Null} /\ list[v].valid \in 0..NodeWaiters
    BY <1>1, TypesHold DEF Types, Words
  <2>3. ASSUME NEW w \in Waiters
        PROVE  /\ \A k \in 1..NodeWaiters : node[w].waiters[k] \in Waiters \cup {Null}
               /\ node[w].initialized \subseteq 2..NodeWaiters
               /\ node[w].next \in Waiters \cup {Null}
    <3>1. node[w] \in Nodes
      BY <1>1, TypesHold DEF Types
    <3> QED
      BY <3>1 DEF Nodes
  <2>4. refcount \in [Values -> Nat] /\ destroyed \subseteq Values
    <3>1. \A v \in Values : refcount[v] \in Nat
      BY <1>1, Counts, RefsHold
    <3> QED
      BY <1>1, <3>1, RefsHold DEF RefInv
  <2>5. queued \subseteq Waiters /\ ran \in [Waiters -> Nat]
    BY <1>1, TypesHold, SMTT(60) DEF Types
  <2> QED
    BY <1>1, <2>1, <2>2, <2>3, <2>4, <2>5, Ready DEF TypeOK
<1> QED
  BY <1>1, AllInvariants, PTL

(* A value that an activation may touch has an owner. *)
LEMMA UsedIsOwned ==
  ASSUME AsyncInv, MoreInv, NEW v \in Values, UsesValue(v)
  PROVE  v \notin destroyed
<1> USE Constants
<1>1. \A x \in Values : pcSet[x] \in BeforeReady \cup {"dropRef"} => x \notin destroyed
  BY OwnersAre, Counts, RefsHold, SMTT(60)
<1>2. \A x \in Values : Owners[x] # {} => x \notin destroyed
  BY Counts, RefsHold
<1>3. CASE \E w \in Waiters :
              /\ Target[w] = v
              /\ pcThen[w] \in {"call", "load", "claimInline", "writeInline", "publishInline",
                                "claimSlot", "install"}
  <2>1. PICK w \in Waiters :
              /\ Target[w] = v
              /\ pcThen[w] \in {"call", "load", "claimInline", "writeInline", "publishInline",
                                "claimSlot", "install"}
    BY <1>3
  <2>2. CASE w \in Users
    BY <1>2, <2>1, <2>2 DEF Owners
  <2>3. CASE w \in Indirects
    <3>1. w \in Calling \cup Inline
      BY <2>1, WritesHold DEF Calling, Inline, WriteInv, WriteAt, Writing
    <3>2. pcSet[w] = "waiting"
      BY <2>3, <3>1, Waits
    <3>3. newValue[w] = v
      BY <2>1, <2>3, <3>2, SetsHold DEF SetInv, SetAt, Resolving
    <3>4. w \notin destroyed
      BY <1>1, <2>3, <3>2 DEF BeforeReady, BeforeTake, Resolving
    <3> QED
      BY <1>2, <2>3, <3>3, <3>4 DEF Owners
  <2> QED
    BY <2>2, <2>3
<1>4. CASE pcSet[v] \in {"remove", "take", "construct", "exchange", "dropRef", "resolve"}
  BY <1>1, <1>4 DEF BeforeReady, BeforeTake, Resolving
<1>5. CASE \E u \in Indirects : pcSet[u] = "resolve" /\ newValue[u] = v
  <2>1. PICK u \in Indirects : pcSet[u] = "resolve" /\ newValue[u] = v
    BY <1>5
  <2>2. u \notin destroyed
    BY <1>1, <2>1 DEF BeforeReady, BeforeTake, Resolving
  <2> QED
    BY <1>2, <2>1, <2>2 DEF Owners
<1>6. CASE \E u \in Values \ destroyed : payload[u] = Ref(v)
  <2>1. PICK u \in Values \ destroyed : payload[u] = Ref(v)
    BY <1>6
  <2>2. pcSet[u] \in Built
    <3>1. Ref(v) # Nothing
      BY Payloads, SMTT(60) DEF Nothing
    <3> QED
      BY <2>1, <3>1, Payloads, SMTT(60) DEF MoreInv
  <2>3. payload[u] = IF u \in Indirects THEN Ref(newValue[u]) ELSE Result(newState[u])
    BY <2>2, PayloadsHold DEF Built, PayloadInv, PayloadAt
  <2>4. u \in Indirects /\ newValue[u] = v
    <3>1. /\ Ref(v).of = v /\ Ref(v).holds = "ref"
          /\ Ref(newValue[u]).of = newValue[u] /\ Result(newState[u]).holds # "ref"
      BY Payloads
    <3> QED
      BY <2>1, <2>3, <3>1
  <2> QED
    BY <1>2, <2>1, <2>4 DEF Owners
<1> QED
  BY <1>3, <1>4, <1>5, <1>6 DEF UsesValue

(* No thread touches a value after its last reference is gone, nor a node  *)
(* that is deleted.                                                        *)
THEOREM NothingUsedAfterFree == Spec => []NoUseAfterFree
<1> USE Constants
<1>1. ASSUME AsyncInv, MoreInv PROVE NoUseAfterFree
  <2>1. ASSUME NEW v \in destroyed PROVE ~UsesValue(v)
    <3>1. v \in Values
      BY <1>1, Counts, RefsHold
    <3> QED
      BY <1>1, <3>1, UsedIsOwned
  <2>2. ASSUME NEW n \in Waiters, UsesNode(n) PROVE node[n].live
    <3>1. CASE \E w \in Waiters :
                 oldValue[w].head = n /\ pcThen[w] \in {"setWaiter", "setInitialized"}
      BY <1>1, <3>1, SlotsHold DEF SlotInv, ClaimAt, Claiming
    <3>2. CASE \E v \in Values : list[v].head = n /\ pcSet[v] \in {"list", "rest"}
      BY <1>1, <3>2, ListsHold DEF ListInv
    <3>3. CASE \E v \in Values : waitersAndState[v].head = n
      BY <1>1, <3>3, WordsHold DEF WordInv, WordAt
    <3> QED
      BY <2>2, <3>1, <3>2, <3>3 DEF UsesNode
  <2> QED
    BY <2>1, <2>2 DEF NoUseAfterFree
<1> QED
  BY <1>1, AllInvariants, PTL

(* When every call has returned, every value is completed and the work     *)
(* queue is empty, all values are destroyed and all nodes deleted.         *)
THEOREM NothingIsLeaked == Spec => []NothingLeaks
<1> USE Constants
<1>1. ASSUME AsyncInv, MoreInv, AllDone
      PROVE  destroyed = Values /\ \A n \in Waiters : ~node[n].live
  <2>1. /\ \A w \in Users : pcThen[w] = "done"
        /\ \A v \in Values : /\ pcSet[v] = "done" /\ pcSet[v] \in AfterReady
                             /\ pcSet[v] \notin Resolving
                             /\ pcSet[v] \notin BeforeReady \cup {"dropRef"}
    BY <1>1 DEF AllDone, MoreInv, AfterReady, BeforeReady, BeforeTake, Resolving
  <2>2. \A v \in Values : v \in destroyed <=> Owners[v] = {}
    BY <1>1, Counts, RefsHold
  <2>3. \A u \in Indirects : newValue[u] \in Concretes
    BY <1>1, <2>1, SetsHold DEF SetInv, SetAt
  <2>4. \A v \in Values : Owners[v] = {u \in Indirects : newValue[u] = v /\ u \notin destroyed}
    BY <2>1 DEF Owners
  <2>5. ASSUME NEW v \in Indirects PROVE v \in destroyed
    BY <2>2, <2>3, <2>4, SMTT(60)
  <2>6. ASSUME NEW v \in Values PROVE v \in destroyed
    BY <2>2, <2>4, <2>5
  <2>7. \A v \in Values : waitersAndState[v].head = Null /\ list[v].head = Null
    <3>1. \A v \in Values : isReady(waitersAndState[v].state)
      BY <1>1, <2>1, WordsHold DEF WordInv, WordAt
    <3> QED
      BY <1>1, <2>1, <3>1, WordsHold, ListsHold DEF WordInv, WordAt, ListInv
  <2>8. {n \in Waiters : node[n].live} = {}
    <3> DEFINE C == {n \in Waiters : node[n].live}
    <3>1. SUFFICES ASSUME C # {} PROVE FALSE
      OBVIOUS
    <3>2. PICK n \in C : \/ waitersAndState[Target[n]].head = n
                         \/ list[Target[n]].head = n
                         \/ \E m \in Waiters \ C : node[m].live /\ node[m].next = n
      BY <1>1, <3>1, ReachHolds DEF ReachInv
    <3> QED
      BY <2>7, <3>2
  <2> QED
    BY <1>1, <2>6, <2>8, Counts, RefsHold
<1>2. ASSUME AsyncInv, MoreInv PROVE NothingLeaks
  BY <1>1, <1>2 DEF NothingLeaks
<1> QED
  BY <1>2, AllInvariants, PTL

(* A set with a member that is its only one has one element. *)
LEMMA CardinalityOne ==
  ASSUME NEW S, NEW P, P \in BOOLEAN, NEW e, P => S = {e}, ~P => S = {}
  PROVE  Cardinality(S) = IF P THEN 1 ELSE 0
<1>1. Cardinality({e}) = 1 /\ Cardinality({}) = 0
  BY FiniteSet
<1> QED
  BY <1>1

(* The places of a waiter, counted. *)
LEMMA HeldAre ==
  ASSUME AsyncInv, NEW w \in Waiters
  PROVE  Held(w) = (IF w \in Calling THEN 1 ELSE 0) + (IF w \in queued THEN 1 ELSE 0)
                   + (IF w \in Inline THEN 1 ELSE 0) + (IF w \in MovedOut THEN 1 ELSE 0)
                   + (IF w \in InSlots THEN 1 ELSE 0)
<1> USE Constants
<1>1. \A v \in Values : payload[v] = Waiter(w) \/ inlineWaiter[v] = w => Target[w] = v
  BY PlacesHold DEF PlacesInv, AtTarget
<1>2. Cardinality({v \in Values : payload[v] = Waiter(w)}) = IF w \in Inline THEN 1 ELSE 0
  <2>1. w \in Inline => {v \in Values : payload[v] = Waiter(w)} = {Target[w]}
    BY <1>1 DEF Inline
  <2>2. w \notin Inline => {v \in Values : payload[v] = Waiter(w)} = {}
    BY <1>1 DEF Inline
  <2> QED
    BY <2>1, <2>2, CardinalityOne
<1>3. Cardinality({v \in Values : inlineWaiter[v] = w}) = IF w \in MovedOut THEN 1 ELSE 0
  <2>1. w \in MovedOut => {v \in Values : inlineWaiter[v] = w} = {Target[w]}
    BY <1>1 DEF MovedOut
  <2>2. w \notin MovedOut => {v \in Values : inlineWaiter[v] = w} = {}
    BY <1>1 DEF MovedOut
  <2> QED
    BY <2>1, <2>2, CardinalityOne
<1>4. Cardinality({x \in Waiters \X (1..NodeWaiters) :
                     node[x[1]].live /\ node[x[1]].waiters[x[2]] = w})
        = IF w \in InSlots THEN 1 ELSE 0
  <2> DEFINE S == {x \in Waiters \X (1..NodeWaiters) :
                     node[x[1]].live /\ node[x[1]].waiters[x[2]] = w}
  <2>1. CASE w \notin InSlots
    <3>1. S = {}
      BY <2>1 DEF InSlots
    <3> QED
      BY <2>1, <3>1, FiniteSet
  <2>2. CASE w \in InSlots
    <3>1. PICK n \in Waiters, k \in 1..NodeWaiters : node[n].live /\ node[n].waiters[k] = w
      BY <2>2 DEF InSlots
    <3>2. w # Null
      OBVIOUS
    <3>3. ASSUME NEW m \in Waiters, NEW l \in 1..NodeWaiters,
                 node[m].live, node[m].waiters[l] = w
          PROVE  m = n /\ l = k
      BY <3>1, <3>2, <3>3, PlacesHold, SMTT(60) DEF PlacesInv, SlotsDiffer
    <3>4. S = {<<n, k>>}
      BY <3>1, <3>3, SMTT(60)
    <3> QED
      BY <2>2, <3>4, FiniteSet
  <2> QED
    BY <2>1, <2>2
<1>5. pcThen[w] \in {"call", "load", "claimInline", "writeInline", "claimSlot", "setWaiter",
                     "install"} <=> w \in Calling
  BY DEF Calling
<1> QED
  BY <1>2, <1>3, <1>4, <1>5 DEF Held

(* A waiter given to andThenSync is in one place until it has run and in   *)
(* none afterwards.                                                        *)
THEOREM WaitersAreConserved == Spec => []WaitersConserved
<1>1. ASSUME AsyncInv, NEW w \in Waiters
      PROVE  IF pcThen[w] = "none" THEN Held(w) = 0 /\ ran[w] = 0 ELSE Held(w) + ran[w] = 1
  <2>1. ran[w] = IF w \in HasRun THEN 1 ELSE 0
    BY <1>1, TypesHold DEF HasRun, Types
  <2>2. pcThen[w] = "none" <=> w \notin Known
    BY DEF Known
  <2> DEFINE a == w \in Calling
             b == w \in queued
             c == w \in Inline
             d == w \in MovedOut
             e == w \in InSlots
             f == w \in HasRun
  <2>4. /\ w \in Known <=> a \/ b \/ c \/ d \/ e \/ f
        /\ a => ~b /\ ~c /\ ~d /\ ~e /\ ~f
        /\ b => ~c /\ ~d /\ ~e /\ ~f
        /\ c => ~d /\ ~e /\ ~f
        /\ d => ~e /\ ~f
        /\ e => ~f
    BY <1>1, PlacesHold DEF PlacesInv, PlacedOnce
  <2>5. Held(w) = (IF a THEN 1 ELSE 0) + (IF b THEN 1 ELSE 0) + (IF c THEN 1 ELSE 0)
                  + (IF d THEN 1 ELSE 0) + (IF e THEN 1 ELSE 0)
    BY <1>1, HeldAre
  <2>6. ran[w] = IF f THEN 1 ELSE 0
    BY <2>1
  <2> HIDE DEF a, b, c, d, e, f
  <2> QED
    BY <2>2, <2>4, <2>5, <2>6, SMTT(60)
<1>2. AsyncInv => WaitersConserved
  BY <1>1 DEF WaitersConserved
<1> QED
  BY <1>2, AsyncInvariant, PTL

(* The futures implement the abstract future: a value becomes ready once,  *)
(* an indirect one with the outcome of its target, and waiters run once    *)
(* and only when their value is ready.                                     *)
THEOREM FutureImplemented == Spec => ImplementsFuture
<1>1. Init => F!FutureInit
  <2> SUFFICES ASSUME Init PROVE F!FutureInit
    OBVIOUS
  <2>1. \A v \in Values : FutureState[v] = "pending"
    BY Constants, States, SMTT(60) DEF Init, FutureState
  <2>2. FutureState = [v \in Values |-> "pending"]
    BY <2>1 DEF FutureState
  <2> QED
    BY <2>2 DEF F!FutureInit, FutureState, StateOf, Init, Values, Waiters
<1>2. AsyncInv /\ [Next]_vars => [F!FutureNext]_<<FutureState, ran>>
  BY FutureStep
<1> QED
  BY <1>1, <1>2, AsyncInvariant, PTL DEF Spec, ImplementsFuture, F!FutureSpec, FutureState, StateOf
=============================================================================
