---------------------- MODULE LockFreeRingBufferProofs ----------------------
(***************************************************************************)
(* Proofs about LockFreeRingBuffer for every number of threads, every      *)
(* size and every number of calls.                                         *)
(***************************************************************************)
EXTENDS LockFreeRingBuffer, SequenceTheorems, TLAPS

\* The prover of every leaf that names no other.
USE SMTT(60)

(* What the proofs need of SizeAssumption. *)
LEMMA SizePositive == size \in Nat /\ size > 0
  BY SizeAssumption DEF SizeAssumption

(* The slot of an index is a slot of the buffer. *)
LEMMA SlotType == \A i \in Nat : slot(i) \in 0..(size - 1)
  BY SizePositive DEF slot

(* An index is a number of laps and a slot. *)
LEMMA SlotDivision ==
  \A i \in Nat : i \div size \in Int /\ i = size * (i \div size) + slot(i)
  BY SizePositive DEF slot

(* A multiple of size smaller than size is zero. *)
LEMMA SmallMultiple ==
  ASSUME NEW d \in Int, - size < size * d, size * d < size
  PROVE  d = 0
<1>1. CASE d >= 1
  <2>1. size * d >= size
    BY SizePositive, <1>1
  <2> QED  BY SizePositive, <2>1
<1>2. CASE d <= -1
  <2>1. size * d <= - size
    BY SizePositive, <1>2
  <2> QED  BY SizePositive, <2>1
<1> QED  BY <1>1, <1>2

(* Two indices less than one lap apart have different slots: masking with  *)
(* size - 1 is injective on any window of size indices.                    *)
LEMMA SlotInjective ==
  ASSUME NEW i \in Nat, NEW j \in Nat, i < j + size, j < i + size, slot(i) = slot(j)
  PROVE  i = j
<1> DEFINE qi == i \div size
           qj == j \div size
<1>1. /\ qi \in Int /\ i = size * qi + slot(i)
      /\ qj \in Int /\ j = size * qj + slot(j)
  BY SlotDivision
<1> HIDE DEF qi, qj
<1>2. j - i = size * (qj - qi)
  BY <1>1, SizePositive, SlotType
<1>3. qj - qi = 0
  BY <1>1, <1>2, SizePositive, SmallMultiple
<1> QED  BY <1>1, <1>2, <1>3, SizePositive

(* The index one lap ahead has the same slot. *)
LEMMA SlotPeriodic ==
  ASSUME NEW i \in Nat
  PROVE  slot(i + size) = slot(i)
<1> DEFINE j == i + size
           qi == i \div size
           qj == j \div size
<1>1. j \in Nat
  BY SizePositive
<1>2. /\ qi \in Int /\ i = size * qi + slot(i)
      /\ qj \in Int /\ j = size * qj + slot(j)
  BY <1>1, SlotDivision
<1>3. slot(i) \in 0..(size - 1) /\ slot(j) \in 0..(size - 1)
  BY <1>1, SlotType
<1>4. j = i + size
  OBVIOUS
<1> HIDE DEF qi, qj, j
<1>5. slot(j) - slot(i) = size * (1 + qi - qj)
  BY <1>2, <1>3, <1>4, SizePositive
<1>6. 1 + qi - qj = 0
  BY <1>2, <1>3, <1>5, SizePositive, SmallMultiple
<1> QED  BY <1>3, <1>5, <1>6, SizePositive DEF j

(***************************************************************************)
(* Every step preserves RingInv                                            *)
(***************************************************************************)
(* The constructor leaves the counters, the owners and the slots in accord. *)
LEMMA InitRingInv == Init => RingInv
<1> SUFFICES ASSUME Init PROVE RingInv
  OBVIOUS
<1> USE DEF Init, Threads
<1>1. TypeOK
  BY BoundAssumption DEF TypeOK, BoundAssumption
<1>2. IndexOrder
  BY SizePositive DEF IndexOrder
<1>3. IndicesOwned
  BY DEF IndicesOwned, Writing, Reading
<1>4. ViewsSafe
  BY DEF ViewsSafe
<1>5. SlotsHold
  <2>1. \A i \in 0..(size - 1) : buffer[slot(i)] = Empty
    BY SlotType, SizePositive
  <2> QED  BY <2>1, SizePositive DEF SlotsHold
<1>6. HandsHold
  BY DEF HandsHold
<1> QED  BY <1>1, <1>2, <1>3, <1>4, <1>5, <1>6 DEF RingInv

(* A call of enqueue begins. *)
LEMMA EnqueueLoadConsumedInv ==
  ASSUME RingInv, NEW t \in Threads, NEW x \in Items, EnqueueLoadConsumed(t, x)
  PROVE  RingInv'
<1> USE DEF RingInv, EnqueueLoadConsumed, Goto, atomics
<1>1. TypeOK'
  BY BoundAssumption DEF TypeOK, BoundAssumption, Enqueuing, Dequeuing
<1>2. IndexOrder'
  BY SizePositive DEF IndexOrder, TypeOK
<1>3. IndicesOwned'
  BY DEF IndicesOwned, Writing, Reading, TypeOK
<1>4. ViewsSafe'
  BY SizePositive DEF ViewsSafe, TypeOK, IndexOrder
<1>5. SlotsHold'
  BY DEF SlotsHold, TypeOK, slot
<1>6. HandsHold'
  BY DEF HandsHold, TypeOK
<1> QED  BY <1>1, <1>2, <1>3, <1>4, <1>5, <1>6

(* enqueue reads writeIndex: a buffer that does not look full is not full. *)
LEMMA EnqueueLoadWriteIndexInv ==
  ASSUME RingInv, NEW t \in Threads, EnqueueLoadWriteIndex(t)
  PROVE  RingInv'
<1> USE DEF RingInv, EnqueueLoadWriteIndex, Goto, atomics, GiveUp
<1>1. TypeOK'
  BY BoundAssumption, ZenonT(120) DEF TypeOK, BoundAssumption, Enqueuing, Dequeuing
<1>2. IndexOrder'
  BY SizePositive DEF IndexOrder, TypeOK
<1>3. IndicesOwned'
  BY DEF IndicesOwned, Writing, Reading, TypeOK
<1>4. ViewsSafe'
  BY SizePositive DEF ViewsSafe, TypeOK, IndexOrder, LooksFull, Distance
<1>5. SlotsHold'
  BY DEF SlotsHold, TypeOK, slot
<1>6. HandsHold'
  BY ZenonT(120) DEF HandsHold, TypeOK
<1> QED  BY <1>1, <1>2, <1>3, <1>4, <1>5, <1>6

(* A successful claim finds a free slot and an index nobody owns. *)
LEMMA EnqueueClaimInv ==
  ASSUME RingInv, NEW t \in Threads, EnqueueClaim(t)
  PROVE  RingInv'
<1> USE DEF RingInv, EnqueueClaim, Goto, atomics
<1>1. TypeOK'
  <2>1. item[t] \in Items
    BY DEF HandsHold
  <2>2. claimed' \in Seq(Items)
    BY <2>1 DEF TypeOK
  <2> QED  BY <2>2 DEF TypeOK, Enqueuing, Dequeuing
<1>2. IndexOrder'
  BY SizePositive DEF IndexOrder, ViewsSafe, TypeOK
<1>3. IndicesOwned'
  BY DEF IndicesOwned, Writing, Reading, TypeOK, IndexOrder
<1>4. ViewsSafe'
  BY SizePositive DEF ViewsSafe, TypeOK, IndexOrder
<1>5. SlotsHold'
  <2>1. /\ writeIndex = cur[t] /\ writeIndex < consumed + size
        /\ buffer[slot(writeIndex)] = Empty
    BY SizePositive DEF ViewsSafe, SlotsHold, TypeOK, IndexOrder
  <2>2. \A i \in 0..(writeIndex - 1) : claimed'[i + 1] = claimed[i + 1]
    BY DEF HandsHold, TypeOK
  <2>3. ASSUME NEW i \in readIndex..(published - 1)
        PROVE  buffer[slot(i)] = claimed'[i + 1]
    <3>1. i \in 0..(writeIndex - 1)
      BY DEF TypeOK, IndexOrder
    <3> QED  BY <2>2, <3>1, ZenonT(120) DEF SlotsHold
  <2>4. ASSUME NEW i \in (writeIndex + 1)..(consumed + size - 1)
        PROVE  buffer[slot(i)] = Empty
    BY SizePositive DEF SlotsHold, TypeOK
  <2>5. ASSUME NEW u \in Threads, pc'[u] \in {"readSlot", "publish"}
        PROVE  buffer[slot(cur[u])] = claimed'[cur[u] + 1]
    <3>1. pc[u] \in {"readSlot", "publish"}
      BY <2>5 DEF TypeOK
    <3>2. cur[u] \in 0..(writeIndex - 1)
      BY <3>1 DEF TypeOK, IndexOrder, IndicesOwned, Writing, Reading
    <3> QED  BY <2>2, <3>1, <3>2, ZenonT(120) DEF SlotsHold
  <2>6. ASSUME NEW u \in Threads, pc'[u] \in {"writeSlot", "consume"}
        PROVE  buffer[slot(cur[u])] = Empty
    BY <2>1, <2>6 DEF SlotsHold, TypeOK
  <2> QED  BY <2>1, <2>3, <2>4, <2>5, <2>6, ZenonT(120) DEF SlotsHold
<1>6. HandsHold'
  <2>1. \A i \in 0..(writeIndex - 1) : claimed'[i + 1] = claimed[i + 1]
    BY DEF HandsHold, TypeOK
  <2>2. item[t] \in Items /\ claimed \in Seq(Items) /\ Len(claimed) = writeIndex
    BY DEF HandsHold, TypeOK
  <2>3. Len(claimed') = writeIndex' /\ claimed'[writeIndex + 1] = item[t]
    BY <2>2 DEF TypeOK
  <2> QED
    BY <2>1, <2>3 DEF HandsHold, TypeOK, IndexOrder, IndicesOwned, Writing, Reading
<1> QED  BY <1>1, <1>2, <1>3, <1>4, <1>5, <1>6

(* A failed claim reads writeIndex again. *)
LEMMA EnqueueClaimFailsInv ==
  ASSUME RingInv, NEW t \in Threads, EnqueueClaimFails(t)
  PROVE  RingInv'
<1> USE DEF RingInv, EnqueueClaimFails, Goto, atomics
<1>1. TypeOK'
  BY BoundAssumption DEF TypeOK, BoundAssumption, Enqueuing, Dequeuing
<1>2. IndexOrder'
  BY SizePositive DEF IndexOrder, TypeOK
<1>3. IndicesOwned'
  BY DEF IndicesOwned, Writing, Reading, TypeOK
<1>4. ViewsSafe'
  BY SizePositive DEF ViewsSafe, TypeOK, IndexOrder
<1>5. SlotsHold'
  BY DEF SlotsHold, TypeOK, slot
<1>6. HandsHold'
  BY DEF HandsHold, TypeOK
<1> QED  BY <1>1, <1>2, <1>3, <1>4, <1>5, <1>6

(* The recheck may give up, and lets only a safe claim through. *)
LEMMA EnqueueRecheckInv ==
  ASSUME RingInv, NEW t \in Threads, EnqueueRecheck(t)
  PROVE  RingInv'
<1> USE DEF RingInv, EnqueueRecheck, Goto, atomics, GiveUp
<1>1. TypeOK'
  BY BoundAssumption, ZenonT(120) DEF TypeOK, BoundAssumption, Enqueuing, Dequeuing
<1>2. IndexOrder'
  BY SizePositive DEF IndexOrder, TypeOK
<1>3. IndicesOwned'
  BY ZenonT(120) DEF IndicesOwned, Writing, Reading, TypeOK
<1>4. ViewsSafe'
  BY SizePositive DEF ViewsSafe, TypeOK, IndexOrder, LooksFull, Distance
<1>5. SlotsHold'
  BY ZenonT(120) DEF SlotsHold, TypeOK, slot
<1>6. HandsHold'
  BY ZenonT(120) DEF HandsHold, TypeOK
<1> QED  BY <1>1, <1>2, <1>3, <1>4, <1>5, <1>6

(* The owner of a write index fills its slot and touches no other index of the window. *)
LEMMA EnqueueWriteSlotInv ==
  ASSUME RingInv, NEW t \in Threads, EnqueueWriteSlot(t)
  PROVE  RingInv'
<1> USE DEF RingInv, EnqueueWriteSlot, Goto, atomics
<1>1. TypeOK'
  <2>1. item[t] \in Items \cup {Empty}
    BY DEF TypeOK
  <2> QED  BY <2>1, SlotType, ZenonT(120) DEF TypeOK, Enqueuing, Dequeuing
<1>2. IndexOrder'
  BY SizePositive DEF IndexOrder, TypeOK
<1>3. IndicesOwned'
  BY DEF IndicesOwned, Writing, Reading, TypeOK
<1>4. ViewsSafe'
  BY SizePositive DEF ViewsSafe, TypeOK, IndexOrder
<1>5. SlotsHold'
  <2> DEFINE w == cur[t]
  <2>1. /\ w \in Nat /\ published <= w /\ w < writeIndex
        /\ consumed <= w /\ w < consumed + size
    BY SizePositive DEF TypeOK, IndexOrder, IndicesOwned, Writing
  <2>2. /\ buffer'[slot(w)] = item[t]
        /\ \A i \in Nat : i # w /\ consumed <= i /\ i < consumed + size
             => buffer'[slot(i)] = buffer[slot(i)]
    <3>1. /\ consumed \in Nat /\ buffer \in [0..(size - 1) -> Items \cup {Empty}]
          /\ buffer' = [buffer EXCEPT ![slot(w)] = item[t]]
      BY DEF TypeOK
    <3> HIDE DEF w
    <3>2. ASSUME NEW i \in Nat, i # w, consumed <= i, i < consumed + size
          PROVE  slot(i) \in 0..(size - 1) /\ slot(i) # slot(w)
      BY ONLY <2>1, <3>1, <3>2, SlotType, SlotInjective, SizePositive
    <3>3. slot(w) \in 0..(size - 1)
      BY <2>1, SlotType
    <3> QED  BY ONLY <3>1, <3>2, <3>3
  <2>3. ASSUME NEW i \in readIndex..(published - 1)
        PROVE  buffer'[slot(i)] = claimed[i + 1]
    <3>1. i \in Nat /\ i # w /\ consumed <= i /\ i < consumed + size
      BY <2>1, SizePositive DEF TypeOK, IndexOrder
    <3> QED  BY <2>2, <3>1 DEF SlotsHold
  <2>4. ASSUME NEW i \in writeIndex..(consumed + size - 1)
        PROVE  buffer'[slot(i)] = Empty
    <3>1. i \in Nat /\ i # w /\ consumed <= i /\ i < consumed + size
      BY <2>1, SizePositive DEF TypeOK, IndexOrder
    <3> QED  BY <2>2, <3>1 DEF SlotsHold
  <2>5. ASSUME NEW u \in Threads, u # t, Writing(u) \/ Reading(u)
        PROVE  pc'[u] = pc[u] /\ buffer'[slot(cur[u])] = buffer[slot(cur[u])]
    <3>1. /\ cur[u] \in Nat /\ cur[u] # w
          /\ consumed <= cur[u] /\ cur[u] < consumed + size
      BY <2>1, <2>5, SizePositive
         DEF TypeOK, IndexOrder, IndicesOwned, Writing, Reading
    <3> QED  BY <2>2, <2>5, <3>1 DEF TypeOK
  <2>6. ASSUME NEW u \in Threads, pc'[u] \in {"readSlot", "publish"}
        PROVE  buffer'[slot(cur[u])] = claimed[cur[u] + 1]
    BY <2>2, <2>5, <2>6 DEF SlotsHold, HandsHold, Writing, Reading, TypeOK
  <2>7. ASSUME NEW u \in Threads, pc'[u] \in {"writeSlot", "consume"}
        PROVE  buffer'[slot(cur[u])] = Empty
    BY <2>2, <2>5, <2>7 DEF SlotsHold, HandsHold, Writing, Reading, TypeOK
  <2> QED  BY <2>3, <2>4, <2>6, <2>7 DEF SlotsHold
<1>6. HandsHold'
  BY DEF HandsHold, TypeOK
<1> QED  BY <1>1, <1>2, <1>3, <1>4, <1>5, <1>6

(* Publishing makes the slot the newest readable one. *)
LEMMA EnqueuePublishInv ==
  ASSUME RingInv, NEW t \in Threads, EnqueuePublish(t)
  PROVE  RingInv'
<1> USE DEF RingInv, EnqueuePublish, Goto, atomics
<1>1. TypeOK'
  BY BoundAssumption DEF TypeOK, BoundAssumption, Enqueuing, Dequeuing
<1>2. IndexOrder'
  BY DEF IndexOrder, IndicesOwned, Writing, TypeOK
<1>3. IndicesOwned'
  BY DEF IndicesOwned, Writing, Reading, TypeOK
<1>4. ViewsSafe'
  BY SizePositive DEF ViewsSafe, TypeOK, IndexOrder
<1>5. SlotsHold'
  BY DEF SlotsHold, TypeOK, slot
<1>6. HandsHold'
  BY DEF HandsHold, TypeOK
<1> QED  BY <1>1, <1>2, <1>3, <1>4, <1>5, <1>6

(* A call of dequeue begins. *)
LEMMA DequeueLoadPublishedInv ==
  ASSUME RingInv, NEW t \in Threads, DequeueLoadPublished(t)
  PROVE  RingInv'
<1> USE DEF RingInv, DequeueLoadPublished, Goto, atomics
<1>1. TypeOK'
  BY BoundAssumption DEF TypeOK, BoundAssumption, Enqueuing, Dequeuing
<1>2. IndexOrder'
  BY SizePositive DEF IndexOrder, TypeOK
<1>3. IndicesOwned'
  BY DEF IndicesOwned, Writing, Reading, TypeOK
<1>4. ViewsSafe'
  BY SizePositive DEF ViewsSafe, TypeOK, IndexOrder
<1>5. SlotsHold'
  BY DEF SlotsHold, TypeOK, slot
<1>6. HandsHold'
  BY DEF HandsHold, TypeOK
<1> QED  BY <1>1, <1>2, <1>3, <1>4, <1>5, <1>6

(* dequeue reads readIndex: a buffer that does not look empty has an item at that index. *)
LEMMA DequeueLoadReadIndexInv ==
  ASSUME RingInv, NEW t \in Threads, DequeueLoadReadIndex(t)
  PROVE  RingInv'
<1> USE DEF RingInv, DequeueLoadReadIndex, Goto, atomics
<1>1. TypeOK'
  BY BoundAssumption, ZenonT(120) DEF TypeOK, BoundAssumption, Enqueuing, Dequeuing
<1>2. IndexOrder'
  BY SizePositive DEF IndexOrder, TypeOK
<1>3. IndicesOwned'
  BY DEF IndicesOwned, Writing, Reading, TypeOK
<1>4. ViewsSafe'
  BY SizePositive DEF ViewsSafe, TypeOK, IndexOrder
<1>5. SlotsHold'
  BY DEF SlotsHold, TypeOK, slot
<1>6. HandsHold'
  BY DEF HandsHold, TypeOK
<1> QED  BY <1>1, <1>2, <1>3, <1>4, <1>5, <1>6

(* A successful claim finds a published item that nobody else reads. *)
LEMMA DequeueClaimInv ==
  ASSUME RingInv, NEW t \in Threads, DequeueClaim(t)
  PROVE  RingInv'
<1> USE DEF RingInv, DequeueClaim, Goto, atomics
<1>1. TypeOK'
  BY BoundAssumption DEF TypeOK, BoundAssumption, Enqueuing, Dequeuing
<1>2. IndexOrder'
  BY DEF IndexOrder, ViewsSafe, TypeOK
<1>3. IndicesOwned'
  BY DEF IndicesOwned, Writing, Reading, TypeOK, IndexOrder
<1>4. ViewsSafe'
  BY SizePositive DEF ViewsSafe, TypeOK, IndexOrder
<1>5. SlotsHold'
  BY DEF SlotsHold, ViewsSafe, TypeOK, IndexOrder
<1>6. HandsHold'
  BY DEF HandsHold, TypeOK
<1> QED  BY <1>1, <1>2, <1>3, <1>4, <1>5, <1>6

(* A failed claim reads readIndex again. *)
LEMMA DequeueClaimFailsInv ==
  ASSUME RingInv, NEW t \in Threads, DequeueClaimFails(t)
  PROVE  RingInv'
<1> USE DEF RingInv, DequeueClaimFails, Goto, atomics
<1>1. TypeOK'
  BY BoundAssumption DEF TypeOK, BoundAssumption, Enqueuing, Dequeuing
<1>2. IndexOrder'
  BY SizePositive DEF IndexOrder, TypeOK
<1>3. IndicesOwned'
  BY DEF IndicesOwned, Writing, Reading, TypeOK
<1>4. ViewsSafe'
  BY SizePositive DEF ViewsSafe, TypeOK, IndexOrder
<1>5. SlotsHold'
  BY DEF SlotsHold, TypeOK, slot
<1>6. HandsHold'
  BY DEF HandsHold, TypeOK
<1> QED  BY <1>1, <1>2, <1>3, <1>4, <1>5, <1>6

(* The recheck lets only a safe claim through. *)
LEMMA DequeueRecheckInv ==
  ASSUME RingInv, NEW t \in Threads, DequeueRecheck(t)
  PROVE  RingInv'
<1> USE DEF RingInv, DequeueRecheck, Goto, atomics
<1>1. TypeOK'
  BY BoundAssumption DEF TypeOK, BoundAssumption, Enqueuing, Dequeuing
<1>2. IndexOrder'
  BY SizePositive DEF IndexOrder, TypeOK
<1>3. IndicesOwned'
  BY ZenonT(120) DEF IndicesOwned, Writing, Reading, TypeOK
<1>4. ViewsSafe'
  BY SizePositive DEF ViewsSafe, TypeOK, IndexOrder
<1>5. SlotsHold'
  BY DEF SlotsHold, TypeOK, slot
<1>6. HandsHold'
  BY DEF HandsHold, TypeOK
<1> QED  BY <1>1, <1>2, <1>3, <1>4, <1>5, <1>6

(* The owner of a read index takes its item and empties no other slot of the window. *)
LEMMA DequeueReadSlotInv ==
  ASSUME RingInv, NEW t \in Threads, DequeueReadSlot(t)
  PROVE  RingInv'
<1> USE DEF RingInv, DequeueReadSlot, Goto, atomics
<1>1. TypeOK'
  <2>1. buffer[slot(cur[t])] \in Items \cup {Empty}
    BY SlotType DEF TypeOK
  <2> QED  BY <2>1, SlotType, ZenonT(120) DEF TypeOK, Enqueuing, Dequeuing
<1>2. IndexOrder'
  BY SizePositive DEF IndexOrder, TypeOK
<1>3. IndicesOwned'
  BY DEF IndicesOwned, Writing, Reading, TypeOK
<1>4. ViewsSafe'
  BY SizePositive DEF ViewsSafe, TypeOK, IndexOrder
<1>5. SlotsHold'
  <2> DEFINE r == cur[t]
  <2>1. /\ r \in Nat /\ r < readIndex
        /\ consumed <= r /\ r < consumed + size
    BY SizePositive DEF TypeOK, IndexOrder, IndicesOwned, Reading
  <2>2. /\ buffer'[slot(r)] = Empty
        /\ \A i \in Nat : i # r /\ consumed <= i /\ i < consumed + size
             => buffer'[slot(i)] = buffer[slot(i)]
    <3>1. /\ consumed \in Nat /\ buffer \in [0..(size - 1) -> Items \cup {Empty}]
          /\ buffer' = [buffer EXCEPT ![slot(r)] = Empty]
      BY DEF TypeOK
    <3> HIDE DEF r
    <3>2. ASSUME NEW i \in Nat, i # r, consumed <= i, i < consumed + size
          PROVE  slot(i) \in 0..(size - 1) /\ slot(i) # slot(r)
      BY ONLY <2>1, <3>1, <3>2, SlotType, SlotInjective, SizePositive
    <3>3. slot(r) \in 0..(size - 1)
      BY <2>1, SlotType
    <3> QED  BY ONLY <3>1, <3>2, <3>3
  <2>3. ASSUME NEW i \in readIndex..(published - 1)
        PROVE  buffer'[slot(i)] = claimed[i + 1]
    <3>1. i \in Nat /\ i # r /\ consumed <= i /\ i < consumed + size
      BY <2>1, SizePositive DEF TypeOK, IndexOrder
    <3> QED  BY <2>2, <3>1 DEF SlotsHold
  <2>4. ASSUME NEW i \in writeIndex..(consumed + size - 1)
        PROVE  buffer'[slot(i)] = Empty
    <3>1. i \in Nat /\ i # r /\ consumed <= i /\ i < consumed + size
      BY <2>1, SizePositive DEF TypeOK, IndexOrder
    <3> QED  BY <2>2, <3>1 DEF SlotsHold
  <2>5. ASSUME NEW u \in Threads, u # t, Writing(u) \/ Reading(u)
        PROVE  pc'[u] = pc[u] /\ buffer'[slot(cur[u])] = buffer[slot(cur[u])]
    <3>1. /\ cur[u] \in Nat /\ cur[u] # r
          /\ consumed <= cur[u] /\ cur[u] < consumed + size
      BY <2>1, <2>5, SizePositive
         DEF TypeOK, IndexOrder, IndicesOwned, Writing, Reading
    <3> QED  BY <2>2, <2>5, <3>1 DEF TypeOK
  <2>6. ASSUME NEW u \in Threads, pc'[u] \in {"readSlot", "publish"}
        PROVE  buffer'[slot(cur[u])] = claimed[cur[u] + 1]
    BY <2>2, <2>5, <2>6 DEF SlotsHold, HandsHold, Writing, Reading, TypeOK
  <2>7. ASSUME NEW u \in Threads, pc'[u] \in {"writeSlot", "consume"}
        PROVE  buffer'[slot(cur[u])] = Empty
    BY <2>2, <2>5, <2>7 DEF SlotsHold, HandsHold, Writing, Reading, TypeOK
  <2> QED  BY <2>3, <2>4, <2>6, <2>7 DEF SlotsHold
<1>6. HandsHold'
  BY DEF HandsHold, SlotsHold, TypeOK
<1> QED  BY <1>1, <1>2, <1>3, <1>4, <1>5, <1>6

(* Consuming frees the slot for the index one lap ahead. *)
LEMMA DequeueConsumeInv ==
  ASSUME RingInv, NEW t \in Threads, DequeueConsume(t)
  PROVE  RingInv'
<1> USE DEF RingInv, DequeueConsume, Goto, atomics
<1>1. TypeOK'
  BY BoundAssumption DEF TypeOK, BoundAssumption, Enqueuing, Dequeuing
<1>2. IndexOrder'
  BY SizePositive DEF IndexOrder, IndicesOwned, Reading, TypeOK
<1>3. IndicesOwned'
  BY DEF IndicesOwned, Writing, Reading, TypeOK
<1>4. ViewsSafe'
  BY SizePositive DEF ViewsSafe, TypeOK, IndexOrder
<1>5. SlotsHold'
  <2>1. slot(consumed + size) = slot(consumed)
    BY SlotPeriodic DEF TypeOK
  <2>2. buffer[slot(consumed + size)] = Empty
    BY <2>1 DEF SlotsHold
  <2>3. ASSUME NEW i \in writeIndex..(cur[t] + 1 + size - 1)
        PROVE  buffer[slot(i)] = Empty
    <3>1. consumed = cur[t] /\ consumed \in Nat /\ writeIndex \in Nat
      BY DEF TypeOK
    <3>2. i = consumed + size \/ i \in writeIndex..(consumed + size - 1)
      BY <3>1, SizePositive
    <3> QED  BY <2>2, <3>2 DEF SlotsHold
  <2> QED  BY <2>3, SizePositive DEF SlotsHold, TypeOK
<1>6. HandsHold'
  BY DEF HandsHold, TypeOK
<1> QED  BY <1>1, <1>2, <1>3, <1>4, <1>5, <1>6

(* Every step of every thread preserves the invariant. *)
LEMMA NextRingInv == RingInv /\ [Next]_vars => RingInv'
<1> SUFFICES ASSUME RingInv, [Next]_vars PROVE RingInv'
  OBVIOUS
<1>1. ASSUME NEW t \in Producers, NEW x \in Items, EnqueueLoadConsumed(t, x)
      PROVE  RingInv'
  BY <1>1, EnqueueLoadConsumedInv DEF Threads
<1>2. ASSUME NEW t \in Producers, EnqueueStep(t)
      PROVE  RingInv'
  BY <1>2, EnqueueLoadWriteIndexInv, EnqueueClaimInv, EnqueueClaimFailsInv,
     EnqueueRecheckInv, EnqueueWriteSlotInv, EnqueuePublishInv
     DEF EnqueueStep, Threads
<1>3. ASSUME NEW t \in Consumers, DequeueLoadPublished(t) \/ DequeueStep(t)
      PROVE  RingInv'
  BY <1>3, DequeueLoadPublishedInv, DequeueLoadReadIndexInv, DequeueClaimInv,
     DequeueClaimFailsInv, DequeueRecheckInv, DequeueReadSlotInv, DequeueConsumeInv
     DEF DequeueStep, Threads
<1>4. CASE UNCHANGED vars
  BY <1>4 DEF vars, atomics, RingInv, TypeOK, IndexOrder, IndicesOwned, ViewsSafe,
     SlotsHold, HandsHold, Writing, Reading
<1> QED  BY <1>1, <1>2, <1>3, <1>4 DEF Next

(***************************************************************************)
(* The theorems                                                            *)
(***************************************************************************)
(* The counters, the owners and the slots of the ring buffer agree at      *)
(* every step of every interleaving of enqueue and dequeue.                *)
THEOREM RingInvariant == Spec => []RingInv
  BY InitRingInv, NextRingInv, PTL DEF Spec

(* The variables keep their types. *)
THEOREM TypeCorrect == Spec => []TypeOK
<1>1. RingInv => TypeOK
  BY DEF RingInv
<1> QED  BY <1>1, RingInvariant, PTL

(* The four atomics stay in order, with the writers within one lap of the  *)
(* slowest reader.                                                         *)
THEOREM CountersInOrder == Spec => []IndexOrder
<1>1. RingInv => IndexOrder
  BY DEF RingInv
<1> QED  BY <1>1, RingInvariant, PTL

(* enqueue never writes over an item that has not been taken out.          *)
THEOREM NeverOverwrites == Spec => []NoOverwrite
<1>1. RingInv => NoOverwrite
  BY DEF RingInv, SlotsHold, NoOverwrite
<1> QED  BY <1>1, RingInvariant, PTL

(* Two threads never access one slot at the same time.                     *)
THEOREM SlotsNeverRace == Spec => []NoSlotRace
<1>1. RingInv => NoSlotRace
  <2> SUFFICES ASSUME RingInv, NEW t \in Threads, NEW u \in Threads,
                      pc[t] \in {"writeSlot", "readSlot"},
                      pc[u] \in {"writeSlot", "readSlot"},
                      slot(cur[t]) = slot(cur[u])
               PROVE  t = u
    BY DEF NoSlotRace
  <2> USE DEF RingInv, TypeOK, IndexOrder, IndicesOwned, Writing, Reading
  <2>1. /\ cur[t] \in Nat /\ consumed <= cur[t] /\ cur[t] < consumed + size
        /\ cur[u] \in Nat /\ consumed <= cur[u] /\ cur[u] < consumed + size
    BY SizePositive
  <2>2. cur[t] = cur[u]
    BY <2>1, SlotInjective, SizePositive
  <2> QED  BY <2>2
<1> QED  BY <1>1, RingInvariant, PTL

(* dequeue returns the item of the index it claimed.                       *)
THEOREM TakesWhatWasClaimed == Spec => []DequeuesInClaimOrder
<1>1. RingInv => DequeuesInClaimOrder
  BY DEF RingInv, HandsHold, IndicesOwned, Reading, IndexOrder, TypeOK,
     DequeuesInClaimOrder
<1> QED  BY <1>1, RingInvariant, PTL

-----------------------------------------------------------------------------
(***************************************************************************)
(* The lock-free ring buffer implements BoundedFIFO, for every number of   *)
(* producers, consumers, slots and calls: publishing is Put, claiming a    *)
(* read index is Take, consuming is Return, and every other step stutters. *)
(***************************************************************************)

Slotted == Items \cup {Empty}

(* Every slot holds an item or Empty. *)
LEMMA SlotContents ==
  ASSUME RingInv, NEW i \in Nat
  PROVE  buffer[slot(i)] \in Slotted
  BY SlotType DEF RingInv, TypeOK, Slotted

(* AbstractQueue is a sequence of the slots from readIndex to published. *)
LEMMA QueueShape ==
  ASSUME RingInv
  PROVE  /\ AbstractQueue \in Seq(Slotted)
         /\ Len(AbstractQueue) = published - readIndex
         /\ \A k \in 1..(published - readIndex) :
              AbstractQueue[k] = buffer[slot(readIndex + k - 1)]
<1> DEFINE n == published - readIndex
<1>1. n \in Nat
  BY DEF RingInv, TypeOK, IndexOrder
<1>2. \A k \in 1..n : buffer[slot(readIndex + k - 1)] \in Slotted
  BY <1>1, SlotType DEF RingInv, TypeOK, Slotted
<1> HIDE DEF n
<1>3. [k \in 1..n |-> buffer[slot(readIndex + k - 1)]] \in Seq(Slotted)
  BY <1>1, <1>2
<1>4. Len([k \in 1..n |-> buffer[slot(readIndex + k - 1)]]) = n
  BY <1>1
<1>5. AbstractQueue = [k \in 1..n |-> buffer[slot(readIndex + k - 1)]]
  BY DEF AbstractQueue, n
<1> QED  BY <1>3, <1>4, <1>5, ZenonT(120) DEF n

(* A claimed item is an item. *)
LEMMA ClaimedItem ==
  ASSUME RingInv, NEW i \in Nat, i < writeIndex
  PROVE  claimed[i + 1] \in Items
  BY DEF RingInv, TypeOK, HandsHold

(* Steps that leave the buffer and the two outer counters alone leave the  *)
(* queue alone.                                                            *)
LEMMA QueueUnchanged ==
  ASSUME UNCHANGED <<buffer, published, readIndex>>
  PROVE  AbstractQueue' = AbstractQueue
  BY DEF AbstractQueue

(* A step of t that stays outside reading a slot, and leaves the buffer and *)
(* the others' items alone, changes no hand.                               *)
LEMMA HandUnchanged ==
  ASSUME TypeOK, NEW t \in Threads, UNCHANGED <<buffer>>,
         pc[t] \notin {"readSlot", "consume"},
         NEW label, label \notin {"readSlot", "consume"},
         pc' = [pc EXCEPT ![t] = label],
         \A u \in Threads \ {t} : item'[u] = item[u] /\ cur'[u] = cur[u]
  PROVE  AbstractHand' = AbstractHand
<1>1. \A u \in Threads :
        (IF pc'[u] = "readSlot" THEN buffer'[slot(cur'[u])]
         ELSE IF pc'[u] = "consume" THEN item'[u] ELSE Empty)
      = (IF pc[u] = "readSlot" THEN buffer[slot(cur[u])]
         ELSE IF pc[u] = "consume" THEN item[u] ELSE Empty)
  <2> TAKE u \in Threads
  <2>1. CASE u = t
    BY <2>1 DEF TypeOK
  <2>2. CASE u # t
    BY <2>2 DEF TypeOK
  <2> QED  BY <2>1, <2>2
<1> QED  BY <1>1 DEF AbstractHand, slot

(* Filling a claimed slot touches neither the queue nor a reader's slot. *)
LEMMA WriteSlotStutters ==
  ASSUME RingInv, NEW t \in Threads, EnqueueWriteSlot(t)
  PROVE  UNCHANGED <<AbstractQueue, AbstractHand>>
<1> USE DEF RingInv, EnqueueWriteSlot, Goto, atomics
<1>1. cur[t] \in Nat /\ published <= cur[t] /\ cur[t] < writeIndex
  BY DEF IndicesOwned, Writing, TypeOK
<1>2. \A k \in 1..(published - readIndex) :
        /\ readIndex + k - 1 \in Nat
        /\ slot(readIndex + k - 1) # slot(cur[t])
  BY <1>1, SlotInjective, SizePositive DEF TypeOK, IndexOrder
<1>3. AbstractQueue' = AbstractQueue
  <2>1. \A k \in 1..(published - readIndex) :
          buffer'[slot(readIndex + k - 1)] = buffer[slot(readIndex + k - 1)]
    BY <1>1, <1>2, SlotType, ZenonT(120) DEF TypeOK
  <2> QED  BY <2>1 DEF AbstractQueue, slot
<1>4. \A u \in Threads : pc[u] = "readSlot" => slot(cur[u]) # slot(cur[t])
  BY <1>1, SlotInjective, SizePositive DEF TypeOK, IndexOrder, IndicesOwned, Reading
<1>5. ASSUME NEW u \in Threads
      PROVE  (IF pc'[u] = "readSlot" THEN buffer'[slot(cur'[u])]
              ELSE IF pc'[u] = "consume" THEN item'[u] ELSE Empty)
           = (IF pc[u] = "readSlot" THEN buffer[slot(cur[u])]
              ELSE IF pc[u] = "consume" THEN item[u] ELSE Empty)
  <2>1. CASE u = t
    BY <2>1 DEF TypeOK
  <2>2. CASE u # t /\ pc[u] = "readSlot"
    <3>1. buffer'[slot(cur[u])] = buffer[slot(cur[u])]
      BY <2>2, <1>4, SlotType DEF TypeOK
    <3> QED  BY <2>2, <3>1 DEF TypeOK
  <2>3. CASE u # t /\ pc[u] # "readSlot"
    BY <2>3 DEF TypeOK
  <2> QED  BY <2>1, <2>2, <2>3
<1>6. AbstractHand' = AbstractHand
  BY <1>5 DEF AbstractHand, slot
<1> QED  BY <1>3, <1>6

(* Moving the item out of its slot leaves it in the reader's hand. *)
LEMMA ReadSlotStutters ==
  ASSUME RingInv, NEW t \in Threads, DequeueReadSlot(t)
  PROVE  UNCHANGED <<AbstractQueue, AbstractHand>>
<1> USE DEF RingInv, DequeueReadSlot, Goto, atomics
<1>1. cur[t] \in Nat /\ consumed <= cur[t] /\ cur[t] < readIndex
  BY DEF IndicesOwned, Reading, TypeOK
<1>2. \A k \in 1..(published - readIndex) :
        /\ readIndex + k - 1 \in Nat
        /\ slot(readIndex + k - 1) # slot(cur[t])
  BY <1>1, SlotInjective, SizePositive DEF TypeOK, IndexOrder
<1>3. AbstractQueue' = AbstractQueue
  <2>1. \A k \in 1..(published - readIndex) :
          buffer'[slot(readIndex + k - 1)] = buffer[slot(readIndex + k - 1)]
    BY <1>1, <1>2, SlotType, ZenonT(120) DEF TypeOK
  <2> QED  BY <2>1 DEF AbstractQueue, slot
<1>4. \A u \in Threads : pc[u] = "readSlot" /\ u # t => slot(cur[u]) # slot(cur[t])
  BY <1>1, SlotInjective, SizePositive DEF TypeOK, IndexOrder, IndicesOwned, Reading
<1>5. ASSUME NEW u \in Threads
      PROVE  (IF pc'[u] = "readSlot" THEN buffer'[slot(cur'[u])]
              ELSE IF pc'[u] = "consume" THEN item'[u] ELSE Empty)
           = (IF pc[u] = "readSlot" THEN buffer[slot(cur[u])]
              ELSE IF pc[u] = "consume" THEN item[u] ELSE Empty)
  <2>1. CASE u = t
    BY <2>1 DEF TypeOK
  <2>2. CASE u # t /\ pc[u] = "readSlot"
    <3>1. buffer'[slot(cur[u])] = buffer[slot(cur[u])]
      BY <2>2, <1>4, SlotType DEF TypeOK
    <3> QED  BY <2>2, <3>1 DEF TypeOK
  <2>3. CASE u # t /\ pc[u] # "readSlot"
    BY <2>3 DEF TypeOK
  <2> QED  BY <2>1, <2>2, <2>3
<1>6. AbstractHand' = AbstractHand
  BY <1>5 DEF AbstractHand, slot
<1> QED  BY <1>3, <1>6

(* Publishing is Put: the slot the index points to joins the queue, which  *)
(* the one-lap bound of IndexOrder keeps below the capacity.               *)
LEMMA PublishPuts ==
  ASSUME RingInv, RingInv', NEW t \in Threads, EnqueuePublish(t)
  PROVE  \E x \in Items : FIFO!Put(x)
<1> DEFINE x == buffer[slot(published)]
           n == published - readIndex
<1> USE DEF EnqueuePublish, Goto
<1>1. /\ cur[t] = published /\ published \in Nat /\ readIndex \in Nat
      /\ published < writeIndex /\ readIndex <= published
      /\ n \in Nat /\ n < size /\ published' - readIndex' = n + 1
  BY SizePositive DEF RingInv, IndicesOwned, Writing, TypeOK, IndexOrder
<1>2. x \in Items
  <2>1. claimed[published + 1] \in Items
    BY <1>1, ClaimedItem
  <2>2. buffer[slot(cur[t])] = claimed[cur[t] + 1]
    BY DEF RingInv, SlotsHold
  <2> QED  BY <1>1, <2>1, <2>2
<1>3. AbstractQueue \in Seq(Slotted) /\ Len(AbstractQueue) = n
  BY QueueShape
<1>4. Append(AbstractQueue, x) \in Seq(Slotted)
  BY <1>2, <1>3, AppendProperties DEF Slotted
<1>5. AbstractQueue' \in Seq(Slotted) /\ Len(AbstractQueue') = n + 1
  <2>1. AbstractQueue' = [k \in 1..(n + 1) |-> buffer[slot(readIndex + k - 1)]]
    BY <1>1 DEF AbstractQueue, slot
  <2>2. \A k \in 1..(n + 1) : readIndex + k - 1 \in Nat
    BY <1>1
  <2>3. \A k \in 1..(n + 1) : buffer[slot(readIndex + k - 1)] \in Slotted
    BY <2>2, SlotContents
  <2>4. n + 1 \in Nat
    BY <1>1
  <2> QED  BY <2>1, <2>3, <2>4
<1>6. \A k \in 1..(n + 1) : AbstractQueue'[k] = Append(AbstractQueue, x)[k]
  <2> SUFFICES ASSUME NEW k \in 1..(n + 1)
               PROVE  AbstractQueue'[k] = Append(AbstractQueue, x)[k]
    BY ZenonT(120)
  <2>1. AbstractQueue'[k] = buffer[slot(readIndex + k - 1)]
    BY <1>1 DEF AbstractQueue, slot
  <2>2. CASE k = n + 1
    <3>1. readIndex + k - 1 = published
      BY <1>1, <2>2
    <3> QED  BY <1>2, <1>3, <2>1, <2>2, <3>1, AppendProperties DEF Slotted
  <2>3. CASE k # n + 1
    <3>1. k \in 1..n
      BY <1>1, <2>3
    <3>2. AbstractQueue[k] = buffer[slot(readIndex + k - 1)]
      BY <3>1, QueueShape
    <3> QED  BY <1>2, <1>3, <2>1, <3>1, <3>2, AppendProperties DEF Slotted
  <2> QED  BY <2>2, <2>3, ZenonT(120)
<1>7. AbstractQueue' = Append(AbstractQueue, x)
  <2>1. Len(Append(AbstractQueue, x)) = n + 1
    BY <1>2, <1>3, AppendProperties DEF Slotted
  <2> HIDE DEF x, n
  <2> QED  BY <1>4, <1>5, <1>6, <2>1, SeqEqual
<1>8. UNCHANGED AbstractHand
  BY HandUnchanged, ZenonT(120) DEF RingInv
<1> QED  BY <1>1, <1>2, <1>3, <1>7, <1>8 DEF FIFO!Put

(* Claiming a read index is Take: the head of the queue goes to t. *)
LEMMA ClaimTakes ==
  ASSUME RingInv, RingInv', NEW t \in Threads, DequeueClaim(t)
  PROVE  FIFO!Take(t)
<1> DEFINE n == published - readIndex
<1> USE DEF DequeueClaim, Goto
<1>1. /\ cur[t] = readIndex /\ published \in Nat /\ readIndex \in Nat
      /\ n \in Nat /\ n >= 1 /\ published' - readIndex' = n - 1
      /\ readIndex' = readIndex + 1
  BY DEF RingInv, ViewsSafe, TypeOK, IndexOrder
<1>2. AbstractQueue \in Seq(Slotted) /\ Len(AbstractQueue) = n
  BY QueueShape
<1>3. AbstractQueue # <<>>
  BY <1>1, <1>2, EmptySeq
<1>4. Head(AbstractQueue) = buffer[slot(readIndex)]
  <2>1. AbstractQueue[1] = buffer[slot(readIndex + 1 - 1)]
    BY <1>1, QueueShape
  <2>2. readIndex + 1 - 1 = readIndex
    BY <1>1
  <2> QED  BY <1>2, <1>3, <2>1, <2>2, HeadTailProperties
<1>5. AbstractQueue' \in Seq(Slotted) /\ Len(AbstractQueue') = n - 1
  <2>1. AbstractQueue' = [k \in 1..(n - 1) |-> buffer[slot(readIndex + 1 + k - 1)]]
    BY <1>1 DEF AbstractQueue, slot
  <2>2. \A k \in 1..(n - 1) : readIndex + 1 + k - 1 \in Nat
    BY <1>1
  <2>3. \A k \in 1..(n - 1) : buffer[slot(readIndex + 1 + k - 1)] \in Slotted
    BY <2>2, SlotContents
  <2>4. n - 1 \in Nat
    BY <1>1
  <2> HIDE DEF n
  <2> QED  BY <2>1, <2>3, <2>4
<1>6. /\ Tail(AbstractQueue) \in Seq(Slotted) /\ Len(Tail(AbstractQueue)) = n - 1
      /\ \A k \in 1..(n - 1) : Tail(AbstractQueue)[k] = AbstractQueue[k + 1]
  BY <1>2, <1>3, HeadTailProperties
<1>7. \A k \in 1..(n - 1) : AbstractQueue'[k] = Tail(AbstractQueue)[k]
  <2> SUFFICES ASSUME NEW k \in 1..(n - 1)
               PROVE  AbstractQueue'[k] = Tail(AbstractQueue)[k]
    BY ZenonT(120)
  <2>1. AbstractQueue'[k] = buffer[slot(readIndex + 1 + k - 1)]
    BY <1>1 DEF AbstractQueue, slot
  <2>2. AbstractQueue[k + 1] = buffer[slot(readIndex + (k + 1) - 1)]
    <3>1. k + 1 \in 1..(published - readIndex)
      BY <1>1
    <3> QED  BY <3>1, QueueShape
  <2>3. readIndex + 1 + k - 1 = readIndex + (k + 1) - 1
    BY <1>1
  <2> QED  BY <1>6, <2>1, <2>2, <2>3
<1>8. AbstractQueue' = Tail(AbstractQueue)
  <2> HIDE DEF n
  <2> QED  BY <1>5, <1>6, <1>7, SeqEqual
<1>9. AbstractHand[t] = Empty
  BY DEF AbstractHand
<1>10. AbstractHand' = [AbstractHand EXCEPT ![t] = buffer[slot(readIndex)]]
  <2>1. ASSUME NEW u \in Threads
        PROVE  (IF pc'[u] = "readSlot" THEN buffer'[slot(cur'[u])]
                ELSE IF pc'[u] = "consume" THEN item'[u] ELSE Empty)
             = [AbstractHand EXCEPT ![t] = buffer[slot(readIndex)]][u]
    <3>1. CASE u = t
      BY <1>1, <3>1 DEF AbstractHand, RingInv, TypeOK
    <3>2. CASE u # t
      BY <3>2 DEF AbstractHand, RingInv, TypeOK
    <3> QED  BY <3>1, <3>2
  <2> QED  BY <2>1, ZenonT(120) DEF AbstractHand, slot
<1> QED  BY <1>3, <1>4, <1>8, <1>9, <1>10, ZenonT(120) DEF FIFO!Take

(* Consuming is Return: t gives the item it claimed to its caller. *)
LEMMA ConsumeReturns ==
  ASSUME RingInv, NEW t \in Threads, DequeueConsume(t)
  PROVE  FIFO!Return(t)
<1> USE DEF DequeueConsume, Goto
<1>1. AbstractHand[t] # Empty
  <2>1. cur[t] \in Nat /\ cur[t] < writeIndex
    BY DEF RingInv, IndicesOwned, Reading, TypeOK, IndexOrder
  <2>2. claimed[cur[t] + 1] \in Items
    BY <2>1, ClaimedItem
  <2>3. item[t] = claimed[cur[t] + 1]
    BY DEF RingInv, HandsHold
  <2> QED  BY <2>2, <2>3, ItemAssumption DEF ItemAssumption, AbstractHand
<1>2. AbstractHand' = [AbstractHand EXCEPT ![t] = Empty]
  <2>1. ASSUME NEW u \in Threads
        PROVE  (IF pc'[u] = "readSlot" THEN buffer'[slot(cur'[u])]
                ELSE IF pc'[u] = "consume" THEN item'[u] ELSE Empty)
             = [AbstractHand EXCEPT ![t] = Empty][u]
    <3>1. CASE u = t
      BY <3>1 DEF AbstractHand, RingInv, TypeOK
    <3>2. CASE u # t
      BY <3>2 DEF AbstractHand, RingInv, TypeOK
    <3> QED  BY <3>1, <3>2
  <2> QED  BY <2>1, ZenonT(120) DEF AbstractHand, slot
<1>3. UNCHANGED AbstractQueue
  BY QueueUnchanged
<1> QED  BY <1>1, <1>2, <1>3 DEF FIFO!Return

(* The empty buffer is the empty queue with nothing in hand. *)
LEMMA InitMaps == Init => FIFO!FifoInit
<1> SUFFICES ASSUME Init PROVE FIFO!FifoInit
  OBVIOUS
<1>1. AbstractQueue = <<>>
  <2>1. published - readIndex = 0
    BY DEF Init
  <2>2. RingInv
    BY InitRingInv
  <2> QED  BY <2>1, <2>2, QueueShape, EmptySeq
<1>2. AbstractHand = [t \in Threads |-> Empty]
  BY DEF Init, AbstractHand
<1> QED  BY <1>1, <1>2 DEF FIFO!FifoInit

(* Every step of enqueue is a Put or a stutter. *)
LEMMA EnqueueMaps ==
  ASSUME RingInv, RingInv', NEW t \in Threads, EnqueueStep(t)
  PROVE  FIFO!FifoNext \/ UNCHANGED <<AbstractQueue, AbstractHand>>
<1> USE DEF RingInv
<1>1. CASE EnqueueLoadWriteIndex(t)
  <2> USE <1>1 DEF EnqueueLoadWriteIndex, GiveUp, Goto, atomics
  <2>1. PICK label \in {"idle", "claimWrite"} : pc' = [pc EXCEPT ![t] = label]
    OBVIOUS
  <2>2. \A u \in Threads \ {t} : item'[u] = item[u] /\ cur'[u] = cur[u]
    BY DEF TypeOK
  <2> QED  BY <2>1, <2>2, HandUnchanged, QueueUnchanged, ZenonT(120)
<1>2. CASE EnqueueClaim(t)
  BY <1>2, HandUnchanged, QueueUnchanged, ZenonT(120) DEF EnqueueClaim, Goto
<1>3. CASE EnqueueClaimFails(t)
  <2> USE <1>3 DEF EnqueueClaimFails, Goto, atomics
  <2>1. \A u \in Threads \ {t} : item'[u] = item[u] /\ cur'[u] = cur[u]
    BY DEF TypeOK
  <2> QED  BY <2>1, HandUnchanged, QueueUnchanged, ZenonT(120)
<1>4. CASE EnqueueRecheck(t)
  <2> USE <1>4 DEF EnqueueRecheck, GiveUp, Goto, atomics
  <2>1. PICK label \in {"idle", "claimWrite"} : pc' = [pc EXCEPT ![t] = label]
    OBVIOUS
  <2>2. \A u \in Threads \ {t} : item'[u] = item[u] /\ cur'[u] = cur[u]
    BY DEF TypeOK
  <2> QED  BY <2>1, <2>2, HandUnchanged, QueueUnchanged, ZenonT(120)
<1>5. CASE EnqueueWriteSlot(t)
  BY <1>5, WriteSlotStutters
<1>6. CASE EnqueuePublish(t)
  BY <1>6, PublishPuts DEF FIFO!FifoNext
<1> QED  BY <1>1, <1>2, <1>3, <1>4, <1>5, <1>6 DEF EnqueueStep

(* Every step of dequeue is a Take, a Return or a stutter. *)
LEMMA DequeueMaps ==
  ASSUME RingInv, RingInv', NEW t \in Threads, DequeueStep(t)
  PROVE  FIFO!FifoNext \/ UNCHANGED <<AbstractQueue, AbstractHand>>
<1> USE DEF RingInv
<1>1. CASE DequeueLoadReadIndex(t)
  <2> USE <1>1 DEF DequeueLoadReadIndex, Goto, atomics
  <2>1. PICK label \in {"idle", "claimRead"} : pc' = [pc EXCEPT ![t] = label]
    OBVIOUS
  <2>2. \A u \in Threads \ {t} : item'[u] = item[u] /\ cur'[u] = cur[u]
    BY DEF TypeOK
  <2> QED  BY <2>1, <2>2, HandUnchanged, QueueUnchanged, ZenonT(120)
<1>2. CASE DequeueClaim(t)
  BY <1>2, ClaimTakes DEF FIFO!FifoNext
<1>3. CASE DequeueClaimFails(t)
  <2> USE <1>3 DEF DequeueClaimFails, Goto, atomics
  <2>1. \A u \in Threads \ {t} : item'[u] = item[u] /\ cur'[u] = cur[u]
    BY DEF TypeOK
  <2> QED  BY <2>1, HandUnchanged, QueueUnchanged, ZenonT(120)
<1>4. CASE DequeueRecheck(t)
  <2> USE <1>4 DEF DequeueRecheck, Goto, atomics
  <2>1. PICK label \in {"idle", "claimRead"} : pc' = [pc EXCEPT ![t] = label]
    OBVIOUS
  <2> QED  BY <2>1, HandUnchanged, QueueUnchanged, ZenonT(120)
<1>5. CASE DequeueReadSlot(t)
  BY <1>5, ReadSlotStutters
<1>6. CASE DequeueConsume(t)
  BY <1>6, ConsumeReturns DEF FIFO!FifoNext
<1> QED  BY <1>1, <1>2, <1>3, <1>4, <1>5, <1>6 DEF DequeueStep

(* Every step of the ring buffer is a step of the queue or a stutter. *)
LEMMA StepMaps ==
  ASSUME RingInv, RingInv', [Next]_vars
  PROVE  [FIFO!FifoNext]_<<AbstractQueue, AbstractHand>>
<1>1. CASE UNCHANGED vars
  BY <1>1 DEF vars, atomics, AbstractQueue, AbstractHand, slot
<1>2. CASE \E t \in Producers, x \in Items : EnqueueLoadConsumed(t, x)
  <2>1. PICK t \in Producers, x \in Items : EnqueueLoadConsumed(t, x)
    BY <1>2
  <2> USE <2>1 DEF EnqueueLoadConsumed, Goto, atomics, RingInv
  <2>2. t \in Threads
    BY DEF Threads
  <2>3. \A u \in Threads \ {t} : item'[u] = item[u] /\ cur'[u] = cur[u]
    BY DEF TypeOK
  <2> QED  BY <2>2, <2>3, HandUnchanged, QueueUnchanged, ZenonT(120)
<1>3. CASE \E t \in Producers : EnqueueStep(t)
  BY <1>3, EnqueueMaps DEF Threads
<1>4. CASE \E t \in Consumers : DequeueLoadPublished(t)
  <2>1. PICK t \in Consumers : DequeueLoadPublished(t)
    BY <1>4
  <2> USE <2>1 DEF DequeueLoadPublished, Goto, atomics, RingInv
  <2>2. t \in Threads
    BY DEF Threads
  <2> QED  BY <2>2, HandUnchanged, QueueUnchanged, ZenonT(120)
<1>5. CASE \E t \in Consumers : DequeueStep(t)
  BY <1>5, DequeueMaps DEF Threads
<1> QED  BY <1>1, <1>2, <1>3, <1>4, <1>5 DEF Next

(* enqueue and dequeue together behave as a bounded first-in first-out     *)
(* queue, whatever the numbers of producers, consumers and slots.          *)
THEOREM RingImplementsFIFO == Spec => ImplementsFIFO
<1>1. RingInv /\ RingInv' /\ [Next]_vars => [FIFO!FifoNext]_FIFO!fifoVars
  BY StepMaps DEF FIFO!fifoVars
<1> QED  BY <1>1, InitMaps, RingInvariant, PTL DEF Spec, ImplementsFIFO, FIFO!FifoSpec
=============================================================================
