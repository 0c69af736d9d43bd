------------------------- MODULE LockFreeRingBuffer -------------------------
(***************************************************************************)
(* The lock-free ring buffer behind every worker's affinityTaskList        *)
(* (AsyncRT/Support/LockFreeRingBuffer.h).  Threads call enqueue and       *)
(* dequeue; one action is one access to a shared atomic or to a slot, so   *)
(* that every interleaving the four atomics allow is explored.  A weak     *)
(* compare-exchange may fail although the value is the expected one.       *)
(* The indices are natural numbers: the source assumes that uint64_t       *)
(* counters never wrap, but their unsigned subtraction does (Distance).    *)
(***************************************************************************)
EXTENDS Integers, Sequences

CONSTANTS
  Producers,     \* the threads that call enqueue
  Consumers,     \* the threads that call dequeue
  Items,         \* the items that are enqueued
  Empty,         \* a value-initialized or moved-from item
  size,          \* the number of slots
  IndexModulus,  \* 2^64 in the source: unsigned differences wrap here
  MaxEnqueues    \* bound: the calls of enqueue in one behaviour

ASSUME SizeAssumption ==
  /\ size \in Nat \ {0}
  /\ \E k \in 0..63 : size = 2^k

ASSUME ItemAssumption == Empty \notin Items

ASSUME BoundAssumption ==
  /\ IndexModulus \in Nat
  /\ MaxEnqueues \in Nat

Threads == Producers \cup Consumers

VARIABLES
  readIndex, writeIndex, consumed, published,  \* the four atomics
  buffer,    \* the slots
  pc,        \* the statement each thread is about to execute
  cur,       \* each thread's curWriteIndex or curReadIndex
  seen,      \* each thread's curConsumed or curPublished
  item,      \* the item a thread is putting in or has taken out
  calls,     \* how many calls of enqueue were made (bounds the model)
  claimed    \* history: the item of every claimed write index, in order

atomics == <<readIndex, writeIndex, consumed, published>>
vars == <<atomics, buffer, pc, cur, seen, item, calls, claimed>>

Enqueuing == {"loadWriteIndex", "claimWrite", "recheckConsumed", "writeSlot",
              "publish"}
Dequeuing == {"loadReadIndex", "claimRead", "recheckPublished", "readSlot",
              "consume"}

Init ==
  /\ readIndex = 0 /\ writeIndex = 0 /\ consumed = 0 /\ published = 0
  /\ buffer = [i \in 0..(size - 1) |-> Empty]
  /\ pc = [t \in Threads |-> "idle"]
  /\ cur = [t \in Threads |-> 0]
  /\ seen = [t \in Threads |-> 0]
  /\ item = [t \in Threads |-> Empty]
  /\ calls = 0
  /\ claimed = <<>>

slot(i) == i % size

(* curWriteIndex - consumed on uint64_t. *)
Distance(a, b) == IF a >= b THEN a - b ELSE a - b + IndexModulus

LooksFull(w, c) == Distance(w, c) >= size

Goto(t, label) == pc' = [pc EXCEPT ![t] = label]

(* A call that found the buffer full or empty: the item stays with the caller. *)
GiveUp(t) ==
  /\ Goto(t, "idle")
  /\ item' = [item EXCEPT ![t] = Empty]

(***************************************************************************)
(* enqueue                                                                 *)
(***************************************************************************)
EnqueueLoadConsumed(t, x) ==
  /\ pc[t] = "idle"
  /\ calls < MaxEnqueues
  /\ calls' = calls + 1
  /\ seen' = [seen EXCEPT ![t] = consumed]
  /\ item' = [item EXCEPT ![t] = x]
  /\ Goto(t, "loadWriteIndex")
  /\ UNCHANGED <<atomics, buffer, cur, claimed>>

EnqueueLoadWriteIndex(t) ==
  /\ pc[t] = "loadWriteIndex"
  /\ cur' = [cur EXCEPT ![t] = writeIndex]
  /\ \/ LooksFull(writeIndex, seen[t]) /\ GiveUp(t)
     \/ ~LooksFull(writeIndex, seen[t]) /\ Goto(t, "claimWrite") /\ UNCHANGED item
  /\ UNCHANGED <<atomics, buffer, seen, calls, claimed>>

EnqueueClaim(t) ==
  /\ pc[t] = "claimWrite"
  /\ writeIndex = cur[t]
  /\ writeIndex' = cur[t] + 1
  /\ claimed' = Append(claimed, item[t])
  /\ Goto(t, "writeSlot")
  /\ UNCHANGED <<readIndex, consumed, published, buffer, cur, seen, item, calls>>

EnqueueClaimFails(t) ==
  /\ pc[t] = "claimWrite"
  /\ cur' = [cur EXCEPT ![t] = writeIndex]
  /\ Goto(t, "recheckConsumed")
  /\ UNCHANGED <<atomics, buffer, seen, item, calls, claimed>>

EnqueueRecheck_Dropped(t) ==
  /\ pc[t] = "recheckConsumed"
  /\ Goto(t, "claimWrite")
  /\ UNCHANGED <<atomics, buffer, cur, seen, item, calls, claimed>>

EnqueueRecheck(t) ==
  /\ pc[t] = "recheckConsumed"
  /\ \/ LooksFull(cur[t], consumed) /\ GiveUp(t)
     \/ ~LooksFull(cur[t], consumed) /\ Goto(t, "claimWrite") /\ UNCHANGED item
  /\ UNCHANGED <<atomics, buffer, cur, seen, calls, claimed>>

EnqueueWriteSlot(t) ==
  /\ pc[t] = "writeSlot"
  /\ buffer' = [buffer EXCEPT ![slot(cur[t])] = item[t]]
  /\ item' = [item EXCEPT ![t] = Empty]
  /\ Goto(t, "publish")
  /\ UNCHANGED <<atomics, cur, seen, calls, claimed>>

EnqueuePublish_OutOfOrder(t) ==
  /\ pc[t] = "publish"
  /\ published' = published + 1
  /\ Goto(t, "idle")
  /\ UNCHANGED <<readIndex, writeIndex, consumed, buffer, cur, seen, item, calls,
                 claimed>>

EnqueuePublish_StoresIndex(t) ==
  /\ pc[t] = "publish"
  /\ published = cur[t]
  /\ published' = cur[t]
  /\ Goto(t, "idle")
  /\ UNCHANGED <<readIndex, writeIndex, consumed, buffer, cur, seen, item, calls,
                 claimed>>

EnqueuePublish(t) ==
  /\ pc[t] = "publish"
  /\ published = cur[t]
  /\ published' = cur[t] + 1
  /\ Goto(t, "idle")
  /\ UNCHANGED <<readIndex, writeIndex, consumed, buffer, cur, seen, item, calls,
                 claimed>>

(***************************************************************************)
(* dequeue                                                                 *)
(***************************************************************************)
DequeueLoadPublished(t) ==
  /\ pc[t] = "idle"
  /\ seen' = [seen EXCEPT ![t] = published]
  /\ Goto(t, "loadReadIndex")
  /\ UNCHANGED <<atomics, buffer, cur, item, calls, claimed>>

DequeueLoadReadIndex_OffByOne(t) ==
  /\ pc[t] = "loadReadIndex"
  /\ cur' = [cur EXCEPT ![t] = readIndex]
  /\ \/ seen[t] <= readIndex + 1 /\ Goto(t, "idle")
     \/ seen[t] > readIndex + 1 /\ Goto(t, "claimRead")
  /\ UNCHANGED <<atomics, buffer, seen, item, calls, claimed>>

DequeueLoadReadIndex(t) ==
  /\ pc[t] = "loadReadIndex"
  /\ cur' = [cur EXCEPT ![t] = readIndex]
  /\ \/ seen[t] <= readIndex /\ Goto(t, "idle")
     \/ seen[t] > readIndex /\ Goto(t, "claimRead")
  /\ UNCHANGED <<atomics, buffer, seen, item, calls, claimed>>

DequeueClaim(t) ==
  /\ pc[t] = "claimRead"
  /\ readIndex = cur[t]
  /\ readIndex' = cur[t] + 1
  /\ Goto(t, "readSlot")
  /\ UNCHANGED <<writeIndex, consumed, published, buffer, cur, seen, item, calls,
                 claimed>>

DequeueClaimFails(t) ==
  /\ pc[t] = "claimRead"
  /\ cur' = [cur EXCEPT ![t] = readIndex]
  /\ Goto(t, "recheckPublished")
  /\ UNCHANGED <<atomics, buffer, seen, item, calls, claimed>>

DequeueRecheck(t) ==
  /\ pc[t] = "recheckPublished"
  /\ \/ published <= cur[t] /\ Goto(t, "idle")
     \/ published > cur[t] /\ Goto(t, "claimRead")
  /\ UNCHANGED <<atomics, buffer, cur, seen, item, calls, claimed>>

DequeueReadSlot(t) ==
  /\ pc[t] = "readSlot"
  /\ item' = [item EXCEPT ![t] = buffer[slot(cur[t])]]
  /\ buffer' = [buffer EXCEPT ![slot(cur[t])] = Empty]
  /\ Goto(t, "consume")
  /\ UNCHANGED <<atomics, cur, seen, calls, claimed>>

DequeueConsume(t) ==
  /\ pc[t] = "consume"
  /\ consumed = cur[t]
  /\ consumed' = cur[t] + 1
  /\ item' = [item EXCEPT ![t] = Empty]
  /\ Goto(t, "idle")
  /\ UNCHANGED <<readIndex, writeIndex, published, buffer, cur, seen, calls, claimed>>

(***************************************************************************)
(* The specification.                                                      *)
(***************************************************************************)
EnqueueStep(t) ==
  \/ EnqueueLoadWriteIndex(t) \/ EnqueueClaim(t) \/ EnqueueClaimFails(t)
  \/ EnqueueRecheck(t) \/ EnqueueWriteSlot(t) \/ EnqueuePublish(t)

DequeueStep(t) ==
  \/ DequeueLoadReadIndex(t) \/ DequeueClaim(t) \/ DequeueClaimFails(t)
  \/ DequeueRecheck(t) \/ DequeueReadSlot(t) \/ DequeueConsume(t)

Next ==
  \/ \E t \in Producers, x \in Items : EnqueueLoadConsumed(t, x)
  \/ \E t \in Producers : EnqueueStep(t)
  \/ \E t \in Consumers : DequeueLoadPublished(t) \/ DequeueStep(t)

Spec == Init /\ [][Next]_vars

(* A thread inside a call keeps running, and a compare-exchange that is    *)
(* retried often enough succeeds.  Nobody is obliged to start a call.      *)
Fairness ==
  /\ \A t \in Producers :
       WF_vars(EnqueueStep(t)) /\ SF_vars(EnqueueClaim(t))
  /\ \A t \in Consumers :
       WF_vars(DequeueStep(t)) /\ SF_vars(DequeueClaim(t))

FairSpec == Spec /\ Fairness

(***************************************************************************)
(* Properties                                                              *)
(***************************************************************************)
(* Every variable has the type of its C++ counterpart. *)
TypeOK ==
  /\ readIndex \in Nat /\ writeIndex \in Nat
  /\ consumed \in Nat /\ published \in Nat
  /\ buffer \in [0..(size - 1) -> Items \cup {Empty}]
  /\ pc \in [Threads -> {"idle"} \cup Enqueuing \cup Dequeuing]
  /\ cur \in [Threads -> Nat]
  /\ seen \in [Threads -> Nat]
  /\ item \in [Threads -> Items \cup {Empty}]
  /\ calls \in 0..MaxEnqueues
  /\ claimed \in Seq(Items)

(* The four counters chase each other and the writers stay within one lap  *)
(* of the slowest reader: the comment above the fields says that published *)
(* follows writeIndex and consumed follows readIndex.                      *)
IndexOrder ==
  /\ consumed <= readIndex /\ readIndex <= published /\ published <= writeIndex
  /\ writeIndex <= consumed + size

(* A thread that claimed a write index finds the slot vacated: enqueue     *)
(* "does not overwrite any unconsumed item" whatever the full-check saw.   *)
NoOverwrite ==
  \A t \in Threads : pc[t] = "writeSlot" => buffer[slot(cur[t])] = Empty

(* No two threads access one slot at the same time, so that the plain      *)
(* (non-atomic) accesses to buffer[] never race.                           *)
NoSlotRace ==
  \A t, u \in Threads :
    /\ pc[t] \in {"writeSlot", "readSlot"}
    /\ pc[u] \in {"writeSlot", "readSlot"}
    /\ slot(cur[t]) = slot(cur[u])
    => t = u

(* What dequeue returns is the item of the index it claimed: items leave   *)
(* in the order their writers claimed, each one once, none invented.       *)
DequeuesInClaimOrder ==
  \A t \in Threads : pc[t] = "consume" =>
    /\ cur[t] < Len(claimed)
    /\ item[t] = claimed[cur[t] + 1]

(***************************************************************************)
(* The inductive invariant                                                 *)
(***************************************************************************)
Writing(t) == pc[t] \in {"writeSlot", "publish"}
Reading(t) == pc[t] \in {"readSlot", "consume"}

(* The index a writer (reader) owns lies between published and writeIndex  *)
(* (consumed and readIndex), and nobody else owns it.                      *)
IndicesOwned ==
  /\ \A t \in Threads : Writing(t) => published <= cur[t] /\ cur[t] < writeIndex
  /\ \A t \in Threads : Reading(t) => consumed <= cur[t] /\ cur[t] < readIndex
  /\ \A t, u \in Threads : cur[t] = cur[u] /\
       ((Writing(t) /\ Writing(u)) \/ (Reading(t) /\ Reading(u))) => t = u

(* A stale view errs on the safe side: if the index a thread is about to   *)
(* claim is still current, the check it made before still holds.           *)
ViewsSafe ==
  \A t \in Threads :
    /\ pc[t] = "loadWriteIndex" => seen[t] <= consumed
    /\ pc[t] \in {"claimWrite", "recheckConsumed"} => cur[t] <= writeIndex
    /\ pc[t] = "claimWrite" /\ cur[t] = writeIndex => writeIndex < consumed + size
    /\ pc[t] = "loadReadIndex" => seen[t] <= published
    /\ pc[t] \in {"claimRead", "recheckPublished"} => cur[t] <= readIndex
    /\ pc[t] = "claimRead" /\ cur[t] = readIndex => readIndex < published

(* What every slot of the window consumed .. consumed + size - 1 holds.    *)
SlotsHold ==
  /\ \A i \in readIndex..(published - 1) : buffer[slot(i)] = claimed[i + 1]
  /\ \A i \in writeIndex..(consumed + size - 1) : buffer[slot(i)] = Empty
  /\ \A t \in Threads : pc[t] \in {"readSlot", "publish"} =>
       buffer[slot(cur[t])] = claimed[cur[t] + 1]
  /\ \A t \in Threads : pc[t] \in {"writeSlot", "consume"} =>
       buffer[slot(cur[t])] = Empty

(* What every thread carries. *)
HandsHold ==
  /\ Len(claimed) = writeIndex
  /\ \A t \in Threads : pc[t] \in {"loadWriteIndex", "claimWrite", "recheckConsumed"} =>
       item[t] \in Items
  /\ \A t \in Threads : pc[t] \in {"writeSlot", "consume"} =>
       item[t] = claimed[cur[t] + 1]

(* The counters, the owners and the slots agree at every step of enqueue   *)
(* and dequeue: the invariant from which the safety properties follow.     *)
RingInv ==
  TypeOK /\ IndexOrder /\ IndicesOwned /\ ViewsSafe /\ SlotsHold /\ HandsHold

(* The items in the buffer and in the readers' hands, for BoundedFIFO: an  *)
(* item enters when it is published and leaves when its index is claimed.  *)
AbstractQueue ==
  [k \in 1..(published - readIndex) |-> buffer[slot(readIndex + k - 1)]]

AbstractHand ==
  [t \in Threads |->
     IF pc[t] = "readSlot" THEN buffer[slot(cur[t])]
     ELSE IF pc[t] = "consume" THEN item[t] ELSE Empty]

FIFO == INSTANCE BoundedFIFO WITH
          Capacity <- size, queue <- AbstractQueue, hand <- AbstractHand

(* The ring buffer implements a bounded first-in first-out queue: enqueue  *)
(* takes effect when it publishes, dequeue when it claims its index.       *)
ImplementsFIFO == FIFO!FifoSpec

(* Every call of enqueue or dequeue returns: the threads that spin until   *)
(* published (consumed) reaches their index never wait for each other in   *)
(* a cycle, and a claim is never lost.                                     *)
CallsReturn ==
  \A t \in Threads : pc[t] # "idle" ~> pc[t] = "idle"
=============================================================================
