----------------------------- MODULE BoundedFIFO -----------------------------
(***************************************************************************)
(* What the affinity task list of a worker promises to its users: a        *)
(* first-in first-out queue of at most Capacity items.  An item that was   *)
(* put into the queue is handed to exactly one thread, in order.  The      *)
(* lock-free ring buffer of module LockFreeRingBuffer implements it.       *)
(***************************************************************************)
EXTENDS Naturals, Sequences

CONSTANTS
  Threads,   \* the threads that call enqueue and dequeue
  Items,     \* what the queue can hold
  Empty,     \* the value-initialized item, never put into the queue
  Capacity   \* the most items the queue holds at a time

VARIABLES
  queue,     \* the items in the queue, oldest first
  hand       \* for each thread, the item it has taken and not yet returned

fifoVars == <<queue, hand>>

FifoInit ==
  /\ queue = <<>>
  /\ hand = [t \in Threads |-> Empty]

Put(x) ==
  /\ Len(queue) < Capacity
  /\ queue' = Append(queue, x)
  /\ UNCHANGED hand

Take(t) ==
  /\ queue # <<>>
  /\ hand[t] = Empty
  /\ hand' = [hand EXCEPT ![t] = Head(queue)]
  /\ queue' = Tail(queue)

Return(t) ==
  /\ hand[t] # Empty
  /\ hand' = [hand EXCEPT ![t] = Empty]
  /\ UNCHANGED queue

FifoNext ==
  \/ \E x \in Items : Put(x)
  \/ \E t \in Threads : Take(t) \/ Return(t)

FifoSpec == FifoInit /\ [][FifoNext]_fifoVars
=============================================================================
