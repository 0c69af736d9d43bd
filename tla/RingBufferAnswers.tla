-------------------------- MODULE RingBufferAnswers --------------------------
(***************************************************************************)
(* LockFreeRingBuffer as a worker's affinity list uses it, with an         *)
(* observer: for each thread, whether the buffer was empty at some moment  *)
(* since its call began.  The observer changes nothing of the buffer; it   *)
(* says what the answer "value-initialized" of dequeue means.              *)
(***************************************************************************)
EXTENDS LockFreeRingBuffer

VARIABLE wasEmpty

(* Every published item has been claimed. *)
IsEmpty == published = readIndex

(* The observer restarts at each call. *)
ObservedInit == Init /\ wasEmpty = [t \in Threads |-> TRUE]

ObservedNext ==
  /\ Next
  /\ wasEmpty' = [t \in Threads |->
       IsEmpty \/ IsEmpty' \/ (pc[t] # "idle" /\ wasEmpty[t])]

ObservedSpec ==
  ObservedInit /\ [][ObservedNext]_<<vars, wasEmpty>> /\ Fairness

(* "Returns a value-initialized ItemType if the buffer is empty" (comment  *)
(* on dequeue): a call that returns no item saw a moment at which nothing  *)
(* was left to take.  A worker is the only consumer of its affinity list,  *)
(* and run dry means run dry: this is what lets it go to sleep.            *)
NoItemMeansEmpty ==
  [][\A t \in Consumers :
       pc[t] \in {"loadReadIndex", "recheckPublished"} /\ pc'[t] = "idle"
       => wasEmpty'[t]]_vars
=============================================================================
