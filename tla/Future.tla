------------------------------- MODULE Future -------------------------------
(***************************************************************************)
(* What an AsyncValue promises: it becomes available or an error once, an  *)
(* indirect value with the outcome of the value it is resolved to, and a   *)
(* waiter runs once, when the value it waits on is ready.                  *)
(***************************************************************************)
EXTENDS Naturals

CONSTANTS Concretes, Indirects, Users, Target

VARIABLES state, ran

FutureInit ==
  /\ state = [v \in Concretes \cup Indirects |-> "pending"]
  /\ ran = [w \in Users \cup Indirects |-> 0]

Resolve(v) ==
  /\ state[v] = "pending"
  /\ \E s \in {"available", "error"} :
       /\ v \in Indirects => state[Target[v]] = s
       /\ state' = [state EXCEPT ![v] = s]
  /\ UNCHANGED ran

RunWaiter(w) ==
  /\ ran[w] = 0
  /\ state[Target[w]] # "pending"
  /\ ran' = [ran EXCEPT ![w] = 1]
  /\ UNCHANGED state

FutureNext ==
  \/ \E v \in Concretes \cup Indirects : Resolve(v)
  \/ \E w \in Users \cup Indirects : RunWaiter(w)

FutureSpec == FutureInit /\ [][FutureNext]_<<state, ran>>
=============================================================================
