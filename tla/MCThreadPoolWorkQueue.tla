----------------------- MODULE MCThreadPoolWorkQueue -----------------------
(***************************************************************************)
(* Instances of ThreadPoolWorkQueue for TLC: which calls the tasks and the *)
(* threads outside the loop make in each run.                              *)
(***************************************************************************)
EXTENDS ThreadPoolWorkQueue

addTask(task, id) == [op |-> "addTask", task |-> task, taskId |-> id]
global(task) == addTask(task, kDefaultTaskId)
local(task) == [op |-> "addLocalTask", task |-> task]
await(values) == [op |-> "await", values |-> values]
shutdown == [op |-> "shutdown"]

(* A foreign thread adds, through addLocalTask, a task that spawns a local *)
(* task and awaits it, re-entering the loop.  The donating main thread     *)
(* adds a task of the other worker, which nobody awaits, and leaves one of *)
(* its own to shutdown, which adds another without affinity.               *)
NestedTasks == {"g", "l", "a", "h", "k"}
NestedBody ==
  [task \in NestedTasks |->
     CASE task = "g" -> <<local("l"), await({"l"})>>
       [] task = "h" -> <<global("k")>>
       [] OTHER -> <<>>]
NestedProgram ==
  [t \in {0, 2} |->
     IF t = 0 THEN <<addTask("a", 1), await({"g"}), addTask("h", 0), shutdown>>
     ELSE <<local("g")>>]

(* One worker whose affinity list is too short for its tasks. *)
ShortTasks == {"a", "b", "c"}
ShortBody == [task \in ShortTasks |-> <<>>]
ShortProgram ==
  [t \in {2} |-> <<addTask("a", 0), addTask("b", 0), global("c"),
                   await({"a", "b", "c"}), shutdown>>]
=============================================================================
