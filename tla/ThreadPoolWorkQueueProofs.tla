--------------------- MODULE ThreadPoolWorkQueueProofs ----------------------
(***************************************************************************)
(* No task that a list of the pool holds is left to sleeping workers, for  *)
(* every number of workers and foreign threads, every width of the bit     *)
(* vector and all tasks and programs.                                      *)
(***************************************************************************)
EXTENDS ThreadPoolWorkQueueInvariant

\* The prover of every leaf that names no other.
USE ZenonT(120)

-----------------------------------------------------------------------------
(***************************************************************************)
(* The calls a task or a program makes                                     *)
(***************************************************************************)
(* The record of a thread that is about to make a call. *)
LEMMA InCalls ==
  ASSUME Stacks, NEW t \in Threads, NEW op, NextCall(t, op)
  PROVE  /\ ~Idle(t) /\ stack[t] # <<>> /\ stack[t][Len(stack[t])].fn = "calls"
         /\ Tops[t].fn = "calls"
         /\ Call(t) \in CallsOf(t) /\ Call(t).op = op
         /\ AfterCall(t) \in [fn : {"calls"}, task : added \cup {NoTask}, rest : Seq(CallsOf(t))]
<1>1. ~Idle(t) /\ Top(t).fn = "calls" /\ Top(t).rest # <<>> /\ Call(t).op = op
  BY DEF NextCall, Call
<1>2. PICK f : /\ f = Top(t) /\ f \in Records(t, added) /\ Tops[t] = Control(f)
               /\ stack[t] # <<>> /\ f = stack[t][Len(stack[t])]
  BY <1>1, TopRecord
<1>3. f \in [fn : {"calls"}, task : added \cup {NoTask}, rest : Seq(CallsOf(t))]
  BY <1>1, <1>2 DEF Records
<1>4. PICK s \in Seq(CallsOf(t)) : s = f.rest /\ s # <<>>
  BY <1>1, <1>2, <1>3
<1>5. Head(s) \in CallsOf(t) /\ Tail(s) \in Seq(CallsOf(t))
  BY <1>4, SMTT(60)
<1>6. Call(t) \in CallsOf(t)
  BY <1>2, <1>4, <1>5 DEF Call
<1>7. AfterCall(t) = [f EXCEPT !.rest = Tail(s)]
  BY <1>2, <1>3, <1>4 DEF AfterCall
<1>8. AfterCall(t) \in [fn : {"calls"}, task : added \cup {NoTask}, rest : Seq(CallsOf(t))]
  BY <1>3, <1>5, <1>7
<1>9. Tops[t].fn = "calls"
  BY <1>2, <1>3, SMTT(60) DEF Control
<1> QED  BY <1>1, <1>2, <1>3, <1>6, <1>8, <1>9

(* What is left of a program is a record that may wait. *)
LEMMA CallIsPaused ==
  ASSUME NEW t \in Threads, NEW A, NEW B, A \subseteq B,
         NEW f \in [fn : {"calls"}, task : A \cup {NoTask}, rest : Seq(CallsOf(t))]
  PROVE  f \in Records(t, B) /\ Paused(f) /\ f.fn = "calls"
<1>1. f \in [fn : {"calls"}, task : B \cup {NoTask}, rest : Seq(CallsOf(t))]
  OBVIOUS
<1> QED  BY <1>1 DEF Records, Paused

(* A call is entered. *)
LEMMA CallEnters ==
  ASSUME Stacks, NEW t \in Threads, NEW op, NextCall(t, op), added \subseteq added',
         NEW g \in Records(t, added'), Enter(t, g), doneFlag' = doneFlag
  PROVE  Stacks' /\ Tops' = [Tops EXCEPT ![t] = Control(g)]
<1>1. PICK f : f = AfterCall(t) OBVIOUS
<1>2. /\ stack[t] # <<>> /\ stack[t][Len(stack[t])].fn = "calls"
      /\ f \in [fn : {"calls"}, task : added \cup {NoTask}, rest : Seq(CallsOf(t))]
  BY <1>1, InCalls
<1>3. f \in Records(t, added') /\ Paused(f)
  BY <1>2, CallIsPaused
<1>4. stack' = [stack EXCEPT ![t] = Append(Append(Below(@), f), g)]
  BY <1>1 DEF Enter
<1> QED  BY <1>2, <1>3, <1>4, StackCall

(* A call returns at once. *)
LEMMA CallPasses ==
  ASSUME Stacks, NEW t \in Threads, NEW op, NextCall(t, op), added \subseteq added',
         Become(t, AfterCall(t)), doneFlag' = doneFlag
  PROVE  Stacks' /\ \E c : Quiet(c) /\ Tops' = [Tops EXCEPT ![t] = c]
<1>1. PICK f : f = AfterCall(t) OBVIOUS
<1>2. /\ stack[t] # <<>> /\ stack[t][Len(stack[t])].fn = "calls"
      /\ f \in [fn : {"calls"}, task : added \cup {NoTask}, rest : Seq(CallsOf(t))]
  BY <1>1, InCalls
<1>3. f \in Records(t, added') /\ Paused(f)
  BY <1>2, CallIsPaused
<1>4. stack' = [stack EXCEPT ![t] = Append(Below(@), f)]
  BY <1>1 DEF Become
<1>5. Stacks' /\ Tops' = [Tops EXCEPT ![t] = Control(f)]
  BY <1>2, <1>3, <1>4, StackBecome
<1> QED  BY <1>3, <1>5, PausedIsQuiet

(* Adding a task leaves the lists in order. *)
LEMMA DataGrows ==
  ASSUME Data, NEW task \in Tasks, added' = added \cup {task},
         UNCHANGED <<lists, nextLocalTaskListIndex, signals, ready, multicastFactor>>,
         localTaskList' \in [Workers -> Seq(added')],
         \A w \in Workers : nextLocalTaskListIndex[w] <= Len(localTaskList'[w])
  PROVE  Data'
<1>1. /\ added' \subseteq Tasks /\ ready' \subseteq added' /\ taskList' \subseteq added'
      /\ added \subseteq added'
  BY DEF Data, lists
<1>2. overflowTaskList' \in Seq(added')
  BY <1>1, SeqGrows DEF Data, lists
<1>3. affinityTaskList' \in [Workers -> Seq(added')]
  BY <1>1, SeqGrows DEF Data, lists
<1>4. localSpillQueue' \in [Workers -> Seq(added')]
  BY <1>1, SeqGrows DEF Data, lists
<1> QED  BY <1>1, <1>2, <1>3, <1>4 DEF Data, lists, signals, workerGroup

(* addTask is called. *)
LEMMA CallAddTaskInv ==
  ASSUME PoolInv, NEW t \in Threads, CallAddTask(t), UNCHANGED multicastFactor
  PROVE  PoolInv'
<1>1. Stacks /\ Data /\ NextCall(t, "addTask")
  BY DEF PoolInv, CallAddTask
<1>2. PICK call : call = Call(t) OBVIOUS
<1>3. call \in CallsOf(t) /\ call.op = "addTask" /\ Tops[t].fn = "calls"
  BY <1>1, <1>2, InCalls
<1>4. call.task \in Tasks /\ call.taskId \in Workers \cup {kDefaultTaskId}
  BY <1>3 DEF CallsOf, TaskCalls
<1>5. /\ added' = added \cup {call.task} /\ added \subseteq added' /\ doneFlag' = doneFlag
      /\ UNCHANGED <<lists, locals, signals, ready>>
  BY <1>2 DEF CallAddTask, signals
<1>6. PICK g : g = AddTask(call.task, call.taskId) OBVIOUS
<1>7. g \in Records(t, added') /\ Quiet(Control(g))
  BY <1>4, <1>5, <1>6 DEF AddTask, Records, Quiet, Control, Suspending
<1>8. Stacks' /\ Tops' = [Tops EXCEPT ![t] = Control(g)]
  BY <1>1, <1>2, <1>5, <1>6, <1>7, CallEnters DEF CallAddTask
<1>9. Data'
  <2>1. localTaskList' \in [Workers -> Seq(added')]
    BY <1>1, <1>5, SeqGrows, SMTT(60) DEF Data, locals
  <2>2. \A w \in Workers : nextLocalTaskListIndex[w] <= Len(localTaskList'[w])
    BY <1>1, <1>5 DEF Data, locals
  <2> QED  BY <1>1, <1>4, <1>5, <2>1, <2>2, DataGrows DEF locals
<1> QED  BY <1>3, <1>5, <1>7, <1>8, <1>9, QuietWork DEF lists

(* addLocalTask: a worker keeps the task, anyone else adds it.             *)
LEMMA AddLocalTaskInv ==
  ASSUME PoolInv, NEW t \in Threads, addLocalTask(t), UNCHANGED multicastFactor
  PROVE  PoolInv'
<1>1. Stacks /\ Data /\ NextCall(t, "addLocalTask")
  BY DEF PoolInv, addLocalTask
<1>2. PICK call : call = Call(t) OBVIOUS
<1>3. call \in CallsOf(t) /\ call.op = "addLocalTask" /\ Tops[t].fn = "calls"
  BY <1>1, <1>2, InCalls
<1>4. call.task \in Tasks
  BY <1>3 DEF CallsOf, TaskCalls
<1>5. /\ added' = added \cup {call.task} /\ added \subseteq added' /\ doneFlag' = doneFlag
      /\ UNCHANGED <<lists, nextLocalTaskListIndex, signals, ready>>
  BY <1>2 DEF addLocalTask, signals
<1>6. CASE t \in Workers
  <2>1. /\ localTaskList' = [localTaskList EXCEPT ![t] = Append(@, call.task)]
        /\ Become(t, AfterCall(t))
    BY <1>2, <1>6 DEF addLocalTask
  <2>2. Stacks' /\ \E c : Quiet(c) /\ Tops' = [Tops EXCEPT ![t] = c]
    BY <1>1, <1>5, <2>1, CallPasses
  <2>3. PICK s \in Seq(added') : s = localTaskList[t]
    BY <1>1, <1>5, <1>6, SeqGrows, SMTT(60) DEF Data
  <2>4. PICK r \in Seq(added') : r = Append(s, call.task) /\ Len(r) = Len(s) + 1
    <3>1. call.task \in added'
      BY <1>5
    <3> QED  BY <3>1, Appended
  <2>5. localTaskList' = [localTaskList EXCEPT ![t] = r]
    BY <2>1, <2>3, <2>4
  <2>6. \A w \in Workers : localTaskList[w] \in Seq(added')
    BY <1>1, <1>5, SeqGrows, SMTT(60) DEF Data
  <2>7. localTaskList' \in [Workers -> Seq(added')]
    BY <1>1, <2>5, <2>6 DEF Data
  <2>8. \A w \in Workers : nextLocalTaskListIndex[w] <= Len(localTaskList'[w])
    <3> SUFFICES ASSUME NEW w \in Workers
                 PROVE  nextLocalTaskListIndex[w] <= Len(localTaskList'[w])
      OBVIOUS
    <3>1. CASE w # t
      BY <1>1, <2>5, <3>1 DEF Data
    <3>2. CASE w = t
      <4>1. localTaskList'[t] = r
        BY <1>1, <1>6, <2>5 DEF Data
      <4>2. nextLocalTaskListIndex[t] \in Nat /\ nextLocalTaskListIndex[t] <= Len(s)
        BY <1>1, <1>6, <2>3 DEF Data
      <4>3. Len(s) \in Nat
        BY SMTT(60)
      <4> QED  BY <2>4, <3>2, <4>1, <4>2, <4>3, SMTT(60)
    <3> QED  BY <3>1, <3>2
  <2>9. Data'
    BY <1>1, <1>4, <1>5, <2>7, <2>8, DataGrows
  <2> QED  BY <1>3, <1>5, <2>2, <2>9, QuietWork DEF lists
<1>7. CASE t \notin Workers
  <2>1. Enter(t, AddTask(call.task, kDefaultTaskId)) /\ localTaskList' = localTaskList
    BY <1>2, <1>7 DEF addLocalTask
  <2>2. PICK g : g = AddTask(call.task, kDefaultTaskId) OBVIOUS
  <2>3. g \in Records(t, added') /\ Quiet(Control(g))
    BY <1>5, <2>2 DEF AddTask, Records, Quiet, Control, Suspending
  <2>4. Stacks' /\ Tops' = [Tops EXCEPT ![t] = Control(g)]
    BY <1>1, <1>5, <2>1, <2>2, <2>3, CallEnters
  <2>5. localTaskList' \in [Workers -> Seq(added')]
    BY <1>1, <1>5, <2>1, SeqGrows, SMTT(60) DEF Data
  <2>6. \A w \in Workers : nextLocalTaskListIndex[w] <= Len(localTaskList'[w])
    BY <1>1, <2>1 DEF Data
  <2>7. Data'
    BY <1>1, <1>4, <1>5, <2>5, <2>6, DataGrows
  <2> QED  BY <1>3, <1>5, <2>3, <2>4, <2>7, QuietWork DEF lists
<1> QED  BY <1>6, <1>7

(* A step of another call than addTask and the loop. *)
LEMMA InOther ==
  ASSUME Stacks, NEW t \in Threads, ~Idle(t)
  PROVE  Tops[t].fn = Top(t).fn
<1>1. PICK f : f = Top(t) /\ Tops[t] = Control(f)
  BY TopRecord
<1>2. Control(f).fn = f.fn
  BY DEF Control
<1> QED  BY <1>1, <1>2

(* A call outside the loop moves on to its next activation record. *)
LEMMA CallBecomes ==
  ASSUME Stacks, NEW t \in Threads, ~Idle(t), Top(t).fn # "runItems",
         NEW g \in Records(t, added), Become(t, g), added' = added, doneFlag => doneFlag'
  PROVE  Stacks' /\ Tops' = [Tops EXCEPT ![t] = Control(g)]
  BY TopRecord, StackBecome DEF Become

(* A quiet step outside addTask that may post tokens. *)
LEMMA QuietPost ==
  ASSUME PoolInv, NEW t \in Threads, Tops[t].fn # "addTask",
         Stacks', NEW c, Quiet(c), Tops' = [Tops EXCEPT ![t] = c],
         sema' \in [Threads -> Nat], \A w \in Workers : sema'[w] >= sema[w],
         ready' \subseteq added,
         UNCHANGED <<lists, locals, suspendedThreads, doneFlag, added, multicastFactor>>
  PROVE  PoolInv'
<1>1. Data'
  BY DEF PoolInv, Data, lists, locals, workerGroup
<1>2. Wakeups'
  BY QuietWakeups DEF PoolInv, lists
<1> QED  BY <1>1, <1>2 DEF PoolInv

(* The tokens of a thread go up by one. *)
LEMMA PostSema ==
  ASSUME Data, NEW u \in Threads, Post(u)
  PROVE  sema' \in [Threads -> Nat] /\ \A w \in Workers : sema'[w] >= sema[w]
<1>1. Workers \subseteq Threads
  BY PoolAssumption, SMTT(60) DEF Workers, Threads, PoolAssumption
<1>2. sema' \in [Threads -> Nat]
  BY SMTT(60) DEF Data, Post
<1>3. \A w \in Threads : sema[w] \in Nat /\ sema'[w] \in {sema[w], sema[w] + 1}
  BY DEF Data, Post
<1>4. \A w \in Threads : sema'[w] >= sema[w]
  BY <1>3, SMTT(60)
<1> QED  BY <1>1, <1>2, <1>4

(* Semaphores left alone. *)
LEMMA SameSema ==
  ASSUME Data, sema' = sema
  PROVE  sema' \in [Threads -> Nat] /\ \A w \in Workers : sema'[w] >= sema[w]
<1>1. Workers \subseteq Threads
  BY PoolAssumption, SMTT(60) DEF Workers, Threads, PoolAssumption
<1> QED  BY <1>1, SMTT(60) DEF Data

(* await is called. *)
LEMMA CallAwaitInv ==
  ASSUME PoolInv, NEW t \in Threads, CallAwait(t), UNCHANGED multicastFactor
  PROVE  PoolInv'
<1>1. Stacks /\ Data /\ NextCall(t, "await") /\ added \subseteq added' /\ doneFlag' = doneFlag
  BY DEF PoolInv, CallAwait, signals
<1>2. PICK call : call = Call(t) OBVIOUS
<1>3. call \in CallsOf(t) /\ call.op = "await" /\ Tops[t].fn = "calls"
  BY <1>1, <1>2, InCalls
<1>4. call.values \in SUBSET Tasks
  BY <1>3 DEF CallsOf, TaskCalls
<1>5. CASE call.values \subseteq ready
  <2>1. Stacks' /\ \E c : Quiet(c) /\ Tops' = [Tops EXCEPT ![t] = c]
    BY <1>1, <1>2, <1>5, CallPasses DEF CallAwait
  <2> QED  BY <1>3, <2>1, QuietMove DEF CallAwait
<1>6. CASE ~(call.values \subseteq ready)
  <2>1. PICK g : g = [fn |-> "await", pc |-> "register", values |-> call.values]
    OBVIOUS
  <2>2. g \in Records(t, added')
    BY <1>4, <2>1 DEF Records
  <2>3. Quiet(Control(g))
    BY <2>1 DEF Quiet, Control, Suspending
  <2>4. Enter(t, g)
    BY <1>2, <1>6, <2>1 DEF CallAwait
  <2>5. Stacks' /\ Tops' = [Tops EXCEPT ![t] = Control(g)]
    BY <1>1, <2>2, <2>4, CallEnters
  <2> QED  BY <1>3, <2>3, <2>5, QuietMove DEF CallAwait
<1> QED  BY <1>5, <1>6

(* await registers its callbacks and waits. *)
LEMMA AwaitRegisterInv ==
  ASSUME PoolInv, NEW t \in Threads, AwaitRegister(t), UNCHANGED multicastFactor
  PROVE  PoolInv'
<1>1. /\ Stacks /\ Data /\ ~Idle(t) /\ Top(t).fn = "await" /\ added' = added
      /\ doneFlag' = doneFlag
      /\ UNCHANGED <<lists, locals, suspendedThreads, doneFlag, ready, added, multicastFactor>>
  BY DEF PoolInv, AwaitRegister, At
<1>2. PICK f : f = Top(t) /\ f \in Records(t, added) /\ Tops[t].fn = "await"
  BY <1>1, TopRecord, InOther
<1>3. f.values \in SUBSET Tasks
  BY <1>1, <1>2 DEF Records
<1>4. PICK g : g = [(IF t \in Workers THEN Loop("values", f.values) ELSE ForeignWait(f.values))
                      EXCEPT !.left = f.values \ ready]
  OBVIOUS
<1>5. g \in Records(t, added) /\ Quiet(Control(g))
  <2>1. CASE t \in Workers
    <3>1. /\ g \in [fn : {"runItems"}, pc : LoopLabels, until : {"done", "values", "empty"},
                    values : SUBSET Tasks, left : SUBSET Tasks]
          /\ g.fn = "runItems" /\ g.pc = "top"
      BY <1>3, <1>4, <2>1 DEF Loop, LoopLabels
    <3> QED  BY <2>1, <3>1 DEF Records, Quiet, Control, Suspending
  <2>2. CASE t \notin Workers
    <3>1. /\ g \in [fn : {"wait"}, values : SUBSET Tasks, left : SUBSET Tasks]
          /\ g.fn = "wait"
      BY <1>3, <1>4, <2>2 DEF ForeignWait
    <3> QED  BY <2>2, <3>1 DEF Records, Quiet, Control, Suspending
  <2> QED  BY <2>1, <2>2
<1>6. Become(t, g)
  BY <1>2, <1>4 DEF AwaitRegister
<1>7. Stacks' /\ Tops' = [Tops EXCEPT ![t] = Control(g)]
  BY <1>1, <1>5, <1>6, CallBecomes, SMTT(60)
<1>8. sema' \in [Threads -> Nat] /\ \A w \in Workers : sema'[w] >= sema[w]
  BY <1>1, PostSema, SameSema DEF AwaitRegister
<1>9. ready' \subseteq added
  BY <1>1 DEF Data
<1> QED  BY <1>1, <1>2, <1>5, <1>7, <1>8, <1>9, QuietPost

(* await returns on a thread that is not a worker, and takes its token.    *)
LEMMA ForeignAwaitReturnsInv ==
  ASSUME PoolInv, NEW t \in Threads, ForeignAwaitReturns(t), UNCHANGED multicastFactor
  PROVE  PoolInv'
<1>1. /\ Stacks /\ Data /\ ~Idle(t) /\ Top(t).fn = "wait" /\ added' = added
      /\ doneFlag' = doneFlag /\ Pop(t) /\ sema[t] > 0
      /\ sema' = [sema EXCEPT ![t] = @ - 1]
      /\ UNCHANGED <<lists, locals, suspendedThreads, doneFlag, ready, added, multicastFactor>>
  BY DEF PoolInv, ForeignAwaitReturns
<1>2. Top(t) \in Records(t, added) /\ Tops[t].fn = "wait"
  BY <1>1, TopRecord, InOther
<1>3. t \notin Workers
  BY <1>1, <1>2 DEF Records
<1>4. Stacks' /\ \E c : Quiet(c) /\ Tops' = [Tops EXCEPT ![t] = c]
  BY <1>1, CallReturns
<1>5. Workers \subseteq Threads
  BY PoolAssumption, SMTT(60) DEF Workers, Threads, PoolAssumption
<1>6. sema' \in [Threads -> Nat] /\ \A w \in Workers : sema'[w] = sema[w] /\ sema[w] \in Nat
  BY <1>1, <1>3, <1>5, SMTT(60) DEF Data
<1>7. \A w \in Workers : sema'[w] >= sema[w]
  BY <1>6, SMTT(60)
<1>8. ready' \subseteq added
  BY <1>1 DEF Data
<1> QED  BY <1>1, <1>2, <1>4, <1>6, <1>7, <1>8, QuietPost

(* A task emplaces its value and goes on to the callbacks. *)
LEMMA FinishTaskInv ==
  ASSUME PoolInv, NEW t \in Threads, FinishTask(t), UNCHANGED multicastFactor
  PROVE  PoolInv'
<1>1. /\ Stacks /\ Data /\ ~Idle(t) /\ Top(t).fn = "calls" /\ Top(t).task # NoTask
      /\ added' = added /\ doneFlag' = doneFlag /\ sema' = sema
      /\ UNCHANGED <<lists, locals, suspendedThreads, doneFlag, added, multicastFactor>>
  BY DEF PoolInv, FinishTask, signals
<1>2. PICK f : f = Top(t) /\ f \in Records(t, added) /\ Tops[t].fn = "calls"
  BY <1>1, TopRecord, InOther
<1>3. f.task \in added
  BY <1>1, <1>2 DEF Records
<1>4. ready' \subseteq added
  BY <1>1, <1>2, <1>3 DEF Data, FinishTask
<1>5. sema' \in [Threads -> Nat] /\ \A w \in Workers : sema'[w] >= sema[w]
  BY <1>1, SameSema
<1>6. PICK to \in SUBSET (Threads \X Nat) : to = Waiting(f.task)
  <2> SUFFICES ASSUME NEW await \in Waiting(f.task)
               PROVE  await \in Threads \X Nat
    OBVIOUS
  <2>1. PICK u \in Threads : \E k \in 1..Len(stack[u]) : await = <<u, k>>
    BY DEF Waiting
  <2>2. Len(stack[u]) \in Nat
    BY <1>1, SMTT(60) DEF Stacks
  <2> QED  BY <2>1, <2>2, SMTT(60)
<1>7. CASE to = {}
  <2>1. Stacks' /\ \E c : Quiet(c) /\ Tops' = [Tops EXCEPT ![t] = c]
    BY <1>1, <1>2, <1>6, <1>7, CallReturns DEF FinishTask
  <2> QED  BY <1>1, <1>2, <1>4, <1>5, <2>1, QuietPost
<1>8. CASE to # {}
  <2>1. PICK g : g = [fn |-> "notify", pc |-> "count", task |-> f.task, to |-> to,
                      toPost |-> {}]
    OBVIOUS
  <2>2. g \in [fn : {"notify"}, pc : {"count", "post"}, task : added,
               to : SUBSET (Threads \X Nat), toPost : SUBSET Threads]
    BY <1>3, <2>1
  <2>3. g \in Records(t, added)
    BY <2>2 DEF Records
  <2>4. Quiet(Control(g))
    BY <2>1 DEF Quiet, Control, Suspending
  <2>5. Become(t, g)
    BY <1>2, <1>6, <1>8, <2>1 DEF FinishTask
  <2>6. Stacks' /\ Tops' = [Tops EXCEPT ![t] = Control(g)]
    BY <1>1, <2>3, <2>5, CallBecomes, SMTT(60)
  <2> QED  BY <1>1, <1>2, <1>4, <1>5, <2>4, <2>6, QuietPost
<1> QED  BY <1>7, <1>8

(* A program ends. *)
LEMMA FinishProgramInv ==
  ASSUME PoolInv, NEW t \in Threads, FinishProgram(t), UNCHANGED multicastFactor
  PROVE  PoolInv'
<1>1. /\ Stacks /\ ~Idle(t) /\ Top(t).fn = "calls" /\ Pop(t)
      /\ added' = added /\ doneFlag' = doneFlag
  BY DEF PoolInv, FinishProgram, signals
<1>2. Tops[t].fn = "calls"
  BY <1>1, InOther
<1>3. Stacks' /\ \E c : Quiet(c) /\ Tops' = [Tops EXCEPT ![t] = c]
  BY <1>1, CallReturns
<1> QED  BY <1>2, <1>3, QuietMove DEF FinishProgram

(* The last callback of an await posts its semaphore. *)
LEMMA NotifyPostInv ==
  ASSUME PoolInv, NEW t \in Threads, NotifyPost(t), UNCHANGED multicastFactor
  PROVE  PoolInv'
<1>1. /\ Stacks /\ Data /\ ~Idle(t) /\ Top(t).fn = "notify"
      /\ added' = added /\ doneFlag' = doneFlag
      /\ UNCHANGED <<lists, locals, suspendedThreads, doneFlag, ready, added, multicastFactor>>
  BY DEF PoolInv, NotifyPost, At
<1>2. PICK f : f = Top(t) /\ f \in Records(t, added) /\ Tops[t].fn = "notify"
  BY <1>1, TopRecord, InOther
<1>3. f \in [fn : {"notify"}, pc : {"count", "post"}, task : added,
             to : SUBSET (Threads \X Nat), toPost : SUBSET Threads]
  BY <1>1, <1>2 DEF Records
<1>4. PICK u \in Threads : Post(u)
  BY <1>2, <1>3 DEF NotifyPost
<1>5. sema' \in [Threads -> Nat] /\ \A w \in Workers : sema'[w] >= sema[w]
  BY <1>1, <1>4, PostSema
<1>6. ready' \subseteq added
  BY <1>1 DEF Data
<1>7. CASE f.to = {}
  <2>1. Stacks' /\ \E c : Quiet(c) /\ Tops' = [Tops EXCEPT ![t] = c]
    BY <1>1, <1>2, <1>7, CallReturns DEF NotifyPost
  <2> QED  BY <1>1, <1>2, <1>5, <1>6, <2>1, QuietPost
<1>8. CASE f.to # {}
  <2>1. PICK g : g = [f EXCEPT !.pc = "count", !.toPost = {}]
    OBVIOUS
  <2>2. /\ g \in [fn : {"notify"}, pc : {"count", "post"}, task : added,
                  to : SUBSET (Threads \X Nat), toPost : SUBSET Threads]
        /\ g.fn = "notify"
    BY <1>3, <2>1
  <2>3. g \in Records(t, added)
    BY <2>2 DEF Records
  <2>4. Quiet(Control(g))
    BY <2>2 DEF Quiet, Control, Suspending
  <2>5. Become(t, g)
    BY <1>2, <1>8, <2>1 DEF NotifyPost
  <2>6. Stacks' /\ Tops' = [Tops EXCEPT ![t] = Control(g)]
    BY <1>1, <2>3, <2>5, CallBecomes, SMTT(60)
  <2> QED  BY <1>1, <1>2, <1>5, <1>6, <2>4, <2>6, QuietPost
<1> QED  BY <1>7, <1>8

(* A callback takes its value from the await of a record, and from         *)
(* nothing else.                                                           *)
Counted(f, task) == [f EXCEPT !.left = f.left \ {task}]

(* It leaves the record what it was to everyone else. *)
LEMMA CountedRecord ==
  ASSUME NEW u \in Threads, NEW A, NEW f \in Records(u, A), NEW task
  PROVE  /\ Counted(f, task) \in Records(u, A)
         /\ Counted(f, task).fn = f.fn
         /\ Control(Counted(f, task)) = Control(f)
         /\ Paused(f) => Paused(Counted(f, task))
         /\ f.fn = "runItems" => Counted(f, task).until = f.until
<1>1. PICK g : g = Counted(f, task) OBVIOUS
<1>2. CASE f \in [fn : {"runItems"}, pc : LoopLabels, until : {"done", "values", "empty"},
                  values : SUBSET Tasks, left : SUBSET Tasks] /\ u \in Workers
  <2>1. /\ g \in [fn : {"runItems"}, pc : LoopLabels, until : {"done", "values", "empty"},
                  values : SUBSET Tasks, left : SUBSET Tasks]
        /\ g.fn = f.fn /\ g.pc = f.pc /\ g.until = f.until /\ f.fn = "runItems"
    BY <1>1, <1>2 DEF Counted
  <2> QED  BY <1>1, <1>2, <2>1 DEF Records, Control, Paused
<1>3. CASE f \in [fn : {"wait"}, values : SUBSET Tasks, left : SUBSET Tasks]
             /\ u \notin Workers
  <2>1. /\ g \in [fn : {"wait"}, values : SUBSET Tasks, left : SUBSET Tasks]
        /\ g.fn = f.fn /\ f.fn = "wait"
    BY <1>1, <1>3 DEF Counted
  <2> QED  BY <1>1, <1>3, <2>1 DEF Records, Control, Paused
<1>4. CASE g = f  BY <1>1, <1>4
<1>5. ASSUME f \in [fn : {"calls"}, task : A \cup {NoTask}, rest : Seq(CallsOf(u))]
      PROVE  g = f
  BY <1>1, <1>5 DEF Counted
<1>6. ASSUME f \in [fn : {"addTask"}, pc : {"enqueue", "spill", "wake", "post"}, task : A,
                    taskId : Workers \cup {kDefaultTaskId}, toPost : SUBSET Workers]
      PROVE  g = f
  BY <1>1, <1>6 DEF Counted
<1>7. ASSUME f \in [fn : {"await"}, pc : {"register"}, values : SUBSET Tasks]
      PROVE  g = f
  BY <1>1, <1>7 DEF Counted
<1>8. ASSUME f \in [fn : {"notify"}, pc : {"count", "post"}, task : A,
                    to : SUBSET (Threads \X Nat), toPost : SUBSET Threads]
      PROVE  g = f
  BY <1>1, <1>8 DEF Counted
<1>9. ASSUME f \in [fn : {"shutdown"}, pc : {"donate", "flag", "post", "clear", "join"},
                    toPost : SUBSET Workers]
      PROVE  g = f
  BY <1>1, <1>9 DEF Counted
<1> QED  BY <1>2, <1>3, <1>4, <1>5, <1>6, <1>7, <1>8, <1>9 DEF Records

Like(f, g) ==
  /\ g.fn = f.fn /\ Control(g) = Control(f)
  /\ Paused(f) => Paused(g)
  /\ f.fn = "runItems" => g.until = f.until

CountedStack(u, k, task) == [stack EXCEPT ![u][k].left = stack[u][k].left \ {task}]

(* The stacks with one value counted, at any depth of any stack. *)
LEMMA CountedStacks ==
  ASSUME Stacks, NEW u \in Threads, NEW k \in Nat, NEW task, NEW c,
         c = CountedStack(u, k, task)
  PROVE  /\ DOMAIN c = Threads
         /\ \A v \in Threads :
              /\ c[v] \in Seq(Records(v, added)) /\ Len(c[v]) = Len(stack[v])
              /\ \A j \in 1..Len(stack[v]) : Like(stack[v][j], c[v][j])
<1>1. PICK s : s = stack[u] /\ s \in Seq(Records(u, added))
  BY DEF Stacks
<1>2. PICK r : r = [s EXCEPT ![k] = Counted(s[k], task)]
  OBVIOUS
<1>3. c = [stack EXCEPT ![u] = r]
  BY <1>1, <1>2 DEF CountedStack, Counted, Stacks
<1>4. \A v \in Threads : \A j \in 1..Len(stack[v]) : Like(stack[v][j], stack[v][j])
  BY DEF Like
<1>5. /\ r \in Seq(Records(u, added)) /\ Len(r) = Len(s)
      /\ \A j \in 1..Len(s) : Like(s[j], r[j])
  <2>1. CASE k \in 1..Len(s)
    <3>1. PICK f : f = s[k] /\ f \in Records(u, added)
      BY <1>1, <2>1, SMTT(60)
    <3>2. PICK g : g = Counted(f, task) OBVIOUS
    <3>3. g \in Records(u, added) /\ Like(f, g)
      BY <3>1, <3>2, CountedRecord, SMTT(60) DEF Like
    <3>4. r = [s EXCEPT ![k] = g]
      BY <1>2, <3>1, <3>2
    <3>5. /\ r \in Seq(Records(u, added)) /\ Len(r) = Len(s)
          /\ \A j \in 1..Len(s) : r[j] = IF j = k THEN g ELSE s[j]
      BY <1>1, <2>1, <3>3, <3>4, Updated, SMTT(60)
    <3> QED  BY <1>1, <1>4, <3>1, <3>3, <3>5
  <2>2. CASE k \notin 1..Len(s)
    <3>1. r = s
      BY <1>1, <1>2, <2>2, SMTT(60)
    <3> QED  BY <1>1, <1>4, <3>1
  <2> QED  BY <2>1, <2>2
<1>6. DOMAIN c = Threads /\ c[u] = r /\ \A v \in Threads \ {u} : c[v] = stack[v]
  BY <1>3 DEF Stacks
<1>7. ASSUME NEW v \in Threads
      PROVE  /\ c[v] \in Seq(Records(v, added)) /\ Len(c[v]) = Len(stack[v])
             /\ \A j \in 1..Len(stack[v]) : Like(stack[v][j], c[v][j])
  <2>1. CASE v = u  BY <1>1, <1>5, <1>6, <2>1
  <2>2. CASE v # u  BY <1>4, <1>6, <2>2 DEF Stacks
  <2> QED  BY <2>1, <2>2
<1> QED  BY <1>6, <1>7

(* A callback counts down the await of some thread. *)
LEMMA NotifyCountInv ==
  ASSUME PoolInv, NEW t \in Threads, NotifyCount(t), UNCHANGED multicastFactor
  PROVE  PoolInv'
<1>1. /\ Stacks /\ Data /\ ~Idle(t) /\ Top(t).fn = "notify"
      /\ added' = added /\ doneFlag' = doneFlag
      /\ UNCHANGED <<lists, locals, signals, ready, added, multicastFactor>>
  BY DEF PoolInv, NotifyCount, At, signals
<1>2. PICK f : /\ f = Top(t) /\ f \in Records(t, added) /\ Tops[t].fn = "notify"
               /\ stack[t] # <<>> /\ f = stack[t][Len(stack[t])]
  BY <1>1, TopRecord, InOther
<1>3. f \in [fn : {"notify"}, pc : {"count", "post"}, task : added,
             to : SUBSET (Threads \X Nat), toPost : SUBSET Threads]
  BY <1>1, <1>2 DEF Records
<1>4. PICK await \in f.to : CountDown(t, f, await)
  BY <1>2 DEF NotifyCount
<1>5. PICK u, k : u = await[1] /\ k = await[2] /\ u \in Threads /\ k \in Nat
  BY <1>3
<1>6. PICK c : c = [stack EXCEPT ![u][k].left = stack[u][k].left \ {f.task}]
  OBVIOUS
<1>7. /\ DOMAIN c = Threads
      /\ \A v \in Threads :
           /\ c[v] \in Seq(Records(v, added)) /\ Len(c[v]) = Len(stack[v])
           /\ \A j \in 1..Len(stack[v]) : Like(stack[v][j], c[v][j])
  <2>1. c = CountedStack(u, k, f.task)
    BY <1>6 DEF CountedStack
  <2> QED  BY <1>1, <1>5, <2>1, CountedStacks, SMTT(60)
<1>8. PICK left : left = stack[u][k].left \ {f.task}
  OBVIOUS
<1>9. PICK rest \in SUBSET (Threads \X Nat) : rest = f.to \ {await}
  BY <1>3
<1>10. PICK targets \in SUBSET Threads : targets = IF left = {} THEN {u} ELSE {}
  BY <1>5
<1>11. PICK label \in {"post", "count"} : label = IF left = {} THEN "post" ELSE "count"
  OBVIOUS
<1>12. PICK next : next = [f EXCEPT !.to = rest, !.toPost = targets, !.pc = label]
  OBVIOUS
<1>13. stack' = [c EXCEPT ![t] =
             IF left # {} /\ rest = {} THEN Below(@) ELSE Append(Below(@), next)]
  BY <1>4, <1>5, <1>6, <1>8, <1>9, <1>10, <1>11, <1>12 DEF CountDown
<1>14. /\ next \in [fn : {"notify"}, pc : {"count", "post"}, task : added,
                   to : SUBSET (Threads \X Nat), toPost : SUBSET Threads]
      /\ next.fn = "notify"
  BY <1>3, <1>12
<1>15. next \in Records(t, added) /\ Quiet(Control(next))
  BY <1>14 DEF Records, Quiet, Control, Suspending
<1>16. PICK s : s = c[t] /\ s \in Seq(Records(t, added)) /\ s # <<>>
  BY <1>2, <1>7, EmptyQueue, SMTT(60)
<1>17. PICK n \in Nat : n = Len(s) /\ n > 0 /\ n = Len(stack[t])
  BY <1>7, <1>16, BelowOf
<1>18. PICK r : r = IF left # {} /\ rest = {} THEN Below(s) ELSE Append(Below(s), next)
  OBVIOUS
<1>19. /\ r \in Seq(Records(t, added)) /\ \A j \in 1..(n - 1) : r[j] = s[j]
       /\ \/ Len(r) = n - 1
          \/ Len(r) = n /\ r[n] = next
  <2>1. CASE left # {} /\ rest = {}  BY <1>16, <1>17, <1>18, <2>1, BelowOf
  <2>2. CASE ~(left # {} /\ rest = {})
    <3>1. r = Append(Below(s), next)
      BY <1>18, <2>2
    <3>2. PICK R : R = Records(t, added) OBVIOUS
    <3>3. r \in Seq(R) /\ Len(r) = Len(s) /\ r[Len(s)] = next
            /\ \A j \in 1..(Len(s) - 1) : r[j] = s[j]
      BY <1>15, <1>16, <3>1, <3>2, Replaced, SMTT(60)
    <3> QED  BY <1>17, <3>2, <3>3
  <2> QED  BY <2>1, <2>2
<1>20. \A j \in 1..(n - 1) : Paused(r[j]) /\ Like(stack[t][j], r[j])
  <2>1. \A j \in 1..(n - 1) : Like(stack[t][j], s[j]) /\ Paused(stack[t][j])
    BY <1>1, <1>7, <1>16, <1>17, SMTT(60) DEF Stacks
  <2> QED  BY <1>19, <2>1 DEF Like
<1>21. /\ DOMAIN stack' = Threads /\ stack'[t] = r
       /\ \A v \in Threads \ {t} : stack'[v] = c[v]
  BY <1>13, <1>7, <1>16, <1>18
<1>22. Stacks'
  <2>1. ASSUME NEW v \in Threads
        PROVE  /\ stack'[v] \in Seq(Records(v, added'))
               /\ \A j \in 1..(Len(stack'[v]) - 1) : Paused(stack'[v][j])
    <3>1. CASE v = t
      <4>1. \A j \in 1..(Len(r) - 1) : j \in 1..(n - 1)
        BY <1>19, SMTT(60)
      <4> QED  BY <1>1, <1>19, <1>20, <1>21, <3>1, <4>1
    <3>2. CASE v # t
      <4>1. stack'[v] = c[v] /\ Len(c[v]) = Len(stack[v]) /\ Len(stack[v]) \in Nat
        BY <1>1, <1>7, <1>21, <3>2, SMTT(60) DEF Stacks
      <4>2. \A j \in 1..(Len(stack[v]) - 1) : Paused(c[v][j])
        BY <1>1, <1>7, <4>1, SMTT(60) DEF Stacks, Like
      <4> QED  BY <1>1, <1>7, <4>1, <4>2
    <3> QED  BY <3>1, <3>2
  <2>2. ASSUME NEW w \in PoolThreads, ~doneFlag
        PROVE  stack'[w] # <<>> /\ stack'[w][1].fn = "runItems" /\ stack'[w][1].until = "done"
    <3>0. w \in Threads
      BY PoolAssumption, SMTT(60) DEF PoolThreads, Threads, Workers, PoolAssumption
    <3>1. stack[w] # <<>> /\ stack[w][1].fn = "runItems" /\ stack[w][1].until = "done"
      BY <1>1, <2>2 DEF Stacks
    <3>2. CASE w = t
      <4>1. n # 1
        BY <1>1, <1>2, <1>17, <3>1, <3>2
      <4>2. n \in Nat /\ n > 0
        BY <1>17
      <4>3. n - 1 # 0 /\ n # 0 /\ 1 \in 1..(n - 1)
        BY <4>1, <4>2, SMTT(60)
      <4>4. Len(r) # 0
        BY <1>19, <4>3
      <4> QED  BY <1>19, <1>20, <1>21, <3>1, <3>2, <4>3, <4>4 DEF Like
    <3>3. CASE w # t
      <4>1. stack[w] \in Seq(Records(w, added))
        BY <1>1, <3>0 DEF Stacks
      <4>2. 1 \in 1..Len(stack[w])
        BY <3>1, <4>1, BelowOf, SMTT(60)
      <4>3. Like(stack[w][1], c[w][1]) /\ c[w] # <<>> /\ stack'[w] = c[w]
        BY <1>7, <1>21, <3>0, <3>3, <4>1, <4>2, SMTT(60)
      <4> QED  BY <3>1, <4>3 DEF Like
    <3> QED  BY <3>2, <3>3
  <2> QED  BY <1>1, <1>21, <2>1, <2>2 DEF Stacks
<1>23. Quiet(Tops'[t])
  <2>1. Tops'[t] = IF r = <<>> THEN Returned ELSE Control(r[Len(r)])
    BY <1>21 DEF Tops
  <2>2. r # <<>> => Len(r) # 0
    BY <1>19, EmptyQueue
  <2>3. CASE r = <<>>  BY <2>1, <2>3, ReturnedIsQuiet
  <2>4. CASE r # <<>> /\ Len(r) = n - 1
    <3>1. Paused(r[Len(r)])
      BY <1>17, <1>20, <2>2, <2>4, SMTT(60)
    <3> QED  BY <2>1, <2>4, <3>1, PausedIsQuiet
  <2>5. CASE r # <<>> /\ Len(r) = n /\ r[n] = next
    BY <1>15, <2>1, <2>5
  <2> QED  BY <1>19, <2>3, <2>4, <2>5
<1>24. Tops' = [Tops EXCEPT ![t] = Tops'[t]]
  <2>1. ASSUME NEW v \in Threads, v # t
        PROVE  Tops'[v] = Tops[v]
    <3>1. /\ stack'[v] = c[v] /\ Len(c[v]) = Len(stack[v]) /\ Len(stack[v]) \in Nat
          /\ stack[v] = <<>> <=> c[v] = <<>>
      BY <1>1, <1>7, <1>21, <2>1, EmptyQueue, SMTT(60) DEF Stacks
    <3>2. stack[v] # <<>> => Control(c[v][Len(c[v])]) = Control(stack[v][Len(stack[v])])
      <4>1. stack[v] # <<>> => Len(stack[v]) \in 1..Len(stack[v])
        BY <1>1, BelowOf, SMTT(60) DEF Stacks
      <4> QED  BY <1>7, <3>1, <4>1 DEF Like
    <3> QED  BY <3>1, <3>2 DEF Tops
  <2> QED  BY <2>1 DEF Tops
<1> QED  BY <1>1, <1>2, <1>22, <1>23, <1>24, QuietMove

-----------------------------------------------------------------------------
(***************************************************************************)
(* The steps of shutdown                                                   *)
(***************************************************************************)
(* The record of the thread that shuts the pool down. *)
LEMMA InShutdown ==
  ASSUME Stacks, NEW t \in Threads, NEW label, At(t, "shutdown", label)
  PROVE  /\ ~Idle(t) /\ Top(t).fn = "shutdown" /\ MayShutdown(t)
         /\ Top(t) \in [fn : {"shutdown"}, pc : {"donate", "flag", "post", "clear", "join"},
                        toPost : SUBSET Workers]
         /\ Tops[t].fn = "shutdown" /\ Tops[t].pc = label
<1>1. ~Idle(t) /\ Top(t).fn = "shutdown" /\ Top(t).pc = label
  BY DEF At
<1>2. PICK f : f = Top(t) /\ f \in Records(t, added) /\ Tops[t] = Control(f)
  BY <1>1, TopRecord
<1>3. /\ MayShutdown(t)
      /\ f \in [fn : {"shutdown"}, pc : {"donate", "flag", "post", "clear", "join"},
                toPost : SUBSET Workers]
  BY <1>1, <1>2 DEF Records
<1>4. Control(f).fn = "shutdown" /\ Control(f).pc = label
  BY <1>1, <1>2 DEF Control
<1> QED  BY <1>1, <1>2, <1>3, <1>4

(* Once doneFlag is set nobody has to be woken by addTask. *)
LEMMA DoneWakeups ==
  ASSUME doneFlag'
  PROVE  Wakeups'
  BY DEF Wakeups

(* shutdown is called. *)
LEMMA CallShutdownInv ==
  ASSUME PoolInv, NEW t \in Threads, CallShutdown(t), UNCHANGED multicastFactor
  PROVE  PoolInv'
<1>1. /\ Stacks /\ NextCall(t, "shutdown") /\ added \subseteq added' /\ doneFlag' = doneFlag
  BY DEF PoolInv, CallShutdown, signals
<1>2. Call(t) \in CallsOf(t) /\ Call(t).op = "shutdown" /\ Tops[t].fn = "calls"
  BY <1>1, InCalls
<1>3. MayShutdown(t)
  BY <1>2 DEF CallsOf, TaskCalls
<1>4. Shutdown \in Records(t, added') /\ Quiet(Control(Shutdown))
  BY <1>3 DEF Shutdown, Records, Quiet, Control, Suspending
<1>5. Stacks' /\ Tops' = [Tops EXCEPT ![t] = Control(Shutdown)]
  BY <1>1, <1>4, CallEnters DEF CallShutdown
<1> QED  BY <1>2, <1>4, <1>5, QuietMove DEF CallShutdown

(* shutdown runs what is left, if main donates. *)
LEMMA ShutdownDonateInv ==
  ASSUME PoolInv, NEW t \in Threads, ShutdownDonate(t), UNCHANGED multicastFactor
  PROVE  PoolInv'
<1>1. /\ Stacks /\ At(t, "shutdown", "donate") /\ added' = added /\ doneFlag' = doneFlag
  BY DEF PoolInv, ShutdownDonate, signals
<1>2. PICK f : /\ f = Top(t) /\ ~Idle(t) /\ f.fn = "shutdown" /\ MayShutdown(t)
               /\ f \in [fn : {"shutdown"}, pc : {"donate", "flag", "post", "clear", "join"},
                         toPost : SUBSET Workers]
               /\ Tops[t].fn = "shutdown"
  BY <1>1, InShutdown
<1>3. PICK g : g = [f EXCEPT !.pc = "flag"] OBVIOUS
<1>4. /\ g \in [fn : {"shutdown"}, pc : {"donate", "flag", "post", "clear", "join"},
                toPost : SUBSET Workers]
      /\ g.fn = "shutdown" /\ g.pc = "flag"
  BY <1>2, <1>3
<1>5. g \in Records(t, added) /\ Paused(g)
  BY <1>2, <1>4 DEF Records, Paused
<1>6. CASE MainWillDonate
  <2>1. t \in Workers
    BY <1>2, <1>6, PoolAssumption, SMTT(60) DEF MayShutdown, Workers, PoolAssumption
  <2>2. PICK h : h = Loop("empty", {}) OBVIOUS
  <2>3. h \in Records(t, added') /\ Quiet(Control(h))
    BY <2>1, <2>2 DEF Loop, Records, LoopLabels, Quiet, Control, Suspending
  <2>4. /\ stack[t] # <<>> /\ stack[t][Len(stack[t])].fn = "shutdown"
    BY <1>1, <1>2, TopRecord
  <2>5. stack' = [stack EXCEPT ![t] = Append(Append(Below(@), g), h)]
    BY <1>1, <1>2, <1>3, <1>6, <2>2 DEF ShutdownDonate, Top, Stacks
  <2>6. Stacks' /\ Tops' = [Tops EXCEPT ![t] = Control(h)]
    BY <1>1, <1>5, <2>3, <2>4, <2>5, StackCall
  <2> QED  BY <1>2, <2>3, <2>6, QuietMove DEF ShutdownDonate
<1>7. CASE ~MainWillDonate
  <2>1. Become(t, g)
    BY <1>2, <1>3, <1>7 DEF ShutdownDonate, Goto
  <2>2. Stacks' /\ Tops' = [Tops EXCEPT ![t] = Control(g)]
    BY <1>1, <1>2, <1>5, <2>1, CallBecomes
  <2>3. Quiet(Control(g))
    BY <1>5, PausedIsQuiet
  <2> QED  BY <1>2, <2>2, <2>3, QuietMove DEF ShutdownDonate
<1> QED  BY <1>6, <1>7

(* shutdown sets doneFlag. *)
LEMMA ShutdownFlagInv ==
  ASSUME PoolInv, NEW t \in Threads, ShutdownFlag(t), UNCHANGED multicastFactor
  PROVE  PoolInv'
<1>1. Stacks /\ Data /\ At(t, "shutdown", "flag") /\ added' = added /\ doneFlag' = TRUE
  BY DEF PoolInv, ShutdownFlag
<1>2. PICK f : /\ f = Top(t) /\ ~Idle(t) /\ f.fn = "shutdown" /\ MayShutdown(t)
               /\ f \in [fn : {"shutdown"}, pc : {"donate", "flag", "post", "clear", "join"},
                         toPost : SUBSET Workers]
  BY <1>1, InShutdown
<1>3. PICK g : g = [f EXCEPT !.pc = "post"] OBVIOUS
<1>4. g \in Records(t, added)
  BY <1>2, <1>3 DEF Records
<1>5. Become(t, g)
  BY <1>2, <1>3 DEF ShutdownFlag, Goto
<1>6. Stacks'
  BY <1>1, <1>2, <1>4, <1>5, CallBecomes
<1>7. Data'
  BY <1>1 DEF Data, ShutdownFlag, lists, locals, workerGroup
<1> QED  BY <1>1, <1>6, <1>7, DoneWakeups DEF PoolInv

(* shutdown wakes every worker and clears the bits. *)
LEMMA ShutdownPostInv ==
  ASSUME PoolInv, NEW t \in Threads, ShutdownPost(t) \/ ShutdownClear(t),
         UNCHANGED multicastFactor
  PROVE  PoolInv'
<1>1. PICK label \in {"post", "clear"} :
        /\ Stacks /\ Data /\ Wakeups /\ At(t, "shutdown", label)
        /\ added' = added /\ doneFlag' = doneFlag
  BY DEF PoolInv, ShutdownPost, ShutdownClear
<1>2. PICK f : /\ f = Top(t) /\ ~Idle(t) /\ f.fn = "shutdown" /\ MayShutdown(t)
               /\ f \in [fn : {"shutdown"}, pc : {"donate", "flag", "post", "clear", "join"},
                         toPost : SUBSET Workers]
               /\ Tops[t].fn = "shutdown" /\ Tops[t].pc = label
  BY <1>1, InShutdown
<1>3. doneFlag
  BY <1>1, <1>2 DEF Wakeups
<1>4. CASE ShutdownPost(t)
  <2>1. PICK w \in f.toPost :
          /\ Post(w)
          /\ Become(t, [f EXCEPT !.toPost = @ \ {w},
                                 !.pc = IF f.toPost = {w} THEN "clear" ELSE "post"])
    BY <1>2, <1>4 DEF ShutdownPost
  <2>2. PICK others \in SUBSET Workers, next \in {"clear", "post"} :
          /\ others = f.toPost \ {w}
          /\ next = IF f.toPost = {w} THEN "clear" ELSE "post"
    BY <1>2
  <2>3. PICK g : g = [f EXCEPT !.toPost = others, !.pc = next] OBVIOUS
  <2>4. g \in Records(t, added)
    BY <1>2, <2>2, <2>3 DEF Records
  <2>5. Become(t, g)
    BY <1>2, <2>1, <2>2, <2>3
  <2>6. Stacks'
    BY <1>1, <1>2, <2>4, <2>5, CallBecomes
  <2>7. w \in Threads
    BY <1>2, PoolAssumption, SMTT(60) DEF Workers, Threads, PoolAssumption
  <2>8. sema' \in [Threads -> Nat]
    BY <1>1, <2>1, <2>7, PostSema
  <2>9. Data'
    BY <1>1, <1>4, <2>8 DEF Data, ShutdownPost, lists, locals, workerGroup
  <2> QED  BY <1>1, <1>3, <2>6, <2>9, DoneWakeups DEF PoolInv
<1>5. CASE ShutdownClear(t)
  <2>1. PICK g : g = [f EXCEPT !.pc = "join"] OBVIOUS
  <2>2. g \in Records(t, added)
    BY <1>2, <2>1 DEF Records
  <2>3. Become(t, g)
    BY <1>2, <1>5, <2>1 DEF ShutdownClear, Goto
  <2>4. Stacks'
    BY <1>1, <1>2, <2>2, <2>3, CallBecomes
  <2>5. Data'
    BY <1>1, <1>5 DEF Data, ShutdownClear, lists, locals, workerGroup
  <2> QED  BY <1>1, <1>3, <2>4, <2>5, DoneWakeups DEF PoolInv
<1> QED  BY <1>4, <1>5

(* shutdown returns when the workers have. *)
LEMMA ShutdownJoinInv ==
  ASSUME PoolInv, NEW t \in Threads, ShutdownJoin(t), UNCHANGED multicastFactor
  PROVE  PoolInv'
<1>1. /\ Stacks /\ At(t, "shutdown", "join") /\ Pop(t)
      /\ added' = added /\ doneFlag' = doneFlag
  BY DEF PoolInv, ShutdownJoin, signals
<1>2. ~Idle(t) /\ Top(t).fn # "runItems" /\ Tops[t].fn = "shutdown"
  BY <1>1, InShutdown
<1>3. Stacks' /\ \E c : Quiet(c) /\ Tops' = [Tops EXCEPT ![t] = c]
  BY <1>1, <1>2, CallReturns
<1> QED  BY <1>2, <1>3, QuietMove DEF ShutdownJoin

-----------------------------------------------------------------------------
(***************************************************************************)
(* The theorems                                                            *)
(***************************************************************************)
(* The pool starts with its threads in their loops and nothing to do. *)
LEMMA InitInv == Init => PoolInv
<1> SUFFICES ASSUME Init PROVE PoolInv
  OBVIOUS
<1> USE DEF Init
<1>1. multicastFactor \in Nat
  BY MulticastFactorType
<1>2. Data
  <2>1. PICK none \in Seq(added) : none = <<>> /\ Len(none) = 0
    BY EmptyQueue
  <2>2. /\ overflowTaskList \in Seq(added) /\ affinityTaskList \in [Workers -> Seq(added)]
        /\ localSpillQueue \in [Workers -> Seq(added)]
        /\ localTaskList \in [Workers -> Seq(added)]
    BY <2>1
  <2>3. \A w \in Workers : Len(affinityTaskList[w]) = 0 /\ Len(localTaskList[w]) = 0
    OBVIOUS
  <2>4. AffinityCapacity \in Nat
    BY PoolAssumption DEF PoolAssumption
  <2>5. \A w \in Workers : /\ Len(affinityTaskList[w]) <= AffinityCapacity
                           /\ nextLocalTaskListIndex[w] <= Len(localTaskList[w])
    BY <2>3, <2>4, SMTT(60)
  <2>6. /\ added \subseteq Tasks /\ ready \subseteq added /\ taskList \subseteq added
        /\ nextLocalTaskListIndex \in [Workers -> Nat] /\ sema \in [Threads -> Nat]
        /\ suspendedThreads \subseteq {workerGroup(w) : w \in Workers}
        /\ doneFlag \in BOOLEAN
    OBVIOUS
  <2> QED  BY <1>1, <2>2, <2>5, <2>6 DEF Data
<1>3. ASSUME NEW t \in Threads
      PROVE  \E f \in Records(t, added) :
               /\ stack[t] = <<f>> /\ Quiet(Control(f))
               /\ t \in PoolThreads => f.fn = "runItems" /\ f.until = "done"
  <2>1. CASE t \in PoolThreads
    <3>1. PICK f : f = Loop("done", {}) OBVIOUS
    <3>2. t \in Workers
      BY <2>1 DEF PoolThreads
    <3>3. f \in Records(t, added) /\ Quiet(Control(f)) /\ f.fn = "runItems" /\ f.until = "done"
      BY <3>1, <3>2 DEF Loop, Records, LoopLabels, Quiet, Control, Suspending
    <3> QED  BY <2>1, <3>1, <3>3
  <2>2. CASE t \notin PoolThreads
    <3>1. PICK f : f = Calls(NoTask, Program[t]) OBVIOUS
    <3>2. Program[t] \in Seq(CallsOf(t))
      BY <2>2, ProgramAssumption DEF ProgramAssumption
    <3>3. f \in Records(t, added) /\ f.fn = "calls"
      BY <3>1, <3>2 DEF Calls, Records
    <3>4. Quiet(Control(f))
      BY <3>3, PausedIsQuiet DEF Paused
    <3> QED  BY <2>2, <3>1, <3>3, <3>4
  <2> QED  BY <2>1, <2>2
<1>4. ASSUME NEW t \in Threads
      PROVE  /\ stack[t] \in Seq(Records(t, added)) /\ Len(stack[t]) = 1
             /\ Quiet(Tops[t]) /\ stack[t] # <<>>
             /\ t \in PoolThreads => stack[t][1].fn = "runItems" /\ stack[t][1].until = "done"
  <2>1. PICK f \in Records(t, added) :
               /\ stack[t] = <<f>> /\ Quiet(Control(f))
               /\ t \in PoolThreads => f.fn = "runItems" /\ f.until = "done"
    BY <1>3
  <2>2. <<f>> \in Seq(Records(t, added)) /\ Len(<<f>>) = 1 /\ <<f>>[1] = f /\ <<f>> # <<>>
    BY SMTT(60)
  <2>3. Tops[t] = Control(f)
    BY <2>1, <2>2 DEF Tops
  <2> QED  BY <2>1, <2>2, <2>3
<1>5. Stacks
  <2>1. PoolThreads \subseteq Threads
    BY PoolAssumption, SMTT(60) DEF PoolThreads, Threads, Workers, PoolAssumption
  <2>2. DOMAIN stack = Threads
    OBVIOUS
  <2> QED  BY <1>4, <2>1, <2>2, SMTT(60) DEF Stacks
<1>6. Wakeups
  <2>1. Workers \subseteq Threads
    BY PoolAssumption, SMTT(60) DEF Workers, Threads, PoolAssumption
  <2>2. BitOrToken
    BY <1>4, <2>1 DEF BitOrToken, Quiet
  <2>3. AffinityWoken /\ GlobalWoken
    BY DEF AffinityWoken, GlobalWoken
  <2> QED  BY <1>4, <2>2, <2>3 DEF Wakeups, Quiet
<1> QED  BY <1>2, <1>5, <1>6 DEF PoolInv

(* Every step keeps the invariant. *)
LEMMA NextInv == PoolInv /\ [Next]_<<vars, multicastFactor>> => PoolInv'
<1>1. ASSUME PoolInv, NEW t \in Threads, UNCHANGED multicastFactor, RunItemsStep(t)
      PROVE  PoolInv'
  BY <1>1, KeepRunningInv, RunLocalInv, LocalDoneInv, RunAffinityInv, NoAffinityInv,
     RunGlobalInv, NoGlobalInv, SpinInv, DrainSpillInv, PumpOverflowInv, MarkSuspendedInv,
     PreSuspendStopInv, WakeUpInv DEF RunItemsStep
<1>2. ASSUME PoolInv, NEW t \in Threads, UNCHANGED multicastFactor, AddTaskStep(t)
      PROVE  PoolInv'
  BY <1>2, AddAffinityTaskInv, AddSpilledTaskInv, AddGlobalTaskInv, AddOverflowTaskInv,
     TakeSuspendedThreadInv, TakeAnySuspendedThreadInv, PostWorkerInv DEF AddTaskStep
<1>3. ASSUME PoolInv, NEW t \in Threads, UNCHANGED multicastFactor, CallStep(t)
      PROVE  PoolInv'
  BY <1>3, CallAddTaskInv, AddLocalTaskInv, CallAwaitInv, AwaitRegisterInv,
     ForeignAwaitReturnsInv, FinishTaskInv, FinishProgramInv, NotifyCountInv, NotifyPostInv DEF CallStep
<1>4. ASSUME PoolInv, NEW t \in Threads, UNCHANGED multicastFactor, ShutdownStep(t)
      PROVE  PoolInv'
  BY <1>4, CallShutdownInv, ShutdownDonateInv, ShutdownFlagInv, ShutdownPostInv,
     ShutdownJoinInv DEF ShutdownStep
<1>5. ASSUME PoolInv, UNCHANGED <<vars, multicastFactor>>
      PROVE  PoolInv'
  <2> USE <1>5 DEF vars, lists, locals, signals
  <2>1. Data' /\ Stacks'
    BY DEF PoolInv, Data, Stacks, workerGroup
  <2>2. Tops' = Tops /\ Woken' = Woken
    BY DEF Tops, Woken
  <2>3. WakingIds' = WakingIds
    BY <2>2 DEF WakingIds
  <2>4. Wakeups'
    BY <2>2, <2>3 DEF PoolInv, Wakeups, BitOrToken, AffinityWoken, GlobalWoken, workerGroup
  <2> QED  BY <2>1, <2>4 DEF PoolInv
<1> QED  BY <1>1, <1>2, <1>3, <1>4, <1>5 DEF Next, ThreadStep

(* The invariant holds in every state the pool reaches. *)
THEOREM PoolInvariant == Spec => []PoolInv
  BY InitInv, NextInv, PTL DEF Spec

(* What is on top of a stack is what the other threads go by. *)
LEMMA AtTop ==
  ASSUME Stacks, NEW t \in Threads, NEW fn \in {"runItems", "addTask"}, NEW label
  PROVE  /\ At(t, fn, label) <=> Tops[t].fn = fn /\ Tops[t].pc = label
         /\ At(t, "addTask", label) =>
              Tops[t].taskId = Top(t).taskId /\ Tops[t].toPost = Top(t).toPost
<1>1. CASE Idle(t)
  BY <1>1 DEF Idle, At, Tops, Returned
<1>2. CASE ~Idle(t)
  <2>1. PICK f : f = Top(t) /\ Tops[t] = Control(f)
    BY <1>2, TopRecord
  <2>2. /\ Control(f).fn = f.fn /\ (f.fn = fn => Control(f).pc = f.pc)
        /\ f.fn = "addTask" => Control(f).taskId = f.taskId /\ Control(f).toPost = f.toPost
    BY DEF Control
  <2> QED  BY <1>2, <2>1, <2>2 DEF At
<1> QED  BY <1>1, <1>2

(* A pool thread that has not looked for the last time, or that is woken,  *)
(* will look.                                                              *)
LEMMA PoolThreadLooks ==
  ASSUME PoolInv, ~doneFlag, NEW w \in PoolThreads, GlobalSeen(Tops[w]) => w \in Woken
  PROVE  WillLook(w)
<1>1. w \in Threads /\ w \in Workers
  BY PoolAssumption, SMTT(60) DEF PoolThreads, Threads, Workers, PoolAssumption
<1>2. \E k \in 1..Len(stack[w]) : stack[w][k].fn = "runItems"
  <2>1. /\ stack[w] \in Seq(Records(w, added)) /\ stack[w] # <<>>
        /\ stack[w][1].fn = "runItems"
    BY <1>1 DEF PoolInv, Stacks
  <2>2. 1 \in 1..Len(stack[w])
    BY <2>1, BelowOf, SMTT(60)
  <2> QED  BY <2>1, <2>2
<1>3. CASE ~GlobalSeen(Tops[w])
  <2>1. ~At(w, "runItems", "preStop") /\ ~At(w, "runItems", "sleep")
    BY <1>1, <1>3, AtTop DEF PoolInv, GlobalSeen
  <2> QED  BY <1>2, <2>1 DEF WillLook
<1>4. CASE w \in Woken
  <2>1. CASE sema[w] > 0  BY <1>2, <2>1 DEF WillLook
  <2>2. ASSUME NEW t \in Threads, Tops[t].fn = "addTask", Tops[t].pc = "post",
               w \in Tops[t].toPost
        PROVE  WillLook(w)
    <3>1. At(t, "addTask", "post") /\ w \in Top(t).toPost
      BY <2>2, AtTop DEF PoolInv
    <3> QED  BY <1>2, <3>1 DEF WillLook
  <2> QED  BY <1>4, <2>1, <2>2 DEF Woken
<1> QED  BY <1>3, <1>4

(* Ids for which nobody is about to wake a worker. *)
LEMMA NobodyWaking ==
  ASSUME PoolInv, NEW id \in Workers \cup {kDefaultTaskId}, \A t \in Threads : ~Waking(t, id)
  PROVE  id \notin WakingIds
<1> SUFFICES ASSUME NEW t \in Threads, Tops[t].fn = "addTask", Tops[t].pc = "wake",
                    Tops[t].taskId = id
             PROVE  FALSE
  BY DEF WakingIds
<1>1. At(t, "addTask", "wake") /\ Top(t).taskId = id
  BY AtTop DEF PoolInv
<1> QED  BY <1>1 DEF Waking

(* "T0 is not going to post semaphore, but the task is already enqueued.   *)
(* Run it now": for every number of workers, with a bit each or with       *)
(* shared bits, and whether or not main donates, no pool thread sleeps     *)
(* without a token while its affinity list holds a task.                   *)
THEOREM AffinityListAlwaysSeen == Spec => []AffinityListSeen
<1>1. ASSUME PoolInv
      PROVE  AffinityListSeen
  <2> SUFFICES ASSUME NEW w \in PoolThreads, affinityTaskList[w] # <<>>, ~doneFlag,
                      \A t \in Threads : ~Waking(t, w)
               PROVE  WillLook(w)
    BY DEF AffinityListSeen
  <2>1. w \in Workers
    BY DEF PoolThreads
  <2>2. w \notin WakingIds
    BY <1>1, <2>1, NobodyWaking
  <2>3. GlobalSeen(Tops[w]) => w \in Woken
    BY <1>1, <2>1, <2>2 DEF PoolInv, Wakeups, AffinityWoken, AffinitySeen, GlobalSeen
  <2> QED  BY <1>1, <2>3, PoolThreadLooks
<1> QED  BY <1>1, PoolInvariant, PTL

(* "... to make sure there's at least one worker still awake to pick up    *)
(* work": when every worker is a pool thread, no task of the global list   *)
(* and no task of an affinity list is left to workers that all sleep, for  *)
(* every number of workers and foreign threads and every program.          *)
THEOREM ListsAlwaysSeen ==
  ASSUME MainWillDonate = FALSE
  PROVE  Spec => []ListsSeen
<1>1. ASSUME PoolInv
      PROVE  GlobalTaskSeen
  <2> SUFFICES ASSUME taskList # {}, ~doneFlag,
                      \A t \in Threads : ~Waking(t, kDefaultTaskId)
               PROVE  \E w \in Workers : WillLook(w)
    BY DEF GlobalTaskSeen
  <2>1. kDefaultTaskId \notin WakingIds
    BY <1>1, NobodyWaking
  <2>2. PICK w \in Workers : ~GlobalSeen(Tops[w]) \/ w \in Woken
    BY <1>1, <2>1 DEF PoolInv, Wakeups, GlobalWoken
  <2>3. w \in PoolThreads
    BY DEF PoolThreads
  <2> QED  BY <1>1, <2>2, <2>3, PoolThreadLooks
<1> QED  BY <1>1, PoolInvariant, AffinityListAlwaysSeen, PTL DEF ListsSeen

(* Lists hold tasks, counters are in range and records are well-formed.    *)
THEOREM TypeCorrect == Spec => []TypeOK
<1>1. ASSUME PoolInv
      PROVE  TypeOK
  <2>1. taskList \subseteq Tasks /\ overflowTaskList \in Seq(Tasks)
    BY <1>1, SeqGrows DEF PoolInv, Data
  <2>2. ASSUME NEW w \in Workers
        PROVE  /\ affinityTaskList[w] \in Seq(Tasks)
               /\ Len(affinityTaskList[w]) <= AffinityCapacity
               /\ localSpillQueue[w] \in Seq(Tasks)
               /\ localTaskList[w] \in Seq(Tasks)
    BY <1>1, SeqGrows DEF PoolInv, Data
  <2>3. ASSUME NEW w \in Workers
        PROVE  nextLocalTaskListIndex[w] \in 0..Len(localTaskList[w])
    BY <1>1, SMTT(60) DEF PoolInv, Data
  <2>4. ASSUME NEW t \in Threads, NEW k \in 1..Len(stack[t])
        PROVE  stack[t][k].fn \in {"calls", "runItems", "wait", "addTask", "await", "notify",
                                   "shutdown"}
    <3>1. PICK f : f = stack[t][k] /\ f \in Records(t, added)
      BY <1>1, SMTT(60) DEF PoolInv, Stacks
    <3>2. f.fn \in {"calls", "runItems", "wait", "addTask", "await", "notify", "shutdown"}
      BY <3>1 DEF Records
    <3> QED  BY <3>1, <3>2
  <2> QED  BY <1>1, <2>1, <2>2, <2>3, <2>4 DEF TypeOK, PoolInv, Data
<1> QED  BY <1>1, PoolInvariant, PTL
=============================================================================
