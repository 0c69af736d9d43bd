------------------------ MODULE ThreadPoolWorkQueue ------------------------
(***************************************************************************)
(* The multi-threaded work queue (AsyncRT/lib/Runtime/                     *)
(* ThreadPoolWorkQueue.cpp).  Worker threads loop in runItemsImpl over     *)
(* four sources of tasks: their local list, their affinity list (a         *)
(* BoundedFIFO, see LockFreeRingBuffer), the global list and, before they  *)
(* sleep, the two mutex-protected overflow lists.  Worker 0 is the 'main'  *)
(* thread if MainWillDonate.  Tasks and the programs of the other threads  *)
(* are sequences of calls to the work queue's interface.                   *)
(* Every thread has a stack of activation records, the last one on top,    *)
(* because a task may await and so re-enter the loop.  One action is one   *)
(* access to shared state.                                                 *)
(***************************************************************************)
EXTENDS Integers, Sequences, FiniteSets

CONSTANTS
  NumWorkers,        \* workers, the donating main thread included
  NumForeign,        \* threads outside the pool
  MainWillDonate,    \* worker 0 is the thread that created the queue
  BitVectorWidths,   \* {64} in the source: bits of suspendedThreads
  AffinityCapacity,  \* slots of a worker's affinity list
  TaskListMayFail,   \* the global list may refuse a task (out of memory)
  Tasks,             \* the work items of the behaviour
  Body,              \* for each task, the calls it makes
  Program            \* for each thread outside the loop, the calls it makes

kDefaultTaskId == -1
Workers == 0..(NumWorkers - 1)
Threads == 0..(NumWorkers + NumForeign - 1)
PoolThreads == IF MainWillDonate THEN Workers \ {0} ELSE Workers

NoTask == "no task"

(* What a task may call: addTask, with a worker's id or without one,       *)
(* addLocalTask and await.                                                 *)
TaskCalls ==
  [op : {"addTask"}, task : Tasks, taskId : Workers \cup {kDefaultTaskId}]
    \cup [op : {"addLocalTask"}, task : Tasks]
    \cup [op : {"await"}, values : SUBSET Tasks]

(* "must shutdown from the 'main' thread in mainWillDonate mode", and from *)
(* a foreign thread otherwise.                                             *)
MayShutdown(t) == IF MainWillDonate THEN t = 0 ELSE t \notin Workers

CallsOf(t) == TaskCalls \cup (IF MayShutdown(t) THEN [op : {"shutdown"}] ELSE {})

ASSUME PoolAssumption ==
  /\ NumWorkers \in Nat \ {0} /\ NumForeign \in Nat
  /\ BitVectorWidths \subseteq Nat \ {0} /\ AffinityCapacity \in Nat \ {0}
  /\ MainWillDonate \in BOOLEAN /\ TaskListMayFail \in BOOLEAN

ASSUME ProgramAssumption ==
  /\ NoTask \notin Tasks
  /\ Body \in [Tasks -> Seq(TaskCalls)]
  /\ \A t \in Threads \ PoolThreads : Program[t] \in Seq(CallsOf(t))

VARIABLES
  taskList,          \* the global list; order between producers is not kept
  overflowTaskList,
  affinityTaskList, localSpillQueue,            \* per worker
  localTaskList, nextLocalTaskListIndex,        \* per worker
  sema,              \* per thread: the tokens of the semaphore it sleeps on
  suspendedThreads,  \* the set of worker groups whose bit is set
  multicastFactor,   \* log2 of the workers that share a bit, set once
  doneFlag,
  stack,             \* per thread: its activation records, the last on top
  ready,             \* the tasks that finished: their AsyncValues are ready
  added              \* history: the tasks handed to the queue

lists == <<taskList, overflowTaskList, affinityTaskList, localSpillQueue>>
locals == <<localTaskList, nextLocalTaskListIndex>>
signals == <<sema, suspendedThreads, doneFlag>>
vars == <<lists, locals, signals, stack, ready, added>>

(***************************************************************************)
(* Activation records.                                                     *)
(***************************************************************************)
Calls(task, prog) == [fn |-> "calls", task |-> task, rest |-> prog]

(* runItemsImpl.  "until" tells the predicates apart: runOnThread stops    *)
(* late, on doneFlag; await stops early, when no value is left; shutdown   *)
(* does not wait for tasks and stops when the lists are empty.             *)
Loop(until, values) ==
  [fn |-> "runItems", pc |-> "top", until |-> until, values |-> values,
   left |-> values]

ForeignWait(values) == [fn |-> "wait", values |-> values, left |-> values]

AddTask(task, id) ==
  [fn |-> "addTask", pc |-> "enqueue", task |-> task, taskId |-> id, toPost |-> {}]

Shutdown == [fn |-> "shutdown", pc |-> "donate", toPost |-> Workers]

Top(t) == stack[t][Len(stack[t])]
Idle(t) == stack[t] = <<>>
At(t, fn, pc) == ~Idle(t) /\ Top(t).fn = fn /\ Top(t).pc = pc

(* The activations under the top one. *)
Below(s) == SubSeq(s, 1, Len(s) - 1)

Pop(t) == stack' = [stack EXCEPT ![t] = Below(@)]
Become(t, f) == stack' = [stack EXCEPT ![t] = Append(Below(@), f)]
Goto(t, label) == Become(t, [Top(t) EXCEPT !.pc = label])

(* The loop runs a task on top of itself and goes back to KeepRunning. *)
doWork(t, task, label) ==
  stack' = [stack EXCEPT ![t] =
    Append(Append(Below(@), [Top(t) EXCEPT !.pc = label]), Calls(task, Body[task]))]

(* ceil(log2(numWorkers / bitVectorWidth)) *)
MulticastFactor(width) ==
  IF NumWorkers > width
    THEN CHOOSE k \in 1..NumWorkers :
           width * 2^k >= NumWorkers /\ width * 2^(k - 1) < NumWorkers
    ELSE 0

Init ==
  /\ taskList = {} /\ overflowTaskList = <<>>
  /\ affinityTaskList = [w \in Workers |-> <<>>]
  /\ localSpillQueue = [w \in Workers |-> <<>>]
  /\ localTaskList = [w \in Workers |-> <<>>]
  /\ nextLocalTaskListIndex = [w \in Workers |-> 0]
  /\ sema = [t \in Threads |-> 0]
  /\ suspendedThreads = {}
  /\ multicastFactor \in {MulticastFactor(width) : width \in BitVectorWidths}
  /\ doneFlag = FALSE
  /\ stack = [t \in Threads |->
       IF t \in PoolThreads THEN <<Loop("done", {})>>
       ELSE <<Calls(NoTask, Program[t])>>]
  /\ ready = {} /\ added = {}

(***************************************************************************)
(* SharedThreadState                                                       *)
(***************************************************************************)
workerGroup(w) == w \div 2^multicastFactor
GroupMembers(g) == {w \in Workers : workerGroup(w) = g}

markSuspended(w) == suspendedThreads' = suspendedThreads \cup {workerGroup(w)}
LowestGroup == CHOOSE g \in suspendedThreads : \A h \in suspendedThreads : g <= h

Post(t) == sema' = [sema EXCEPT ![t] = @ + 1]

(***************************************************************************)
(* WorkQueueThread::runItemsImpl, from top to bottom                       *)
(***************************************************************************)
EarlyStop(f) == f.until = "values" /\ f.left = {}
LateStop(f) == f.until = "done" /\ doneFlag

KeepRunning(t) ==
  /\ At(t, "runItems", "top")
  /\ IF EarlyStop(Top(t)) THEN Pop(t) ELSE Goto(t, "local")
  /\ UNCHANGED <<lists, locals, signals, ready, added>>

RunLocal_AdvancesLate(t) ==
  /\ At(t, "runItems", "local")
  /\ nextLocalTaskListIndex[t] < Len(localTaskList[t])
  /\ doWork(t, localTaskList[t][nextLocalTaskListIndex[t] + 1], "local")
  /\ UNCHANGED <<lists, locals, signals, ready, added>>

RunLocal(t) ==
  /\ At(t, "runItems", "local")
  /\ nextLocalTaskListIndex[t] < Len(localTaskList[t])
  /\ doWork(t, localTaskList[t][nextLocalTaskListIndex[t] + 1], "local")
  /\ nextLocalTaskListIndex' = [nextLocalTaskListIndex EXCEPT ![t] = @ + 1]
  /\ UNCHANGED <<lists, localTaskList, signals, ready, added>>

LocalDone_KeepsIndex(t) ==
  /\ At(t, "runItems", "local")
  /\ nextLocalTaskListIndex[t] >= Len(localTaskList[t])
  /\ localTaskList' = [localTaskList EXCEPT ![t] = <<>>]
  /\ Goto(t, "affinity")
  /\ UNCHANGED <<lists, nextLocalTaskListIndex, signals, ready, added>>

LocalDone(t) ==
  /\ At(t, "runItems", "local")
  /\ nextLocalTaskListIndex[t] >= Len(localTaskList[t])
  /\ localTaskList' = [localTaskList EXCEPT ![t] = <<>>]
  /\ nextLocalTaskListIndex' = [nextLocalTaskListIndex EXCEPT ![t] = 0]
  /\ Goto(t, "affinity")
  /\ UNCHANGED <<lists, signals, ready, added>>

AffinityLooks_NoGlobalRecheck ==
  {<<"affinity", "global">>, <<"spinAffinity", "spinGlobal">>,
   <<"preAffinity", "preStop">>}

(* The three places that look into the affinity list, and where they go on *)
(* if it is empty.                                                         *)
AffinityLooks == {<<"affinity", "global">>, <<"spinAffinity", "spinGlobal">>,
                  <<"preAffinity", "preGlobal">>}

RunAffinity(t) ==
  /\ \E look \in AffinityLooks : At(t, "runItems", look[1])
  /\ affinityTaskList[t] # <<>>
  /\ affinityTaskList' = [affinityTaskList EXCEPT ![t] = Tail(@)]
  /\ doWork(t, Head(affinityTaskList[t]), "top")
  /\ UNCHANGED <<taskList, overflowTaskList, localSpillQueue, locals, signals, ready, added>>

NoAffinity(t) ==
  /\ \E look \in AffinityLooks :
       /\ At(t, "runItems", look[1])
       /\ affinityTaskList[t] = <<>>
       /\ Goto(t, look[2])
  /\ UNCHANGED <<lists, locals, signals, ready, added>>

GlobalLooks == {<<"global", "spinAffinity">>, <<"spinGlobal", "spinStop">>,
                <<"preGlobal", "preStop">>}

RunGlobal(t) ==
  /\ \E look \in GlobalLooks : At(t, "runItems", look[1])
  /\ \E task \in taskList :
       taskList' = taskList \ {task} /\ doWork(t, task, "top")
  /\ UNCHANGED <<overflowTaskList, affinityTaskList, localSpillQueue, locals, signals,
                 ready, added>>

(* Without waitForTasks the loop returns instead of spinning. *)
NoGlobal(t) ==
  /\ \E look \in GlobalLooks :
       /\ At(t, "runItems", look[1])
       /\ taskList = {}
       /\ IF Top(t).until = "empty" THEN Pop(t) ELSE Goto(t, look[2])
  /\ UNCHANGED <<lists, locals, signals, ready, added>>

(* One round of busy waiting ends: stop, spin again, or the time is up. *)
SpinStop(t) ==
  /\ At(t, "runItems", "spinStop")
  /\ EarlyStop(Top(t)) \/ LateStop(Top(t))
  /\ Pop(t)
  /\ UNCHANGED <<lists, locals, signals, ready, added>>

SpinAgain(t) ==
  /\ At(t, "runItems", "spinStop")
  /\ ~(EarlyStop(Top(t)) \/ LateStop(Top(t)))
  /\ Goto(t, "spinAffinity")
  /\ UNCHANGED <<lists, locals, signals, ready, added>>

SpinTimeout(t) ==
  /\ At(t, "runItems", "spinStop")
  /\ ~(EarlyStop(Top(t)) \/ LateStop(Top(t)))
  /\ Goto(t, "spill")
  /\ UNCHANGED <<lists, locals, signals, ready, added>>

DrainSpill_ToGlobal(t) ==
  /\ At(t, "runItems", "spill")
  /\ IF localSpillQueue[t] = <<>> THEN Goto(t, "overflow") ELSE Goto(t, "top")
  /\ taskList' = taskList \cup
       {localSpillQueue[t][k] : k \in 1..Len(localSpillQueue[t])}
  /\ localSpillQueue' = [localSpillQueue EXCEPT ![t] = <<>>]
  /\ UNCHANGED <<overflowTaskList, affinityTaskList, locals, signals, ready, added>>

DrainSpill(t) ==
  /\ At(t, "runItems", "spill")
  /\ IF localSpillQueue[t] = <<>> THEN Goto(t, "overflow") ELSE Goto(t, "top")
  /\ LET spilled == localSpillQueue[t]
         popped == [k \in 1..Len(spilled) |-> spilled[Len(spilled) + 1 - k]]
     IN localTaskList' = [localTaskList EXCEPT ![t] = @ \o popped]
  /\ localSpillQueue' = [localSpillQueue EXCEPT ![t] = <<>>]
  /\ UNCHANGED <<taskList, overflowTaskList, affinityTaskList, nextLocalTaskListIndex,
                 signals, ready, added>>

(* Moves the last items of the overflow list to the global list, all of    *)
(* them unless the global list refuses one.                                *)
PumpOverflow(t) ==
  /\ At(t, "runItems", "overflow")
  /\ IF overflowTaskList = <<>> THEN Goto(t, "markSuspended") ELSE Goto(t, "top")
  /\ \E kept \in 0..Len(overflowTaskList) :
       /\ kept = 0 \/ TaskListMayFail
       /\ overflowTaskList' = SubSeq(overflowTaskList, 1, kept)
       /\ taskList' = taskList \cup
            {overflowTaskList[i] : i \in (kept + 1)..Len(overflowTaskList)}
  /\ UNCHANGED <<affinityTaskList, localSpillQueue, locals, signals, ready, added>>

MarkSuspended_NoAffinityRecheck(t) ==
  /\ At(t, "runItems", "markSuspended")
  /\ markSuspended(t)
  /\ Goto(t, "preGlobal")
  /\ UNCHANGED <<lists, locals, sema, doneFlag, ready, added>>

MarkSuspended(t) ==
  /\ At(t, "runItems", "markSuspended")
  /\ markSuspended(t)
  /\ Goto(t, "preAffinity")
  /\ UNCHANGED <<lists, locals, sema, doneFlag, ready, added>>

(* The bit stays set when await returns here. *)
PreSuspendStop(t) ==
  /\ At(t, "runItems", "preStop")
  /\ IF EarlyStop(Top(t)) THEN Pop(t) ELSE Goto(t, "sleep")
  /\ UNCHANGED <<lists, locals, signals, ready, added>>

WakeUp(t) ==
  /\ At(t, "runItems", "sleep")
  /\ sema[t] > 0
  /\ sema' = [sema EXCEPT ![t] = @ - 1]
  /\ Goto(t, "top")
  /\ UNCHANGED <<lists, locals, suspendedThreads, doneFlag, ready, added>>

(***************************************************************************)
(* addTask                                                                 *)
(***************************************************************************)
AddAffinityTask(t) ==
  /\ At(t, "addTask", "enqueue") /\ Top(t).taskId # kDefaultTaskId
  /\ LET w == Top(t).taskId IN
     \/ /\ Len(affinityTaskList[w]) < AffinityCapacity
        /\ affinityTaskList' = [affinityTaskList EXCEPT ![w] = Append(@, Top(t).task)]
        /\ Goto(t, "wake")
     \/ /\ Len(affinityTaskList[w]) = AffinityCapacity
        /\ Goto(t, "spill")
        /\ UNCHANGED affinityTaskList
  /\ UNCHANGED <<taskList, overflowTaskList, localSpillQueue, locals, signals, ready, added>>

AddSpilledTask(t) ==
  /\ At(t, "addTask", "spill")
  /\ localSpillQueue' =
       [localSpillQueue EXCEPT ![Top(t).taskId] = Append(@, Top(t).task)]
  /\ Goto(t, "wake")
  /\ UNCHANGED <<taskList, overflowTaskList, affinityTaskList, locals, signals, ready, added>>

AddGlobalTask(t) ==
  /\ At(t, "addTask", "enqueue") /\ Top(t).taskId = kDefaultTaskId
  /\ taskList' = taskList \cup {Top(t).task}
  /\ Goto(t, "wake")
  /\ UNCHANGED <<overflowTaskList, affinityTaskList, localSpillQueue, locals, signals,
                 ready, added>>

(* The global list refused the task: nobody is woken. *)
AddOverflowTask(t) ==
  /\ At(t, "addTask", "enqueue") /\ Top(t).taskId = kDefaultTaskId
  /\ TaskListMayFail
  /\ overflowTaskList' = Append(overflowTaskList, Top(t).task)
  /\ Pop(t)
  /\ UNCHANGED <<taskList, affinityTaskList, localSpillQueue, locals, signals, ready, added>>

PostTo(t, targets) == Become(t, [Top(t) EXCEPT !.pc = "post", !.toPost = targets])

takeSuspendedThread(t) ==
  LET w == Top(t).taskId
      g == workerGroup(w)
  IN
  /\ At(t, "addTask", "wake") /\ w # kDefaultTaskId
  /\ \/ multicastFactor = 0 /\ g \in suspendedThreads /\ PostTo(t, {w})
     \/ multicastFactor = 0 /\ g \notin suspendedThreads /\ Pop(t)
     \/ multicastFactor > 0 /\ PostTo(t, {w})
  /\ suspendedThreads' =
       IF multicastFactor = 0 THEN suspendedThreads \ {g} ELSE suspendedThreads
  /\ UNCHANGED <<lists, locals, sema, doneFlag, ready, added>>

takeAnySuspendedThread(t) ==
  /\ At(t, "addTask", "wake") /\ Top(t).taskId = kDefaultTaskId
  /\ \/ /\ suspendedThreads = {}
        /\ Pop(t)
        /\ UNCHANGED suspendedThreads
     \/ /\ suspendedThreads # {}
        /\ PostTo(t, GroupMembers(LowestGroup))
        /\ suspendedThreads' = suspendedThreads \ {LowestGroup}
  /\ UNCHANGED <<lists, locals, sema, doneFlag, ready, added>>

PostWorker(t) ==
  /\ At(t, "addTask", "post")
  /\ \E w \in Top(t).toPost :
       /\ Post(w)
       /\ IF Top(t).toPost = {w} THEN Pop(t) ELSE PostTo(t, Top(t).toPost \ {w})
  /\ UNCHANGED <<lists, locals, suspendedThreads, doneFlag, ready, added>>

(***************************************************************************)
(* The calls a task or a program makes                                     *)
(***************************************************************************)
NextCall(t, op) ==
  ~Idle(t) /\ Top(t).fn = "calls" /\ Top(t).rest # <<>> /\ Head(Top(t).rest).op = op

Call(t) == Head(Top(t).rest)
AfterCall(t) == [Top(t) EXCEPT !.rest = Tail(@)]
Enter(t, f) == stack' = [stack EXCEPT ![t] = Append(Append(Below(@), AfterCall(t)), f)]

CallAddTask(t) ==
  /\ NextCall(t, "addTask")
  /\ Enter(t, AddTask(Call(t).task, Call(t).taskId))
  /\ added' = added \cup {Call(t).task}
  /\ UNCHANGED <<lists, locals, signals, ready>>

addLocalTask(t) ==
  /\ NextCall(t, "addLocalTask")
  /\ \/ /\ t \in Workers
        /\ localTaskList' = [localTaskList EXCEPT ![t] = Append(@, Call(t).task)]
        /\ Become(t, AfterCall(t))
     \/ /\ t \notin Workers
        /\ Enter(t, AddTask(Call(t).task, kDefaultTaskId))
        /\ UNCHANGED localTaskList
  /\ added' = added \cup {Call(t).task}
  /\ UNCHANGED <<lists, nextLocalTaskListIndex, signals, ready>>

(* await: nothing to do if every value is ready. *)
CallAwait(t) ==
  /\ NextCall(t, "await")
  /\ IF Call(t).values \subseteq ready
       THEN Become(t, AfterCall(t))
       ELSE Enter(t, [fn |-> "await", pc |-> "register", values |-> Call(t).values])
  /\ UNCHANGED <<lists, locals, signals, ready, added>>

(* andThenSync on every value: the callback of a value that is ready by    *)
(* now runs at once, and the last of the callbacks posts the semaphore.    *)
AwaitRegister(t) ==
  LET values == Top(t).values
      frame == IF t \in Workers THEN Loop("values", values) ELSE ForeignWait(values)
  IN
  /\ At(t, "await", "register")
  /\ Become(t, [frame EXCEPT !.left = values \ ready])
  /\ IF values \subseteq ready THEN Post(t) ELSE UNCHANGED sema
  /\ UNCHANGED <<lists, locals, suspendedThreads, doneFlag, ready, added>>

ForeignAwaitReturns(t) ==
  /\ ~Idle(t) /\ Top(t).fn = "wait"
  /\ sema[t] > 0
  /\ sema' = [sema EXCEPT ![t] = @ - 1]
  /\ Pop(t)
  /\ UNCHANGED <<lists, locals, suspendedThreads, doneFlag, ready, added>>

(* The awaits that hold a callback on the task's value: thread and depth. *)
Waiting(task) ==
  UNION {{<<u, k>> : k \in {k \in 1..Len(stack[u]) :
                              /\ stack[u][k].fn \in {"runItems", "wait"}
                              /\ task \in stack[u][k].left}} : u \in Threads}

(* The last thing a task does is to emplace its value, which then runs the *)
(* callbacks on this thread.                                               *)
FinishTask(t) ==
  /\ ~Idle(t) /\ Top(t).fn = "calls" /\ Top(t).rest = <<>> /\ Top(t).task # NoTask
  /\ ready' = ready \cup {Top(t).task}
  /\ IF Waiting(Top(t).task) = {} THEN Pop(t)
     ELSE Become(t, [fn |-> "notify", pc |-> "count", task |-> Top(t).task,
                     to |-> Waiting(Top(t).task), toPost |-> {}])
  /\ UNCHANGED <<lists, locals, signals, added>>

FinishProgram(t) ==
  /\ ~Idle(t) /\ Top(t).fn = "calls" /\ Top(t).rest = <<>> /\ Top(t).task = NoTask
  /\ Pop(t)
  /\ UNCHANGED <<lists, locals, signals, ready, added>>

NotifyCount_NeverPosts(t) ==
  /\ At(t, "notify", "count")
  /\ \E await \in Top(t).to :
       LET u == await[1]
           k == await[2]
           rest == Top(t).to \ {await}
           counted == [stack EXCEPT ![u][k].left = @ \ {Top(t).task}]
       IN stack' = [counted EXCEPT ![t] =
            IF rest = {} THEN Below(@) ELSE Append(Below(@), [Top(t) EXCEPT !.to = rest])]
  /\ UNCHANGED <<lists, locals, signals, ready, added>>

CountDown_PostsEach(t, f, await) ==
  LET u == await[1]
      k == await[2]
      counted == [stack EXCEPT ![u][k].left = @ \ {f.task}]
  IN stack' = [counted EXCEPT ![t] = Append(Below(@),
       [f EXCEPT !.to = @ \ {await}, !.toPost = {u}, !.pc = "post"])]

(* numRemaining.fetch_sub in the callback that f records: the one that     *)
(* brings it to zero posts.                                                *)
CountDown(t, f, await) ==
  LET u == await[1]
      k == await[2]
      left == stack[u][k].left \ {f.task}
      counted == [stack EXCEPT ![u][k].left = left]
      rest == f.to \ {await}
      next == [f EXCEPT !.to = rest,
                        !.toPost = IF left = {} THEN {u} ELSE {},
                        !.pc = IF left = {} THEN "post" ELSE "count"]
  IN stack' = [counted EXCEPT ![t] =
       IF left # {} /\ rest = {} THEN Below(@) ELSE Append(Below(@), next)]

NotifyCount(t) ==
  /\ At(t, "notify", "count")
  /\ \E await \in Top(t).to : CountDown(t, Top(t), await)
  /\ UNCHANGED <<lists, locals, signals, ready, added>>

NotifyPost(t) ==
  /\ At(t, "notify", "post")
  /\ \E u \in Top(t).toPost : Post(u)
  /\ IF Top(t).to = {} THEN Pop(t)
     ELSE Become(t, [Top(t) EXCEPT !.pc = "count", !.toPost = {}])
  /\ UNCHANGED <<lists, locals, suspendedThreads, doneFlag, ready, added>>

(***************************************************************************)
(* shutdown                                                                *)
(***************************************************************************)
CallShutdown(t) ==
  /\ NextCall(t, "shutdown")
  /\ Enter(t, Shutdown)
  /\ UNCHANGED <<lists, locals, signals, ready, added>>

ShutdownDonate_Skipped(t) ==
  /\ At(t, "shutdown", "donate")
  /\ Goto(t, "flag")
  /\ UNCHANGED <<lists, locals, signals, ready, added>>

ShutdownDonate(t) ==
  /\ At(t, "shutdown", "donate")
  /\ IF MainWillDonate
       THEN stack' = [stack EXCEPT ![t] =
              Append(Append(Below(@), [Top(t) EXCEPT !.pc = "flag"]), Loop("empty", {}))]
       ELSE Goto(t, "flag")
  /\ UNCHANGED <<lists, locals, signals, ready, added>>

ShutdownFlag(t) ==
  /\ At(t, "shutdown", "flag")
  /\ doneFlag' = TRUE
  /\ Goto(t, "post")
  /\ UNCHANGED <<lists, locals, sema, suspendedThreads, ready, added>>

ShutdownPost(t) ==
  /\ At(t, "shutdown", "post")
  /\ \E w \in Top(t).toPost :
       /\ Post(w)
       /\ Become(t, [Top(t) EXCEPT
            !.toPost = @ \ {w}, !.pc = IF Top(t).toPost = {w} THEN "clear" ELSE "post"])
  /\ UNCHANGED <<lists, locals, suspendedThreads, doneFlag, ready, added>>

ShutdownClear(t) ==
  /\ At(t, "shutdown", "clear")
  /\ suspendedThreads' = {}
  /\ Goto(t, "join")
  /\ UNCHANGED <<lists, locals, sema, doneFlag, ready, added>>

ShutdownJoin(t) ==
  /\ At(t, "shutdown", "join")
  /\ \A w \in PoolThreads : Idle(w)
  /\ Pop(t)
  /\ UNCHANGED <<lists, locals, signals, ready, added>>

(***************************************************************************)
(* The specification                                                       *)
(***************************************************************************)
RunItemsStep(t) ==
  \/ KeepRunning(t) \/ RunLocal(t) \/ LocalDone(t) \/ RunAffinity(t) \/ NoAffinity(t)
  \/ RunGlobal(t) \/ NoGlobal(t) \/ SpinStop(t) \/ SpinAgain(t) \/ SpinTimeout(t)
  \/ DrainSpill(t) \/ PumpOverflow(t) \/ MarkSuspended(t) \/ PreSuspendStop(t)
  \/ WakeUp(t)

AddTaskStep(t) ==
  \/ AddAffinityTask(t) \/ AddSpilledTask(t) \/ AddGlobalTask(t) \/ AddOverflowTask(t)
  \/ takeSuspendedThread(t) \/ takeAnySuspendedThread(t) \/ PostWorker(t)

CallStep(t) ==
  \/ CallAddTask(t) \/ addLocalTask(t) \/ CallAwait(t) \/ AwaitRegister(t)
  \/ ForeignAwaitReturns(t) \/ FinishTask(t) \/ FinishProgram(t) \/ NotifyCount(t)
  \/ NotifyPost(t)

ShutdownStep(t) ==
  \/ CallShutdown(t) \/ ShutdownDonate(t) \/ ShutdownFlag(t) \/ ShutdownPost(t)
  \/ ShutdownClear(t) \/ ShutdownJoin(t)

ThreadStep(t) == RunItemsStep(t) \/ AddTaskStep(t) \/ CallStep(t) \/ ShutdownStep(t)

(* The pool stops when every thread has returned. *)
Next ==
  /\ \E t \in Threads : ThreadStep(t)
  /\ UNCHANGED multicastFactor

Spec == Init /\ [][Next]_<<vars, multicastFactor>>

(* Every thread is scheduled, and busyWaitTime is finite. *)
Fairness ==
  /\ \A t \in Threads : WF_vars(ThreadStep(t))
  /\ \A w \in Workers : SF_vars(SpinTimeout(w))

FairSpec == Spec /\ Fairness

(***************************************************************************)
(* Properties                                                              *)
(***************************************************************************)
(* Every list holds tasks, every counter is in range and every activation  *)
(* record is one the code can build.                                       *)
TypeOK ==
  /\ taskList \subseteq Tasks /\ overflowTaskList \in Seq(Tasks)
  /\ \A w \in Workers :
       /\ affinityTaskList[w] \in Seq(Tasks) /\ Len(affinityTaskList[w]) <= AffinityCapacity
       /\ localSpillQueue[w] \in Seq(Tasks)
       /\ localTaskList[w] \in Seq(Tasks)
       /\ nextLocalTaskListIndex[w] \in 0..Len(localTaskList[w])
  /\ sema \in [Threads -> Nat]
  /\ suspendedThreads \subseteq {workerGroup(w) : w \in Workers}
  /\ doneFlag \in BOOLEAN /\ ready \subseteq added /\ added \subseteq Tasks
  /\ \A t \in Threads : \A k \in 1..Len(stack[t]) :
       stack[t][k].fn \in {"calls", "runItems", "wait", "addTask", "await", "notify",
                           "shutdown"}

(* Where the task is: in which lists and on which threads, and how often. *)
Places(task) ==
  LET In(list, t, seq) == {<<list, t, k>> : k \in {k \in 1..Len(seq) : seq[k] = task}}
      Held(f) == \/ f.fn = "calls" /\ f.task = task
                 \/ f.fn = "addTask" /\ f.pc \in {"enqueue", "spill"} /\ f.task = task
      Rest(w) == SubSeq(localTaskList[w], nextLocalTaskListIndex[w] + 1, Len(localTaskList[w]))
  IN {<<"taskList", kDefaultTaskId, x>> : x \in taskList \cap {task}}
       \cup In("overflow", kDefaultTaskId, overflowTaskList)
       \cup UNION {In("affinity", w, affinityTaskList[w]) : w \in Workers}
       \cup UNION {In("spill", w, localSpillQueue[w]) : w \in Workers}
       \cup UNION {In("local", w, Rest(w)) : w \in Workers}
       \cup UNION {{<<"stack", t, k>> : k \in {k \in 1..Len(stack[t]) : Held(stack[t][k])}} :
                     t \in Threads}

(* Every call in the tasks and the programs. *)
AllCalls ==
  UNION {{Body[task][k] : k \in 1..Len(Body[task])} : task \in Tasks}
    \cup UNION {{Program[t][k] : k \in 1..Len(Program[t])} : t \in Threads \ PoolThreads}

(* A task added with a taskId runs on that worker, also when it went       *)
(* through the spill queue ("maintaining the affinity").                   *)
AffinityKept ==
  \A c \in AllCalls : c.op = "addTask" /\ c.taskId # kDefaultTaskId =>
    \A t \in Threads : \A k \in 1..Len(stack[t]) :
      stack[t][k].fn = "calls" /\ stack[t][k].task = c.task => t = c.taskId

(* A task that was added and has not finished is in exactly one list or    *)
(* runs on exactly one thread, its own worker if it has an affinity,       *)
(* whatever is spilled, pumped, cleared or re-entered: no task is lost,    *)
(* misplaced or run twice.                                                 *)
TasksConserved ==
  /\ \A task \in Tasks : Cardinality(Places(task)) = IF task \in added \ ready THEN 1 ELSE 0
  /\ AffinityKept

(* The worker is in its loop and will look into the lists again before it  *)
(* sleeps, or it has a token or is about to get one.                       *)
WillLook(w) ==
  /\ \E k \in 1..Len(stack[w]) : stack[w][k].fn = "runItems"
  /\ \/ ~At(w, "runItems", "preStop") /\ ~At(w, "runItems", "sleep")
     \/ sema[w] > 0
     \/ \E t \in Threads : At(t, "addTask", "post") /\ w \in Top(t).toPost

(* addTask has enqueued and has not looked for a worker to wake yet. *)
Waking(t, id) == At(t, "addTask", "wake") /\ Top(t).taskId = id

(* "If there are any suspended workers, kick one of them now to make sure  *)
(* there's at least one worker still awake to pick up work" (addTask): a   *)
(* task in the global list is never left to workers that all sleep.        *)
GlobalTaskSeen ==
  /\ taskList # {} /\ ~doneFlag
  /\ \A t \in Threads : ~Waking(t, kDefaultTaskId)
  => \E w \in Workers : WillLook(w)

(* "T0 is not going to post semaphore, but the task is already enqueued.   *)
(* Run it now" (runItemsImpl): a pool thread whose affinity list holds a   *)
(* task does not sleep without a token, however addTask and markSuspended  *)
(* interleave and also when several workers share a bit.                   *)
AffinityListSeen ==
  \A w \in PoolThreads :
    /\ affinityTaskList[w] # <<>> /\ ~doneFlag
    /\ \A t \in Threads : ~Waking(t, w)
    => WillLook(w)

(* No task in the lock-free lists is left to workers that all sleep. *)
ListsSeen == GlobalTaskSeen /\ AffinityListSeen

(* The spill queue is behind the same two looks: a pool thread that has    *)
(* tasks of its own, in its affinity list or spilled, does not sleep       *)
(* without a token.                                                        *)
AffinityTaskSeen ==
  \A w \in PoolThreads :
    /\ affinityTaskList[w] # <<>> \/ localSpillQueue[w] # <<>>
    /\ ~doneFlag
    /\ \A t \in Threads : ~Waking(t, w)
    => WillLook(w)

(* No task is left to sleeping workers, with an affinity or without one,   *)
(* however addTask, runItemsImpl and the shared bits interleave.           *)
WorkSeen == GlobalTaskSeen /\ AffinityTaskSeen

(* await returns, on a worker or on a foreign thread, only when all its    *)
(* values are ready (the assertion at its end).                            *)
AwaitReturnsReady ==
  [][\A t \in Threads :
       /\ ~Idle(t) /\ Len(stack'[t]) < Len(stack[t])
       /\ Top(t).fn \in {"runItems", "wait"}
       => Top(t).values \subseteq ready]_vars

(* "Donate this thread to help drain the work queue if there's anything    *)
(* left" (shutdown).  A pool thread may stop between its looks into the    *)
(* lists and the test of doneFlag, so a finished shutdown may leave tasks  *)
(* behind; but with a donating main thread these are only in the affinity  *)
(* lists of the pool threads, which no other thread serves, or in the      *)
(* spill and overflow lists, which are only looked at before sleeping:     *)
(* what was local, global or main's own when shutdown was called has run.  *)
ShutdownDrains ==
  MainWillDonate /\ (\A t \in Threads : Idle(t)) =>
    \A task \in added \ ready : \A place \in Places(task) :
      \/ place[1] = "affinity" /\ place[2] \in PoolThreads
      \/ place[1] \in {"spill", "overflow"}

(* Every program ends: every await and the shutdown return, so that no     *)
(* wake-up is lost on the way.                                             *)
Terminates == <>(\A t \in Threads : Idle(t))
=============================================================================
