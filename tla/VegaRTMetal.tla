---------------------------- MODULE VegaRTMetal ----------------------------
(***************************************************************************)
(* Queued launch of the Metal back end (AsyncRT/lib/MojoBindings/          *)
(* VegaRTMetal.cpp): launches are encoded into an open batch, batches are  *)
(* committed to the device queue, and whoever wants to see device memory   *)
(* drains the queue first.  One context, several host threads and the      *)
(* device.  A command buffer is named by the order of its creation.        *)
(* What runs under ctx->mu is one action.                                  *)
(***************************************************************************)
EXTENDS Integers, Sequences, FiniteSets, Functions

CONSTANTS
  Threads,             \* the host threads that launch
  CallsOf,             \* per thread, the calls besides launches that it makes
  kMaxBatchDispatches, \* 64 in the source
  kMaxPendingBuffers,  \* 4 in the source
  MaxCalls             \* bounds the calls that may create a command buffer

(* The calls that drain, besides destroyContext: a "hostCopy" moves data    *)
(* between the host and a buffer, a "blit" lets the device copy or fill.   *)
Calls == {"synchronize", "hostPtr", "hostCopy", "blit"}

ASSUME MetalAssumption ==
  /\ CallsOf \in [Threads -> SUBSET (Calls \cup {"destroy"})]
  /\ kMaxBatchDispatches \in Nat \ {0} /\ kMaxPendingBuffers \in Nat \ {0}
  /\ MaxCalls \in Nat

VARIABLES
  mode,                  \* the launch mode, read from the environment once
  status,                \* per command buffer: "encoding", "committed", "done", "failed"
  queue,                 \* the committed buffers, in commit order
  pending, openBatch, openBatchDispatches, deferredError,   \* VRMetalCtx
  pc, op, waiting,       \* per thread: where it is, its call, the buffers it waits for
  released,              \* how often a reference held on each buffer was given up
  calls,                 \* the calls made so far that may create a command buffer
  launches,              \* history: thread and buffer of every launch
  reported               \* history: the buffers whose error a caller was given

ctx == <<pending, openBatch, openBatchDispatches, deferredError>>
thread == <<pc, op, waiting>>
history == <<launches, reported>>
vars == <<mode, status, queue, ctx, thread, released, calls, history>>

None == 0
Buffers == DOMAIN status

(* A context that is being destroyed is no longer used. *)
InUse == \A t \in Threads : op[t] # "destroy"
Destroyed == \E t \in Threads : op[t] = "destroy" /\ pc[t] = "idle"

Finished(cb) == status[cb] \in {"done", "failed"}

Init ==
  /\ mode \in {"batched", "queued", "sync"}
  /\ status = <<>> /\ queue = <<>>
  /\ pending = <<>> /\ openBatch = None /\ openBatchDispatches = 0
  /\ deferredError = None
  /\ pc = [t \in Threads |-> "idle"]
  /\ op = [t \in Threads |-> "none"]
  /\ waiting = [t \in Threads |-> <<>>]
  /\ released = <<>>
  /\ calls = 0
  /\ launches = {} /\ reported = {}

(***************************************************************************)
(* The device runs the committed buffers in order; each may fail.          *)
(***************************************************************************)
DeviceStep ==
  /\ \E k \in 1..Len(queue) :
       /\ ~Finished(queue[k])
       /\ \A j \in 1..(k - 1) : Finished(queue[j])
       /\ \E s \in {"done", "failed"} : status' = [status EXCEPT ![queue[k]] = s]
  /\ UNCHANGED <<mode, queue, ctx, thread, released, calls, history>>

(***************************************************************************)
(* launch                                                                  *)
(***************************************************************************)
Fresh == Len(status) + 1

StartLaunch(t) ==
  /\ pc[t] = "idle" /\ InUse /\ calls < MaxCalls
  /\ calls' = calls + 1

(* The batch to encode into: the open one, or a new one that is retained. *)
Batch == IF openBatch = None THEN Fresh ELSE openBatch
OpenedStatus == IF openBatch = None THEN Append(status, "encoding") ELSE status
OpenedReleased == IF openBatch = None THEN Append(released, 0) ELSE released

(* Mutant of Full: a batch takes one dispatch too many. *)
Full_Late(n) == n > kMaxBatchDispatches

Full(n) == n >= kMaxBatchDispatches

TooMany(all) == Len(all) > kMaxPendingBuffers

(* Mutant of Rest: the oldest is waited for and not erased. *)
Rest_Keeps(all) == all

Rest(all) == IF TooMany(all) THEN Tail(all) ELSE all

LaunchBatched(t) ==
  LET full == Full(openBatchDispatches + 1)
      all == IF full THEN Append(pending, Batch) ELSE pending
      reap == TooMany(all)
  IN
  /\ StartLaunch(t) /\ mode = "batched"
  /\ status' = IF full THEN [OpenedStatus EXCEPT ![Batch] = "committed"] ELSE OpenedStatus
  /\ queue' = IF full THEN Append(queue, Batch) ELSE queue
  /\ openBatch' = IF full THEN None ELSE Batch
  /\ openBatchDispatches' = IF full THEN 0 ELSE openBatchDispatches + 1
  /\ pending' = Rest(all)
  /\ pc' = [pc EXCEPT ![t] = IF reap THEN "reap" ELSE "idle"]
  /\ waiting' = [waiting EXCEPT ![t] = IF reap THEN <<Head(all)>> ELSE <<>>]
  /\ released' = OpenedReleased
  /\ launches' = launches \cup {[by |-> t, in |-> Batch]}
  /\ UNCHANGED <<mode, deferredError, op, reported>>

(* An argument does not resolve: the batch stays open without the dispatch. *)
LaunchUnresolved(t) ==
  /\ StartLaunch(t) /\ mode = "batched"
  /\ status' = OpenedStatus /\ released' = OpenedReleased
  /\ openBatch' = Batch
  /\ UNCHANGED <<mode, queue, pending, openBatchDispatches, deferredError, thread, history>>

(* Keep a failure for the next drain unless there is one already. *)
Defer(cb) ==
  deferredError' =
    IF status[cb] = "failed" /\ deferredError = None THEN cb ELSE deferredError

(* Backpressure: the launching thread waits for the oldest buffer. *)
Reap(t) ==
  LET cb == Head(waiting[t]) IN
  /\ pc[t] = "reap" /\ Finished(cb)
  /\ Defer(cb)
  /\ released' = [released EXCEPT ![cb] = @ + 1]
  /\ waiting' = [waiting EXCEPT ![t] = <<>>]
  /\ pc' = [pc EXCEPT ![t] = "idle"]
  /\ UNCHANGED <<mode, status, queue, pending, openBatch, openBatchDispatches, op, calls, history>>

(* One buffer per launch, committed before the lock is taken ... *)
LaunchUnbatched(t) ==
  /\ StartLaunch(t) /\ mode \in {"queued", "sync"}
  /\ status' = Append(status, "committed")
  /\ released' = Append(released, 0)
  /\ queue' = Append(queue, Fresh)
  /\ waiting' = [waiting EXCEPT ![t] = <<Fresh>>]
  /\ pc' = [pc EXCEPT ![t] = mode]
  /\ launches' = launches \cup {[by |-> t, in |-> Fresh]}
  /\ UNCHANGED <<mode, ctx, op, reported>>

(* ... and retained in pending under it ... *)
KeepPending(t) ==
  /\ pc[t] = "queued"
  /\ pending' = pending \o waiting[t]
  /\ waiting' = [waiting EXCEPT ![t] = <<>>]
  /\ pc' = [pc EXCEPT ![t] = "idle"]
  /\ UNCHANGED <<mode, status, queue, openBatch, openBatchDispatches, deferredError, op,
                 released, calls, history>>

(* ... or waited for at once; the error is the launch's own.  The buffer   *)
(* was never retained: the autorelease pool has it.                        *)
WaitForLaunch(t) ==
  LET cb == Head(waiting[t]) IN
  /\ pc[t] = "sync" /\ Finished(cb)
  /\ reported' = reported \cup {x \in {cb} : status[x] = "failed"}
  /\ released' = [released EXCEPT ![cb] = @ + 1]
  /\ waiting' = [waiting EXCEPT ![t] = <<>>]
  /\ pc' = [pc EXCEPT ![t] = "idle"]
  /\ UNCHANGED <<mode, status, queue, ctx, op, calls, launches>>

(***************************************************************************)
(* drainPending and its callers                                            *)
(***************************************************************************)
(* Mutant of DrainSwap: the open batch is not part of what is drained. *)
DrainSwap_LeavesBatch(t, call) ==
  /\ waiting' = [waiting EXCEPT ![t] = pending]
  /\ pending' = <<>>
  /\ op' = [op EXCEPT ![t] = call]
  /\ pc' = [pc EXCEPT ![t] = "drain"]
  /\ UNCHANGED <<mode, status, queue, openBatch, openBatchDispatches, deferredError,
                 released, history>>

(* Mutant of DrainSwap: the open batch is waited for without a commit. *)
DrainSwap_NoCommit(t, call) ==
  /\ waiting' = [waiting EXCEPT ![t] =
                   pending \o (IF openBatch = None THEN <<>> ELSE <<openBatch>>)]
  /\ pending' = <<>> /\ openBatch' = None /\ openBatchDispatches' = 0
  /\ op' = [op EXCEPT ![t] = call]
  /\ pc' = [pc EXCEPT ![t] = "drain"]
  /\ UNCHANGED <<mode, status, queue, deferredError, released, history>>

(* Commit the open batch and take everything that is pending. *)
DrainSwap(t, call) ==
  LET batch == IF openBatch = None THEN <<>> ELSE <<openBatch>> IN
  /\ status' = [cb \in Buffers |-> IF cb \in Range(batch) THEN "committed" ELSE status[cb]]
  /\ queue' = queue \o batch
  /\ waiting' = [waiting EXCEPT ![t] = pending \o batch]
  /\ pending' = <<>> /\ openBatch' = None /\ openBatchDispatches' = 0
  /\ op' = [op EXCEPT ![t] = call]
  /\ pc' = [pc EXCEPT ![t] = "drain"]
  /\ UNCHANGED <<mode, deferredError, released, history>>

StartDrain(t) ==
  /\ pc[t] = "idle" /\ InUse
  /\ \E call \in CallsOf[t] \ {"destroy"} :
       /\ call = "blit" => calls < MaxCalls
       /\ calls' = IF call = "blit" THEN calls + 1 ELSE calls
       /\ DrainSwap(t, call)

(* Mutant of StartDestroy: the context is deleted without a drain. *)
StartDestroy_NoDrain(t) ==
  /\ "destroy" \in CallsOf[t] /\ InUse /\ \A u \in Threads : pc[u] = "idle"
  /\ op' = [op EXCEPT ![t] = "destroy"]
  /\ UNCHANGED <<mode, status, queue, ctx, pc, waiting, released, calls, history>>

(* destroyContext is called when no other thread uses the context. *)
StartDestroy(t) ==
  /\ "destroy" \in CallsOf[t] /\ InUse /\ \A u \in Threads : pc[u] = "idle"
  /\ DrainSwap(t, "destroy")
  /\ UNCHANGED calls

DrainWait(t) ==
  LET cb == Head(waiting[t]) IN
  /\ pc[t] = "drain" /\ waiting[t] # <<>> /\ Finished(cb)
  /\ Defer(cb)
  /\ released' = [released EXCEPT ![cb] = @ + 1]
  /\ waiting' = [waiting EXCEPT ![t] = Tail(@)]
  /\ UNCHANGED <<mode, status, queue, pending, openBatch, openBatchDispatches, pc, op,
                 calls, history>>

(* The deferred error is cleared and returned: hostPtr and destroyContext  *)
(* ignore it, a copy gives it to its caller and stops.                     *)
DrainReturn(t) ==
  /\ pc[t] = "drain" /\ waiting[t] = <<>>
  /\ deferredError' = None
  /\ reported' = reported \cup
       (IF op[t] \in {"hostPtr", "destroy"} THEN {} ELSE {deferredError} \ {None})
  /\ LET blits == op[t] = "blit" /\ deferredError = None IN
     /\ pc' = [pc EXCEPT ![t] = IF blits THEN "blit" ELSE "idle"]
     /\ op' = [op EXCEPT ![t] = IF blits \/ @ = "destroy" THEN @ ELSE "none"]
  /\ UNCHANGED <<mode, status, queue, pending, openBatch, openBatchDispatches, waiting,
                 released, calls, launches>>

(* runBlitOp commits a buffer of its own and waits for it. *)
BlitCommit(t) ==
  /\ pc[t] = "blit" /\ waiting[t] = <<>>
  /\ status' = Append(status, "committed")
  /\ released' = Append(released, 0)
  /\ queue' = Append(queue, Fresh)
  /\ waiting' = [waiting EXCEPT ![t] = <<Fresh>>]
  /\ UNCHANGED <<mode, ctx, pc, op, calls, history>>

BlitWait(t) ==
  LET cb == Head(waiting[t]) IN
  /\ pc[t] = "blit" /\ waiting[t] # <<>> /\ Finished(cb)
  /\ reported' = reported \cup {x \in {cb} : status[x] = "failed"}
  /\ released' = [released EXCEPT ![cb] = @ + 1]
  /\ waiting' = [waiting EXCEPT ![t] = <<>>]
  /\ pc' = [pc EXCEPT ![t] = "idle"]
  /\ op' = [op EXCEPT ![t] = "none"]
  /\ UNCHANGED <<mode, status, queue, ctx, calls, launches>>

Launch(t) == LaunchBatched(t) \/ LaunchUnresolved(t) \/ LaunchUnbatched(t)
Proceed(t) ==
  \/ Reap(t) \/ KeepPending(t) \/ WaitForLaunch(t)
  \/ DrainWait(t) \/ DrainReturn(t) \/ BlitCommit(t) \/ BlitWait(t)

Next ==
  \/ DeviceStep
  \/ \E t \in Threads : Launch(t) \/ Proceed(t) \/ StartDrain(t) \/ StartDestroy(t)

Spec == Init /\ [][Next]_vars

(* A thread inside a call runs on, and the device runs what is committed; *)
(* nobody has to make a further call.                                     *)
Fairness == WF_vars(DeviceStep) /\ \A t \in Threads : WF_vars(Proceed(t))
FairSpec == Spec /\ Fairness

-----------------------------------------------------------------------------
(* "Never hold more than a few committed buffers in flight": in batched    *)
(* mode at most kMaxPendingBuffers are committed, unfinished and waited    *)
(* for by no thread.                                                       *)
InFlightBounded ==
  mode = "batched" =>
    Cardinality({cb \in Buffers :
                   /\ status[cb] = "committed"
                   /\ \A t \in Threads : cb \notin Range(waiting[t])})
      <= kMaxPendingBuffers

(* Every field of the context and every thread's local has its type; the   *)
(* open batch is never full and few buffers are in flight.                 *)
TypeOK ==
  /\ mode \in {"batched", "queued", "sync"}
  /\ status \in Seq({"encoding", "committed", "done", "failed"})
  /\ queue \in Seq(Buffers) /\ pending \in Seq(Buffers)
  /\ openBatch \in Buffers \cup {None} /\ deferredError \in Buffers \cup {None}
  /\ openBatchDispatches \in 0..(kMaxBatchDispatches - 1)
  /\ pc \in [Threads -> {"idle", "reap", "queued", "sync", "drain", "blit"}]
  /\ op \in [Threads -> Calls \cup {"none", "destroy"}]
  /\ waiting \in [Threads -> Seq(Buffers)]
  /\ released \in [Buffers -> Nat]
  /\ calls \in 0..MaxCalls
  /\ launches \subseteq [by : Threads, in : Buffers] /\ reported \subseteq Buffers
  /\ InFlightBounded

(* The buffers to which a reference is held: by the context, in openBatch  *)
(* or pending, or by a thread that will wait for them.                     *)
Held ==
  {openBatch} \cup Range(pending) \cup UNION {Range(waiting[t]) : t \in Threads}

(* No buffer is held twice. *)
OneHolder ==
  /\ IsInjective(pending) /\ openBatch \notin Range(pending)
  /\ \A t \in Threads :
       /\ IsInjective(waiting[t])
       /\ Range(waiting[t]) \cap (Range(pending) \cup {openBatch}) = {}
       /\ \A u \in Threads \ {t} : Range(waiting[t]) \cap Range(waiting[u]) = {}

(* "openBatch is retained when opened; ownership moves to pending at       *)
(* commit; pending buffers are released once waited": however launches,    *)
(* backpressure and drains interleave, a command buffer has exactly one    *)
(* holder until it is released, and it is released once, after the device  *)
(* has finished with it.                                                   *)
OwnedUntilWaited ==
  /\ OneHolder
  /\ \A cb \in Buffers :
       \/ cb \in Held /\ released[cb] = 0
       \/ cb \notin Held /\ released[cb] = 1 /\ Finished(cb)

(* A drain of another thread still waits for the buffer, or for one behind *)
(* it in the queue.                                                        *)
DrainedByAnother(t, cb) ==
  \E u \in Threads \ {t} :
    /\ pc[u] = "drain"
    /\ \E i, j \in DOMAIN queue :
         i <= j /\ queue[i] = cb /\ queue[j] \in Range(waiting[u])

(* drainPending is "the host-observation boundary": when it has waited,    *)
(* every kernel its thread launched before has landed, also those whose    *)
(* buffer another thread's launch took out of pending as the oldest; only  *)
(* what a drain of another thread took and still waits for may be running, *)
(* so that a thread that drains alone sees all its kernels.                *)
DrainObserves ==
  \A t \in Threads :
    pc[t] = "drain" /\ waiting[t] = <<>> =>
      \A l \in launches :
        l.by = t => Finished(l.in) \/ DrainedByAnother(t, l.in)

(* "Teardown may not strand queued work": when destroyContext deletes the  *)
(* context, every command buffer was committed, has finished and was       *)
(* released, so every launch that returned has run.                        *)
DestroyStrandsNothing ==
  Destroyed => \A cb \in Buffers : Finished(cb) /\ released[cb] = 1

(* Every thread is outside of a call again and again: a call that waits    *)
(* for the device returns.                                                 *)
CallsReturn == \A t \in Threads : []<>(pc[t] = "idle")

(* "First async failure, surfaced at next drain": when synchronize finds   *)
(* no error to return, some call has been given the error of the first     *)
(* command buffer that failed.                                             *)
FailureSurfaces ==
  \A t \in Threads :
    LET failed == {cb \in Buffers : status[cb] = "failed" /\ released[cb] = 1} IN
    pc[t] = "drain" /\ op[t] = "synchronize" /\ waiting[t] = <<>>
      /\ deferredError = None /\ failed # {}
        => \E cb \in failed : cb \in reported /\ \A x \in failed : cb <= x
=============================================================================
