# Specifications of the MojoMacX64 runtime and serving stack

This directory holds TLA+ specifications of the concurrent parts of the
MojoMacX64 runtime and of the MAX serving stack, the TLC models that check them
on small instances and TLAPS proofs that hold for every instance.

## The system

The repository is a port of a Mojo tool chain to Intel Macs. Its parts:

* **AsyncRT** (`AsyncRT/`), the runtime every compiled program links against.
  It runs work items on a pool of threads (`ThreadPoolWorkQueue`), on one thread
  (`SingleThreadWorkQueue`) or on a pool somebody else owns
  (`DelegateThreadPoolWorkQueue`). Results travel in `AsyncValue`s, futures that
  run waiters when they become ready; `Algorithms.h` builds joins and parallel
  loops from them. Each worker owns a `LockFreeRingBuffer` for the tasks that
  must run on it.
* **VegaRT** (`AsyncRT/lib/MojoBindings/`), the device runtime of the port: a C
  interface with reference-counted contexts, buffers, functions and events, over
  a Metal back end that batches kernel launches into command buffers.
* **Cache** (`Cache/`), a blob cache of chained back ends (memory, file system)
  used by the compiler, with `CachedTransform` on top.
* **Support** (`Support/`): locked file operations, temporary files, reference
  counts, logging, telemetry, configuration.
* **MAX** (`max/`): kernels, the Python code that builds and runs models, and a
  serving stack. An API process sends requests to a model worker, whose
  scheduler (`TokenGenerationScheduler`, with `TextBatchConstructor`) takes KV
  memory from a paged cache (`BlockManager`, `BlockPool`) with a prefix cache
  and copies to host memory. Serving may be disaggregated: a prefill worker
  encodes prompts and writes their KV into the memory of a decode worker.
* **KGEN** (`KGEN/`), the compiler, language server and debugger support;
  **mojo/** the standard library.
* **Roast** (`ide/`), an editor in Mojo with LSP and DAP clients and a build queue.

`PROJECT.json` lists all of them, with the reason for each part left out, the
source lines every definition stands for, and the hazards the models aim at.

How the modelled parts interact: a program adds work items to the pool; an
affinity item goes into its worker's ring buffer, other items into a global
list. A work item ends by completing an `AsyncValue`, whose waiters add further
items or wake a thread in `await`. Kernel launches go to the Metal back end,
which is used from any thread. In the serving stack a client's request goes
through the request queue to a scheduler. The scheduler asks the block manager
for memory for every batch and reports tokens on the response queue; a client
that leaves sends a cancellation on a queue of its own. In disaggregated serving
the decode scheduler reserves blocks, sends their ids to the prefill scheduler
over a socket, and learns from its reply which transfer to wait for.

## Modules

| module | models |
| --- | --- |
| `BoundedFIFO` | abstract: what a worker's affinity list promises |
| `LockFreeRingBuffer` | `AsyncRT/include/AsyncRT/Support/LockFreeRingBuffer.h` |
| `RingBufferAnswers` | the same with an observer of the moments it was empty |
| `LockFreeRingBufferProofs` | the invariants of the ring buffer and that it implements `BoundedFIFO`, proved |
| `ThreadPoolWorkQueue` | `AsyncRT/lib/Runtime/ThreadPoolWorkQueue.cpp` |
| `ThreadPoolWorkQueueInvariant` | its inductive invariant; the steps of the loop and of `addTask` keep it |
| `ThreadPoolWorkQueueProofs` | the other steps keep it; that the pool's lists are not left to sleeping workers, proved |
| `Future` | abstract: what an asynchronous value promises |
| `AsyncValue` | `AsyncRT/.../Runtime/AsyncValue.h` and `AsyncValue.cpp` |
| `AsyncValueInvariant` | its inductive invariant; the steps of `andThenSync` keep it |
| `AsyncValueSteps` | the steps that complete a value keep it, and each is a step of `Future` or none |
| `AsyncValueProofs` | the reference counts; waiters conserved, no use after free, no leak, and that it implements `Future`, proved |
| `VegaRTMetal` | the launch queue of `AsyncRT/lib/MojoBindings/VegaRTMetal.cpp` |
| `VegaRTMetalProofs` | ownership of command buffers, teardown, what a drain observes and the limits on batches and buffers in flight, proved |
| `DisaggregatedServing` | `decode_scheduler.py` and `prefill_scheduler.py` of `max/python/max/serve/scheduler/` |
| `DisaggregatedServingProofs` | its inductive invariant, lemmas about queues, one lemma per step, the theorems |
| `TextGenerationScheduler` | `text_generation_scheduler.py` and `batch_constructor/text_batch_constructor.py` of the same directory |
| `PagedBlockManager` | `block_manager.py` and `block_pool.py` of `max/python/max/pipelines/kv_cache/paged_kv_cache/` |
| `MC...` | the instances TLC checks |

In the C++ modules one action is one access to state another thread can see: an
atomic, a slot written with a plain store, a semaphore, or a region under a
mutex. Local computation belongs to the access before or after it. In the Python
modules a worker is one thread, and one action is one turn of a loop or one call
whose result the rest of the iteration depends on. The atomics
are sequentially consistent in the models; the orderings weaker than that in the
source are not examined. An operator whose name ends in `_Something` after the
name of a definition (`Full_Late`) is that definition with a bug; the properties
are checked to notice it.

### LockFreeRingBuffer

The four counters (`readIndex`, `writeIndex`, `consumed`, `published`) and the
slots are variables; a thread has a program counter and the locals of `enqueue`
or `dequeue`. A weak compare-exchange may fail for no reason. Subtraction in the
full-check is modulo `IndexModulus`, the width of the counters; the indices
themselves do not wrap (2^64 calls). `claimed` is a history of the items in claim
order. `MaxEnqueues` bounds a behaviour.

`BoundedFIFO` is the abstract queue. The mapping takes the items between
`readIndex` and `published` for the queue, so `enqueue` takes effect when it
publishes and `dequeue` when it claims.

### ThreadPoolWorkQueue

Every thread has a stack of activation records, because a task may await and so
re-enter `runItemsImpl`. The lists (`taskList`, `overflowTaskList`, and per worker
`affinityTaskList`, `localSpillQueue`, `localTaskList`), the semaphores, the bits
of `suspendedThreads` and `doneFlag` are variables. The actions follow
`addTask`, `addLocalTask`, `await`, `runItemsImpl` from look to look, the callback
that counts down and posts, and `shutdown`. What tasks and outside threads call
is a constant (`Body`, `Program`), because the pool runs what it is given. The
assertions at the head of `shutdown` restrict who may call it (`MayShutdown`).

This module composes the others through what they promise: the affinity list is
an exact bounded queue (`BoundedFIFO`, which the ring buffer implements, except
that `enqueue` may also refuse when it is not full), and a value is ready or not,
with callbacks that run once (`Future`). The external lock-free list is an exact
set that may refuse an item when `TaskListMayFail`.

### AsyncValue

The state word (`waitersAndState`: a list of waiter nodes and a state), the
storage shared by the inline waiter and the result (`payload`), the reference
counts and the nodes are variables. `andThenSync` is the actions from `Load` to
`Return`, completion the actions from `RemoveNoWaiter` or `TakeInlineWaiter` to
`ListDone`, and an indirect value is resolved at once (`ResolveReady`) or by a
waiter on its target (`ResolveLater`). Which value each waiter waits on is the
constant `Target`. `Future` is the abstract specification; the mapping keeps
only the outcome of each value and how often each waiter ran.

### VegaRTMetal

One context. The fields of `VRMetalCtx` are variables, with the state of every
command buffer, the order of commits and, per thread, the buffers it waits for.
A region under `ctx->mu` is one action, so a batched launch is one, and a drain is
a swap, one wait per buffer and a final report. The launch mode, which the source
reads once from the environment, is chosen in `Init`. The device is external: it
runs committed buffers in order and any of them may fail. What a kernel computes,
the arguments and the buffers are left out; an argument that does not resolve is
the action `LaunchUnresolved`. `destroyContext` is called when no other thread uses
the context.

### DisaggregatedServing

The decode worker and the prefill worker each repeat `run_iteration`; `dpc` and
`ppc` say which part of it they are at, and `DecodeStep` and `PrefillStep` list
the parts in the order of the code. `toPrefill` and `toDecode` are the sockets,
which keep their order. `phase`, `replica_idx`, `cancelled` and `expired` are the
decode worker's records (`prefill_reqs`, `inflight_transfers`), `held` the blocks
of each request, `tg` and `prevBatch` the batch that runs and the one the
overlapped pipeline answers for. On the prefill side a request passes
the grammar gate (`gate`), the queue `ce`, `pending_first_token`, and the loop of
`schedule` over the responses (`responses`), in which
`initiate_transfer_and_send_reply` posts its write. Outside both: clients that
submit and leave, the clock (`Age`) and the transfer engine (`Land`), which may
land a posted write at any time or never. `answer` is what the client was
told. Any response of the prefill worker may carry a token that ends its request
(`"first"`: an EOS token, or a limit of one). `check_for_completed_transfers` lets
it run all the same, so its end is reported again (`"twice"`); any other result
after a terminal one makes the answer `"repeated"`.

The batch constructor is reduced to the set of running requests and the
prefill queue, and a request does not outgrow its blocks. `TextGenerationScheduler`
has the constructor in full.

### TextGenerationScheduler

One replica. `pc` runs through an iteration: requests are taken from the queue
up to `max_pending_requests`, grammars that are built and onloads that have
ended release their requests, a batch of prompts (CE) or of generation steps (TG)
is built under the token budget and the pool of blocks, it is executed, the
answers go out and cancellations are handled. The loops that build the batch
are one step per request, because each allocation may fail and preempt
another request. An allocation first reuses the longest prefix of the prompt that is
cached, in host memory or in a block on the device, and skips its tokens; a hit in
host memory cordons the request until the copy has landed. All copies of one
allocation land together. The pipeline overlaps (`execute`): `prev` is the batch whose
tokens the next execution returns. `config` is chosen in `Init` from
`Configs`: chunked prefill, in-flight batching and the scheduling strategy. `dead`
is the `InsufficientBlocksError` that ends the worker.

### PagedBlockManager

`pool` holds the reference counts, hashes and free queue of `BlockPool`; `op` is
the call in progress, so that copies end (`transfers`) between the parts of an
allocation: reuse of cached blocks on the device, onload of blocks
held by the host, and new blocks. A request is a sequence of block hashes;
requests with the same prefix share them. `content` is what the
memory of a block really holds, which no code reads, and against which the
properties compare what the code believes.

## Runs

| run | shows | distinct states |
| --- | --- | --- |
| `ring` | 2 producers, 1 consumer, 2 slots, 3 enqueues: the inductive invariant of the proofs; refinement of `BoundedFIFO`; "nothing to take" is answered only if the buffer was empty at some moment of the call; every call returns | 36 thousand |
| `pool_nested` | a task awaits and re-enters the loop, the main thread donates itself, a foreign thread adds, shutdown comes while a task nobody awaits may wait: nothing lost, run twice or left to sleepers; a finished shutdown leaves behind only tasks of the pool threads' own lists; all awaits and the shutdown return | 99 thousand |
| `pool_short_lists` | lists of one slot and a list that refuses, one bit per worker and one bit for both: nothing lost through the spill and overflow lists, affinity kept, `await` returns only when its values are ready, the tasks of the global and the affinity lists not left to sleepers | 244 thousand |
| `async_crowd` | 4 waiters race to register with a completion, nodes of 2: none dropped or doubled, nothing used after it is freed | 53 thousand |
| `async_chain` | a chain of two indirect values: results reach the end, references all dropped, waiters run; refinement of `Future` | 225 thousand |
| `metal_two_threads` | 2 threads launch and drain, one with `hostPtr` and blits, one with `synchronize`: ownership of command buffers, what a drain observes, teardown, every call returns | 622 thousand |
| `metal_errors` | *violated*: a failed launch that no call reports | |
| `serve_disaggregated` | 2 requests, one as large as the pool and with a grammar, cancelled, expired or done with the first token anywhere: nothing after the terminal answer (but one second end after a first token that was the last), a request runs on its own landed cache, known writes pin their blocks, every request is answered even if the prefill worker stops | 363 thousand |
| `serve_cancel_awaiting` | *violated*: blocks released under a running write | |
| `sched_preempt` | 3 requests that outgrow 4 blocks, in 8 configurations: each in one place, KV for all that was processed, no pass over a prefix still being copied, no delivered token lost or made up by preemption, one terminal answer, every request answered | 89 thousand |
| `sched_fatal` | *violated*: the worker dies although a queued request holds blocks | |
| `kv_shared` | 2 requests with the same tokens on 3 blocks, 3 copies in flight: exact reference counts, every pass reads its own prefix, cached and copied blocks hold what they are listed for | 184 thousand |

### Why the bounds are enough

* Ring buffer: the third enqueue on 2 slots begins the second lap, so an index meets
  its slot again while the slower thread of the first lap is still in it. Two
  producers give a claim that loses, a publisher that waits for a predecessor and
  a stale view of each counter. A worker's list has one consumer, and only then is
  the answer "nothing" exact. The proofs cover every other number and size.
* Pool: two workers are the least with one asleep and one awake; one bit for
  both is the case of more workers than bits; one affinity slot sends the second
  task to the spill queue. In `pool_nested` main adds a task of the other worker
  that nobody awaits, so that this worker may stop, after its looks and before its
  test of `doneFlag`, with the task in its list.
* AsyncValue: nodes of 2 waiters, with 4 waiters, fill the inline slot, a node
  and start a second. The chain has one concrete value, one indirect value that waits
  for it and one that waits for an indirect value.
* Metal: batches of 2 and 1 pending buffer: 4 calls fill a batch twice, which
  triggers backpressure, or leave one open with and without a dispatch. Two threads
  that drain let one find nothing pending because the other has taken it. Which thread
  makes which calls (`CallsOf`) is fixed, as the threads are otherwise alike.

* Disaggregated serving: with 2 blocks, one request that needs both and one that
  needs one, a reservation fails until another request's blocks come back, and
  blocks pass from one request to the other. Two prefill slots let one
  request be encoded while the other's transfer runs. Two tokens give an overlapped
  batch whose request has ended. One replica: with more, only the choice of the
  replica changes, and the proofs cover any number.
* Scheduler: prompts of 1, 2 and 3 tokens and blocks of 2 tokens make one prompt need
  chunks under a target of 2 tokens, and let all three requests start and then
  outgrow 4 blocks, so that generation preempts. One request has a
  grammar and one waits for an onload.
* Block manager: one hash shared from the start and one that a request computes
  while the other may already have it; 3 blocks are one fewer than two full
  requests need, so cached blocks are evicted; 3 copies in flight let an onload, an
  offload and one more overlap.

### Fairness

* `LockFreeRingBuffer`: a thread inside a call keeps running, and a
  compare-exchange that is tried again and again succeeds in the end. The source
  retries in a loop; it is lock-free, not wait-free, so this is an assumption about
  the scheduler and the processor. Nobody must start a call.
* `ThreadPoolWorkQueue`: every thread is scheduled, and a worker's spin before
  sleeping ends (`busyWaitTime` is finite).
* `AsyncValue`: weak fairness of the whole system. Each behaviour is finite
  apart from spins and spurious failures, which are stuttering steps, so this says
  no more than that threads do not stop.
* `VegaRTMetal`: the device runs what is committed, a thread in a call runs on;
  nobody must call.

* `DisaggregatedServing`: the decode worker's loop never blocks, and time passes.
  Nothing is assumed of the prefill worker and of the transfer engine; the TTL is
  there for the case that they stop.
* `TextGenerationScheduler`: the loop runs, grammars are built and onloads end.
  Clients need not do anything.

Deadlock is not checked where the system really may stop: the pool after
`shutdown` (`pool_nested`) or with a task left in a full list
(`pool_short_lists`), the Metal runs when the context is destroyed, and
the scheduler runs when the worker has died of a lack of blocks.

### Where the code and its comments disagree

* `metal_errors`: `VegaRTMetal_hostPtr` drops the error that `drainPending` has
  just cleared.
* `serve_cancel_awaiting`: the comment at decode_scheduler.py:366 says that no
  transfer can be in flight while a request awaits its prefill response, and
  releases its blocks at once. The prefill worker posts the transfer before it
  sends the response.
* `sched_fatal`: the comment at text_batch_constructor.py:1182 says that only a
  genuine lack of blocks is fatal. A request in the CE queue may hold blocks
  too; it is not preempted, and the worker dies.

### Known deviations

Instances other than the runs above, whose properties TLC violates. Each is the
behaviour of the code; the constants reproduce it.

* `PoolShortLists.cfg` with `TaskListMayFail = FALSE` and `AffinityTaskSeen`: the spill
  queue is emptied before a worker marks itself suspended and not looked at again, so
  a spilled task may be left to a sleeping worker (ThreadPoolWorkQueue.cpp:732).
* `PoolNested.cfg` with an invariant that says that all tasks added have run when all
  threads have ended: a spinning worker tests the stop flag after it looked into the
  lists, and abandons what was added to its affinity list in between, although the
  comment at ThreadPoolWorkQueue.cpp:845-847 promises a drain. `ShutdownDrains` says how
  far this goes with a donating main thread, who serves the local, the global and its
  own list. Without one (`MainWillDonate = FALSE`) a task of the global list may be
  abandoned too.
* `MetalTwoThreads.cfg` with `DrainObserves` without `DrainedByAnother`: `drainPending`
  takes the pending buffers away before it waits. A second thread finds nothing
  pending and returns before its kernel has landed. Blit copies are not
  affected: their own buffer comes later in the queue. `DrainObserves` allows exactly
  this: what a drain of another thread has taken and still waits for.
* `Ring.cfg` with two consumers and `NoItemMeansEmpty`: a consumer that loses a
  claim may answer "nothing" although the buffer was never empty.
* `ServeDisaggregated.cfg` with the invariant `answer[r] # "twice"`: a request done
  with its first token is reported done by `handle_prefill_response` and queued for
  generation by `check_for_completed_transfers` all the same
  (decode_scheduler.py:499), so its end is reported twice. `OneTerminalAnswer` allows
  this second end and nothing else.
* `KnownWritePinsBlocks` without its exception for the TTL: an eviction releases blocks
  that a running transfer still writes (decode_scheduler.py:430). The code takes
  this risk knowingly.
* `SchedPreempt.cfg` with `NumBlocks = 3`, `Cached = {}`, the strategy `prefill_first` and
  `EveryRequestAnswered`: as long as a queued prompt cannot get blocks, the
  generation that would free them is not scheduled
  (text_batch_constructor.py:1273). With the usual strategies three blocks do.

Also met: with a bit per thread the donating main thread may leave
`await` with its bit set, and a later wake-up goes to it instead of to a worker
(ThreadPoolWorkQueue.cpp:824); `enqueue` may report full on a buffer that is not
(LockFreeRingBuffer.h:73), which costs the pool a detour through the spill queue.

## Proofs

### Ring buffer

`LockFreeRingBufferProofs` proves, for every number of producers and consumers,
every size and every bound on the calls:

* `RingInvariant`: `Spec => []RingInv`, and from it
* `TypeCorrect`, `CountersInOrder`, `NeverOverwrites`, `SlotsNeverRace` and
  `TakesWhatWasClaimed`.

Assumptions: `size` is a power of two (`SizeAssumption`, the
assertion in the constructor), the empty item is not an item, the bounds are numbers. Indices
do not wrap.

None of the properties is inductive alone. `RingInv` adds who owns which index
(`IndicesOwned`: a writer's lies between `published` and `writeIndex`, a reader's
between `consumed` and `readIndex`, each with one owner), that a stale view errs
on the safe side (`ViewsSafe`: if the index to be claimed is still current, the
check made before still holds, because the other counter only grows), what each slot of
the window from `consumed` to `consumed + size - 1` holds (`SlotsHold`) and what a
thread carries (`HandsHold`). The arithmetic is in lemmas about `slot`: it is
injective on a window of `size` indices (`SlotInjective`) and periodic
(`SlotPeriodic`). One lemma per action shows that it keeps `RingInv`.

It also proves `RingImplementsFIFO`: the buffer implements
`BoundedFIFO`. The slots from `readIndex` to `published` are the queue. Publishing
an index is `Put`, claiming one to read is `Take`, and consuming it is `Return`. Writing
a slot leaves the queue alone, because the slot lies outside it; that, and that
the item read is the head of the queue, follows from `RingInv`. Every other
step stutters.

### Thread pool

`ThreadPoolWorkQueueProofs` proves, for every number of workers and of foreign threads,
every width of the bit vector, every capacity of the affinity lists, a global list that
may refuse or not, and all tasks and programs:

* `PoolInvariant`: `Spec => []PoolInv`, and from it
* `ListsAlwaysSeen`: a task in the global list or in an affinity list is not left to
  workers that all sleep, if no main thread donates itself;
* `AffinityListAlwaysSeen`: the affinity lists' half of it, with a donating main
  thread too;
* `TypeCorrect`.

The hypothesis on the main thread is needed: it may leave `await` with its bit set,
and the next wake-up goes to it (ThreadPoolWorkQueue.cpp:824). Assumptions:
`PoolAssumption` (there is a worker, a bit, a slot) and `ProgramAssumption` (tasks and
programs make calls of the interface, and only the thread that the assertions in
`shutdown` allow shuts the pool down).

`PoolInv` has three parts. `Stacks` says which activation records a thread can have: a
record below the top is at a place from which something was called, only workers run the
loop, and a pool thread's stack stands on `runOnThread` until shutdown. `Data` says
that the lists hold what was added and that the index of a local list stays inside
it, although a task that awaits clears the list under the loop that runs it. `Wakeups`
is the protocol between `addTask` and a worker on its way to sleep:

* `BitOrToken`: a worker between `markSuspended` and its sleep has its group's bit set, or
  has a token or is about to get one; whoever takes the bit owes the group its tokens;
* `AffinityWoken`: if it has looked into its affinity list for the last time and the list
  is not empty, then an `addTask` is about to look at the bits, or it is woken;
* `GlobalWoken`: if the global list is not empty and no `addTask` is about to look, then
  some worker is not past its last look, or is woken.

The last two rest on the first: the `addTask` that looks finds the bit, or the token. With
a shared bit it wakes the whole group. With no bit set at all, every worker is awake or
woken. The part that the other threads can see of a thread is the record on top of its
stack (`Tops`), so most actions are covered by a few lemmas about steps that are quiet in
this sense, and only the looks, `markSuspended` and `addTask` need an argument of
their own. That `2^n >= n`, which `multicastFactor` needs, is proved by counting
the subsets of `1..n`; where the least of a set of numbers is taken, that it exists follows
from the well-foundedness of `<` in the library.

### Asynchronous values

`AsyncValueProofs` proves, for all values and targets (chains of indirect values of any
length), every finite set of waiters and every size of a list node:

* `AsyncInvariant`: `Spec => []AsyncInv`, and from it
* `WaitersAreConserved`: a waiter is in exactly one place until it has run, once;
* `NothingUsedAfterFree`: no thread touches a destroyed value or a deleted node;
* `NothingIsLeaked`: when all calls have returned, all values are destroyed and all
  nodes deleted;
* `TypeCorrect`: among others that the storage of a value, a union, holds what
  its state says, and that a ready indirect value refers to a concrete one that is alive;
* `FutureImplemented`: `Spec => ImplementsFuture`. Exchanging the state word completes a
  value, running a closure runs its waiter, every other step stutters.

Assumptions (`AsyncValueAssumption`): a node has at least two slots, a waiter waits on one
value, a value is concrete or indirect, the waiters are finitely many.

`AsyncInv` relates the parts of the protocol. For a value: its state word and
how far its completion is (`WordInv`), what its storage holds (`PayloadInv`), its outcome and
its target's (`SetInv`). For an `andThenSync`: what it has read (`ReadInv`), that it has the
storage for itself while it writes the inline waiter (`WriteInv`), and the slot of a node
for itself once it has claimed it (`ClaimAt`), although the completing thread may have taken
the list meanwhile. For the nodes: `NodeInv` says that they form lists, `SlotsAt` which
slots are filled, and `ReachInv` that every set of live nodes can be entered from a head.
That is reachability without induction over the list, and it is why no node leaks. `PlacesInv`
says that the places of waiters are disjoint and cover all of them, and `RefInv` that a
reference count is the number of owners (callers, indirect values that refer to the
value, its completion) and that a value is destroyed when the last one goes. There is one lemma per
action; others say which parts of the invariant a step cannot disturb. A second
invariant, `MoreInv`, proved on top, says what storage without a result may hold.

### Disaggregated serving

`DisaggregatedServingProofs` proves, for every set of requests, replicas and
blocks, every size of batches and every number of prefill slots, with and without a TTL:

* `ServingInvariant`: `Spec => []Inv`, and from it
* `AnsweredOnce`: no result follows a terminal one; only a request that was done with
  its first token is told its end once more (known deviations), and then no more;
* `RunsOnOwnCache`: a request starts to generate only on a landed write into exactly
  the blocks it holds;
* `KnownWritePins`: the blocks of a transfer the decode worker knows of change hands
  only after it has landed or the TTL has passed;
* `AccountsInvariant`: `Spec => []Accounts`, and from both invariants
* `TypeCorrect`: among others that the counter of a replica is the number of its
  recorded requests, and that what the prefill worker has encoded can be sent.

Assumption: `MaxBatch` and `PrefillSlots` are natural numbers, and a request may generate
at least one token (`MaxTokens`).

The argument of `Inv` follows a request. It waits at most once (`WaitsOnce`). Once
reserved, its prefill side is at exactly one station: asked for on `toPrefill`, behind
the grammar gate, in `ce`, in `pending_first_token`, in `responses`, or answered
on `toDecode` (`OneStation`). It is at none of them once the decode worker knows
of its transfer, nor while it runs, and it is never both recorded and running
(`Recorded`). So a response that comes late finds no younger record
of the same request. The blocks named to the prefill worker are the blocks held, as
long as the request is recorded (`OwnBlocks`). A request with a terminal answer neither
waits nor runs, and if it is still recorded it is marked cancelled (`Ended`), so that its
transfer's end releases it in silence. One done with its first token may still wait for
its transfer or run; the first batch that answers for it ends it, and from
then on it is like the others. Without the stations none of these survives a
late response; without `Ended` a cancelled request could be answered again.
`Room` bounds what the prefill worker has encoded, which the slices of its queue need.
There is one lemma per action; lemmas about queues (what `Append`, `Tail` and a slice do to the
ids in a queue) come first.

`Accounts` is proved on top of `Inv`. `Counted` keeps the counters exact on every way in
and out of `self.requests`: a reservation, a cancellation, an eviction, and a batch of completed
transfers, where several requests of several replicas leave in one step. `Budget` says
that whoever may still run has tokens left: the batch lets go of a request with
its last one, and no step brings back a request that can no longer run. `Addressed` says
that the decode worker's metadata has been handled or is ahead, on `toPrefill`, of every
request for prefill, and that a reply context is dropped only with its request;
the latter needs `OneStation`.

### Metal back end

`VegaRTMetalProofs` proves, for every number of threads and whatever calls each makes, of calls, of
dispatches in a batch and of pending buffers, and in every launch mode:

* `MetalInvariant`: `Spec => []Inv`, and from it
* `Ownership`: a command buffer has exactly one holder until it is released, once,
  after the device has finished with it;
* `TeardownStrandsNothing`: when the context is deleted every command buffer has
  finished and was released.

Assumptions: a batch has room for a dispatch and pending for a buffer
(`MetalAssumption`). `OwnedUntilWaited` alone is not inductive. `Inv` adds that the open
batch is still being encoded and not in the queue (`Device`), that a thread waits for as
many buffers as the call it is in allows (`Locals`: an idle one for none), and that the
thread that tears down has taken everything while the others are idle (`Teardown`).

It also proves `DrainObservesLaunches`: with any number of threads that launch and drain,
a drain that has waited sees every kernel its thread launched landed, except
those that a drain of another thread has taken and still waits for, or that are ahead of
one of these in the queue. A thread that drains alone sees them all. There are two
difficulties. Another thread's launch takes the oldest buffer out of pending
(backpressure), and another thread's drain takes all of them, so that the drain no longer
waits for them. The invariant `Ahead` says that every launched buffer that has not
finished is in the batch to be committed or ahead, in the queue, of one that is awaited: by
the drain itself, by another drain, or in pending. The batch just committed stays in
pending, because pending has room for one, and the device finishes in order. `Backpressure` says that in batched mode pending is never too long, so
that a launch which commits nothing takes nothing out.

And it proves `TypeCorrect`, for any number of draining threads: the open batch is
never full, and in batched mode at most `kMaxPendingBuffers` buffers are committed,
unfinished and waited for by nobody. By `OwnedUntilWaited` such a buffer is in `pending`, and
`Backpressure` bounds that.

### Only model-checked

* All liveness (`CallsReturn`, `Terminates`, `WaitersRun`, the answers to requests):
  fairness and `ENABLED` are beyond the proof system.
* Pool: `TasksConserved` (it counts over all lists and stacks), the spill queue's
  part of `WorkSeen`, which is false for some instances (known deviations),
  `ShutdownDrains` and `AwaitReturnsReady`.
* Ring buffer: `NoItemMeansEmpty`, which depends on there being one consumer and on a history
  of the moments at which the buffer was empty.
* Metal: which errors are reported.
* The scheduler and the block manager: everything.

## Not modelled

`PROJECT.json` has the reason for each part. The greater part of the repository, about
four hundred thousand lines, is Python that builds graphs, layers and model
architectures, the compiler, the standard library and numeric kernels. They transform
data in one thread and have no protocol of the kind these tools check. The models are about
the few files that hold the concurrency; as a share of all lines these are well below
one percent, and no faithful model would make it much more.

Within the modelled files:

* pool, values and Metal: worker statistics, the weak memory
  orders, `setToError` on an indirect value and type identifiers of `AsyncValue`,
  the address registry, device discovery and function loading of the Metal back end;
* disaggregated serving: restarts of a worker and the stall watchdog, several prefill
  endpoints, chunked prefill, cached prefixes in the destination, draft tokens;
* scheduler: LoRA adapters, data-parallel replicas with their planner and padding,
  `TotalContextTokenBudget`, the minimum chunk, speculative decoding;
* block manager: connectors that copy in stream order, copies between replicas, null
  blocks and dummy requests, the runtime checks.

Hazards met on the way that no property covers:

* a post still inside `Semaphore::post` when the waiter returns
  (ThreadPoolWorkQueue.cpp:1258), and overflowed tasks for which nobody is woken
  (1159, which the comment there admits);
* which of several failures a drain reports (VegaRTMetal.cpp:1025), unbounded pending
  buffers in the unbatched mode (1038), an unretained buffer (254);
* the cancellation of a request that still waits is dropped and the request runs for a
  client that has left (decode_scheduler.py:349); cancellations that come too late
  stay recorded (prefill_scheduler.py:125); a restarted prefill worker is not told
  the metadata again (237);
* deferred LoRA requests on early returns (text_batch_constructor.py:1072); a stream
  that is never iterated stays registered (zmq_interface.py:163);
* cached prefixes evicted for a host miss (block_manager.py:749), holes in a cached
  chain (1037), a runtime check that a lost race of onloads would fail (1310);
* `parallelForEachN` over zero items (Algorithms.h:373), a lock file not created after
  waiting for another's (FileSystemExtras.cpp:100), concurrent insert and prune
  (BlobCache.cpp:233).

## Plan

1. `Algorithms`: joins, `parallelForEachN` and fork-join over `Future`
   (abstract: a counter that fires once), including zero items.
2. `SingleThreadWorkQueue` and `DelegateThreadPoolWorkQueue` as further
   implementations of the `WorkQueue` interface, against one abstract
   specification that the pool is shown to implement too.
3. `VegaRT`: reference counts of contexts, buffers, sub-buffers and functions above
   `VegaRTMetal`, with the address registry.
4. `LockedFile` and `BlobCache`: processes with crashes around a lock file; the chain
   of back ends with concurrent insert, find and pruning.
5. Data-parallel replicas in `TextGenerationScheduler`, and its composition with
   `PagedBlockManager` in place of the count of blocks.
6. Roast: the request tables of the LSP and DAP clients, the build queue, the rope
   and the UTF-8 reader as operators against reference definitions.

Theorems to add: `AwaitReturnsReady` and `TasksConserved` of the pool; exact reference
counts of `PagedBlockManager`; that a request is in one place in `TextGenerationScheduler`.
