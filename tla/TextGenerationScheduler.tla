----------------------- MODULE TextGenerationScheduler -----------------------
(***************************************************************************)
(* The text generation scheduler of a model worker and its batch           *)
(* constructor, on one replica.  An iteration takes new requests, builds a *)
(* batch of context encoding (CE, prompts) or token generation (TG) work   *)
(* under a token budget and a bounded pool of KV blocks, runs it and       *)
(* answers.  The loops of the constructor are steps of their own: pc says  *)
(* where the iteration is.                                                 *)
(*                                                                         *)
(* The pipeline overlaps: running a batch returns the tokens of the batch  *)
(* before and leaves one placeholder token on every request of this one.   *)
(*                                                                         *)
(* Outside the scheduler: clients that submit and leave, grammars that are *)
(* built on other threads, and KV onloads from host memory.  LoRA adapters *)
(* and data parallel replicas are left out.                                *)
(***************************************************************************)
EXTENDS Integers, Sequences, FiniteSets, FiniteSetsExt

CONSTANTS
    Requests,
    Cancellable,          \* the requests whose client may leave
    Constrained,          \* the requests with a grammar to build
    Cached,               \* the requests whose prompt's KV is in host memory,
                          \* as far as it fills whole blocks
    Prompt,               \* Prompt[r]: tokens of the prompt
    MaxLength,            \* MaxLength[r]: tokens at which generation ends
    BlockSize, NumBlocks, \* tokens in a KV block, blocks in the pool
    MaxBatchSize,         \* scheduler_config.max_batch_size
    TargetTokens,         \* target_tokens_per_batch_ce
    MaxPending,           \* max_pending_requests
    Configs               \* records of enable_chunked_prefill, as chunked,
                          \* enable_in_flight_batching, as inFlight, and
                          \* batch_scheduling_strategy, as strategy

VARIABLES
    config,               \* the scheduler_config of this worker
    submitted, left, requestQueue, cancelQueue, answer,
    matcher,              \* matcher[r]: "none", "building", "ready" or "error"
    onload,               \* onload[r]: "none", "in_flight" or "complete"
    pc,
    bound,                \* _bound_requests
    ce_reqs, tg_reqs,     \* the replica's queues
    grammar_pending,      \* _grammar_pending
    onloading_reqs,       \* _onloading_reqs, in insertion order
    tokens, processed, generated,   \* the lengths of a request's TokenBuffer
    blocks,               \* KV blocks assigned to a request
    pinned,               \* KV blocks that only an onload still pins
    batch, chunk,         \* the batch being built; tokens its last entry runs, or 0
    budget,               \* token_budget.remaining
    candidates,           \* candidate_ids of _add_tg_requests
    tgInBatch,            \* starting_tg_reqs_count
    override,             \* whether construct_batch passes a priority_override
    prev,                 \* the requests of the pipeline's previous batch
    dead                  \* InsufficientBlocksError left the scheduler loop

world   == <<config, submitted, left, requestQueue, cancelQueue, matcher, onload>>
queues  == <<bound, ce_reqs, tg_reqs, grammar_pending, onloading_reqs>>
lengths == <<tokens, processed, generated>>
kv      == <<blocks, pinned>>
building == <<batch, chunk, budget, candidates, tgInBatch, override>>
vars == <<world, answer, pc, queues, lengths, kv, building, prev, dead>>

Elements(s) == {s[i] : i \in DOMAIN s}
Without(s, r) == SelectSeq(s, LAMBDA x : x # r)
Smaller(a, b) == IF a < b THEN a ELSE b
Larger(a, b) == IF a > b THEN a ELSE b

Terminal == {"done", "cancelled", "failed"}

Init ==
    /\ config \in Configs
    /\ submitted = {} /\ left = {} /\ requestQueue = <<>> /\ cancelQueue = {}
    /\ answer = [r \in Requests |-> "none"]
    /\ matcher = [r \in Requests |-> "none"]
    /\ onload = [r \in Requests |-> "none"]
    /\ pc = "begin"
    /\ bound = {} /\ ce_reqs = <<>> /\ tg_reqs = <<>>
    /\ grammar_pending = {} /\ onloading_reqs = <<>>
    /\ tokens = Prompt
    /\ processed = [r \in Requests |-> 0]
    /\ generated = [r \in Requests |-> 0]
    /\ blocks = [r \in Requests |-> 0] /\ pinned = [r \in Requests |-> 0]
    /\ batch = <<>> /\ chunk = 0 /\ budget = 0 /\ candidates = <<>>
    /\ tgInBatch = 0 /\ override = FALSE
    /\ prev = {} /\ dead = FALSE

Told(r, what) == IF answer[r] \in Terminal THEN "repeated" ELSE what

-----------------------------------------------------------------------------
(* The KV cache manager, as far as the scheduler sees it. *)

CeilDiv(a, b) == (a + b - 1) \div b
ActiveLength(r) == tokens[r] - processed[r]

InUse(blk, pin) == MapThenSumSet(LAMBDA r : blk[r] + pin[r], Requests)

\* poll_transfers, the first thing alloc does.
Polled == [r \in Requests |-> IF onload[r] = "complete" THEN 0 ELSE pinned[r]]
Free == NumBlocks - InUse(blocks, Polled)

\* The whole blocks of the prompt that host memory has; the last token of a
\* request always runs.
HostBlocks(r) == IF r \in Cached THEN (Prompt[r] - 1) \div BlockSize ELSE 0

\* The blocks that alloc(r) reuses before it allocates.
Prefix(r) ==
    IF processed[r] = 0 /\ ActiveLength(r) > 1 THEN HostBlocks(r) ELSE 0

\* Where alloc(r) finds them: in host memory or, once an onload of r has landed,
\* on the device, unless they were evicted there.
Sources(r) ==
    IF Prefix(r) = 0 THEN {"none"}
    ELSE {"host"} \cup (IF onload[r] = "complete" THEN {"device"} ELSE {})

\* Mutant of Required: no room for the last token.
Required_OneShort(r) == CeilDiv(tokens[r] - 1, BlockSize)

\* alloc(r): room for the tokens processed and the active ones, the reused
\* prefix included, which counts as processed.
Required(r) == CeilDiv(tokens[r], BlockSize)
CanAlloc(r) == Larger(Required(r) - blocks[r], 0) <= Free
Skipped(r) == Larger(processed[r], Prefix(r) * BlockSize)
Alloc(r) ==
    /\ blocks' = [blocks EXCEPT ![r] = Larger(@, Required(r))]
    /\ processed' = [processed EXCEPT ![r] = Skipped(r)]

AnythingInFlight(pin) ==
    onloading_reqs # <<>> \/ \E r \in Requests : pin[r] # 0

UsedPct == (100 * InUse(blocks, pinned)) \div NumBlocks

-----------------------------------------------------------------------------
(* Clients, grammar builds and onloads. *)

Submit(r) ==
    /\ r \notin submitted
    /\ submitted' = submitted \cup {r}
    /\ requestQueue' = Append(requestQueue, r)
    /\ UNCHANGED <<config, left, cancelQueue, answer, matcher, onload, pc, queues,
                   lengths, kv, building, prev, dead>>

Cancel(r) ==
    /\ r \in (submitted \cap Cancellable) \ left
    /\ answer[r] \notin Terminal
    /\ left' = left \cup {r}
    /\ cancelQueue' = cancelQueue \cup {r}
    /\ UNCHANGED <<config, submitted, requestQueue, answer, matcher, onload, pc,
                   queues, lengths, kv, building, prev, dead>>

BuildGrammar(r) ==
    /\ matcher[r] = "building"
    /\ \E result \in {"ready", "error"} :
         matcher' = [matcher EXCEPT ![r] = result]
    /\ UNCHANGED <<config, submitted, left, requestQueue, cancelQueue, onload, answer,
                   pc, queues, lengths, kv, building, prev, dead>>

CompleteOnload(r) ==
    /\ onload[r] = "in_flight"
    /\ onload' = [onload EXCEPT ![r] = "complete"]
    /\ UNCHANGED <<config, submitted, left, requestQueue, cancelQueue, matcher, answer,
                   pc, queues, lengths, kv, building, prev, dead>>

-----------------------------------------------------------------------------
(* Queues. *)

Contains(r) == r \in bound \cup grammar_pending

\* all_ce_reqs: everything that still waits for context encoding.
AllCE == Elements(ce_reqs) \cup grammar_pending \cup Elements(onloading_reqs)

\* The placeholder a request in flight carries; reset deletes it.
Pending(r) == IF r \in prev /\ generated[r] > 0 THEN 1 ELSE 0

\* Mutant of ResetRequest: the processed length is not set back.
ResetRequest_KeepsProcessed(r) ==
    /\ tokens' = [tokens EXCEPT ![r] = @ - Pending(r)]
    /\ generated' = [generated EXCEPT ![r] = 0]
    /\ blocks' = [blocks EXCEPT ![r] = 0]
    /\ ce_reqs' = <<r>> \o Without(ce_reqs, r)
    /\ UNCHANGED processed

\* Mutant of ResetRequest: the placeholder becomes part of the new prompt.
ResetRequest_KeepsPlaceholder(r) ==
    /\ tokens' = tokens
    /\ processed' = [processed EXCEPT ![r] = 0]
    /\ generated' = [generated EXCEPT ![r] = 0]
    /\ blocks' = [blocks EXCEPT ![r] = 0]
    /\ ce_reqs' = <<r>> \o Without(ce_reqs, r)

\* context.reset and the release of the KV blocks, for _return_to_request_queue.
ResetRequest(r) ==
    /\ tokens' = [tokens EXCEPT ![r] = @ - Pending(r)]
    /\ processed' = [processed EXCEPT ![r] = 0]
    /\ generated' = [generated EXCEPT ![r] = 0]
    /\ blocks' = [blocks EXCEPT ![r] = 0]
    /\ ce_reqs' = <<r>> \o Without(ce_reqs, r)

\* release_request for every request of S.
Release(S, ce, tg, loading) ==
    /\ bound' = bound \ S
    /\ grammar_pending' = grammar_pending \ S
    /\ ce_reqs' = SelectSeq(ce, LAMBDA x : x \notin S)
    /\ tg_reqs' = SelectSeq(tg, LAMBDA x : x \notin S)
    /\ onloading_reqs' = SelectSeq(loading, LAMBDA x : x \notin S)

-----------------------------------------------------------------------------
(* The start of an iteration: take requests, re-admit and promote those     *)
(* whose onload or grammar has come through, and choose what to build.      *)

ToDrain ==
    LET available == MaxPending - Cardinality(AllCE)
    IN  Larger(0, Smaller(available, Smaller(2 * MaxBatchSize, Len(requestQueue))))

\* Mutant of Landed: every cordoned request is re-admitted.
Landed_All(s) == s

Landed(s) == SelectSeq(s, LAMBDA r : onload[r] = "complete")
Backwards(s) == [i \in DOMAIN s |-> s[Len(s) + 1 - i]]

IdentifyPriority(ce, tg) ==
    CASE ce = <<>> /\ tg = <<>> -> "none"
      [] ce = <<>> -> "tg"
      [] tg = <<>> -> "ce"
      [] UsedPct > 90 -> "tg"
      [] OTHER -> IF config.inFlight THEN "tg" ELSE "ce"

\* The priority_override of construct_batch, or "none", on one replica.
PriorityOverride(own) ==
    CASE config.strategy = "decode_first" /\ own = "tg" -> "tg"
      [] config.strategy = "prefill_first" /\ own = "ce" -> "ce"
      [] config.strategy = "balanced" -> IF own = "ce" THEN "ce" ELSE "tg"
      [] OTHER -> "none"

\* Mutant of Settled: a build that failed stays in the gate.
Settled_Ready == {r \in grammar_pending : matcher[r] = "ready"}

\* The requests whose grammar has been built, or whose build failed.
Settled == {r \in grammar_pending : matcher[r] \in {"ready", "error"}}

construct_batch ==
    LET n     == ToDrain
        taken == SubSeq(requestQueue, 1, n)
        free  == SelectSeq(taken, LAMBDA r : r \notin Constrained)
        gated == grammar_pending \cup (Elements(taken) \cap Constrained)
        built == Settled
        good  == {r \in built : matcher[r] = "ready"}
    IN  /\ pc = "begin"
        /\ requestQueue' = SubSeq(requestQueue, n + 1, Len(requestQueue))
        /\ matcher' = [r \in Requests |->
                         IF r \in Elements(taken) \cap Constrained
                         THEN "building" ELSE matcher[r]]
        /\ grammar_pending' = gated \ built
        /\ \E order \in [1..Cardinality(good) -> good] :
             /\ Elements(order) = good
             /\ ce_reqs' = Backwards(Landed(onloading_reqs)) \o ce_reqs
                             \o free \o order
        /\ onloading_reqs' = SelectSeq(onloading_reqs,
                                LAMBDA r : onload[r] # "complete")
        /\ bound' = bound \cup Elements(free) \cup good
        /\ answer' = [r \in Requests |->
                        IF r \in built \ good THEN Told(r, "failed") ELSE answer[r]]
        /\ LET own      == IdentifyPriority(ce_reqs', tg_reqs)
               forced   == PriorityOverride(own)
               priority == IF forced = "none" THEN own ELSE forced
           IN  /\ pc' = IF priority = "none" THEN "schedule" ELSE priority
               /\ override' = (forced # "none")
        /\ batch' = <<>> /\ chunk' = 0 /\ budget' = TargetTokens
        /\ candidates' = tg_reqs /\ tgInBatch' = 0
        /\ UNCHANGED <<config, submitted, left, cancelQueue, onload, tg_reqs, lengths,
                       kv, prev, dead>>

-----------------------------------------------------------------------------
(* _add_ce_requests, one iteration of its loop per step. *)

\* The TG pass follows a CE pass that found nothing, unless overridden.
AfterCE == IF batch = <<>> /\ ~override THEN "tg" ELSE "schedule"

MayAddCE ==
    /\ pc = "ce"
    /\ Len(batch) < MaxBatchSize
    /\ Len(batch) + Len(tg_reqs) - tgInBatch < MaxBatchSize
    /\ ce_reqs # <<>>

CELoopEnds ==
    /\ pc = "ce"
    /\ ~MayAddCE
    /\ pc' = AfterCE
    /\ UNCHANGED <<world, answer, queues, lengths, kv, building, prev, dead>>

\* No budget left: the request popped goes back, reset.
CEBudgetExhausted ==
    /\ MayAddCE /\ budget <= 0
    /\ ResetRequest(Head(ce_reqs))
    /\ pc' = AfterCE
    /\ UNCHANGED <<world, answer, bound, tg_reqs, grammar_pending,
                   onloading_reqs, pinned, building, prev, dead>>

\* InsufficientBlocksError: fatal, or the request goes back and the loop ends.
\* By then the onload of the prefix has started, as far as there are blocks.
CEAllocFails ==
    LET r == Head(ce_reqs)
    IN  /\ MayAddCE /\ budget > 0 /\ ~CanAlloc(r)
        /\ \E source \in Sources(r) :
             LET loaded == IF source = "host" THEN Smaller(Prefix(r), Free) ELSE 0
                 pin    == [Polled EXCEPT ![r] = @ + loaded]
                 fatal  == tg_reqs = <<>> /\ batch = <<>> /\ ~AnythingInFlight(pin)
             IN  /\ pinned' = pin
                 /\ onload' = IF loaded > 0 THEN [onload EXCEPT ![r] = "in_flight"]
                              ELSE onload
                 /\ dead' = fatal
                 /\ IF fatal
                    THEN /\ pc' = "dead"
                         /\ UNCHANGED <<lengths, blocks, ce_reqs>>
                    ELSE /\ ResetRequest(r)
                         /\ pc' = AfterCE
        /\ UNCHANGED <<config, submitted, left, requestQueue, cancelQueue, matcher,
                       answer, bound, tg_reqs, grammar_pending, onloading_reqs,
                       building, prev>>

\* The prefix comes from host memory: the request waits for its onload.
CECordon ==
    LET r == Head(ce_reqs)
    IN  /\ MayAddCE /\ budget > 0 /\ CanAlloc(r)
        /\ "host" \in Sources(r)
        /\ onload' = [onload EXCEPT ![r] = "in_flight"]
        /\ Alloc(r)
        /\ pinned' = Polled
        /\ onloading_reqs' = Append(onloading_reqs, r)
        /\ ce_reqs' = Tail(ce_reqs)
        /\ UNCHANGED <<config, submitted, left, requestQueue, cancelQueue, matcher,
                       answer, pc, bound, tg_reqs, grammar_pending, tokens,
                       generated, building, prev, dead>>

\* The request joins the batch; over budget it is cut to a chunk, if enabled.
CEAdd ==
    LET r == Head(ce_reqs)
        active == tokens[r] - Skipped(r)
        cut == config.chunked /\ active > budget
    IN  /\ MayAddCE /\ budget > 0 /\ CanAlloc(r)
        /\ Sources(r) # {"host"}
        /\ Alloc(r)
        /\ pinned' = Polled
        /\ ce_reqs' = Tail(ce_reqs)
        /\ batch' = Append(batch, r)
        /\ chunk' = IF cut THEN budget ELSE 0
        /\ budget' = budget - (IF cut THEN budget ELSE active)
        /\ pc' = IF active >= budget THEN "schedule" ELSE "ce"
        /\ UNCHANGED <<world, answer, bound, tg_reqs, grammar_pending,
                       onloading_reqs, tokens, generated, candidates, tgInBatch,
                       override, prev, dead>>

-----------------------------------------------------------------------------
(* _add_tg_requests, one iteration of its loops per step. *)

\* In-flight batching adds CE requests to a TG batch, unless overridden.
AfterTG(b) ==
    IF config.inFlight /\ b # <<>> /\ ~override THEN "ce" ELSE "schedule"

MayAddTG == pc = "tg" /\ Len(batch) < MaxBatchSize /\ candidates # <<>>

TGLoopEnds ==
    /\ pc = "tg"
    /\ ~MayAddTG \/ budget <= 0
    /\ pc' = AfterTG(batch)
    /\ tgInBatch' = Len(batch)
    /\ UNCHANGED <<world, answer, queues, lengths, kv, batch, chunk, budget,
                   candidates, override, prev, dead>>

\* The oldest candidate runs: one token.
TGAdd ==
    LET r == Head(candidates)
    IN  /\ MayAddTG /\ budget > 0 /\ CanAlloc(r)
        /\ Alloc(r)
        /\ pinned' = Polled
        /\ batch' = Append(batch, r)
        /\ budget' = budget - 1
        /\ candidates' = Tail(candidates)
        /\ pc' = IF budget = 1 THEN AfterTG(batch') ELSE "tg"
        /\ tgInBatch' = IF budget = 1 THEN Len(batch') ELSE tgInBatch
        /\ UNCHANGED <<world, answer, queues, tokens, generated, chunk, override,
                       prev, dead>>

\* No room for the oldest candidate: the newest one is preempted.
TGPreempt ==
    LET victim == candidates[Len(candidates)]
    IN  /\ MayAddTG /\ budget > 0 /\ ~CanAlloc(Head(candidates))
        /\ Len(candidates) > 1
        /\ pinned' = Polled
        /\ ResetRequest(victim)
        /\ tg_reqs' = Without(tg_reqs, victim)
        /\ candidates' = SubSeq(candidates, 1, Len(candidates) - 1)
        /\ UNCHANGED <<world, answer, pc, bound, grammar_pending,
                       onloading_reqs, batch, chunk, budget, tgInBatch,
                       override, prev, dead>>

\* No room and no one left to preempt: fatal, or the batch runs as it is.
TGAllocFails ==
    LET fatal == batch = <<>> /\ ~AnythingInFlight(Polled)
    IN  /\ MayAddTG /\ budget > 0 /\ ~CanAlloc(Head(candidates))
        /\ Len(candidates) = 1
        /\ pinned' = Polled
        /\ dead' = fatal
        /\ pc' = IF fatal THEN "dead" ELSE AfterTG(batch)
        /\ tgInBatch' = Len(batch)
        /\ UNCHANGED <<world, answer, queues, lengths, blocks, batch, chunk,
                       budget, candidates, override, prev>>

-----------------------------------------------------------------------------
(* _schedule: run the batch, answer with the tokens of the one before. *)

\* Mutant of Realised: requests released since are answered too.
Realised_Released == {r \in prev : generated[r] > 0}

\* The requests still held whose placeholder the previous batch's tokens replace.
Realised == {r \in prev \cap bound : generated[r] > 0}

Chunked(r) == chunk > 0 /\ r = batch[Len(batch)]

\* pipeline.execute, besides what it returns: every request that runs is
\* processed and gets a placeholder, a chunk alone is processed.
execute(active, whole) ==
    /\ processed' = [r \in Requests |->
                       IF r \in whole THEN tokens[r]
                       ELSE processed[r] + (IF r \in active THEN chunk ELSE 0)]
    /\ tokens' = [r \in Requests |-> tokens[r] + (IF r \in whole THEN 1 ELSE 0)]
    /\ generated' = [r \in Requests |->
                       generated[r] + (IF r \in whole THEN 1 ELSE 0)]
    /\ prev' = active

\* Done: an end-of-sequence token, or the maximum length.
schedule ==
    LET active == Elements(batch)
        whole  == {r \in active : ~Chunked(r)}
        newTG  == SelectSeq(batch, LAMBDA r :
                     r \in whole \ Elements(tg_reqs))
        back   == IF chunk > 0 THEN <<batch[Len(batch)]>> ELSE <<>>
    IN  /\ pc = "schedule"
        /\ batch # <<>> \/ prev # {}
        /\ \E eos \in SUBSET Realised :
             LET done == {r \in Realised :
                             r \in eos \/ tokens[r] >= MaxLength[r]}
             IN  /\ Release(done, back \o ce_reqs, tg_reqs \o newTG,
                            onloading_reqs)
                 /\ blocks' = [r \in Requests |-> IF r \in done THEN 0 ELSE blocks[r]]
                 /\ answer' = [r \in Requests |->
                       IF r \in done THEN Told(r, "done")
                       ELSE IF r \in Realised /\ answer[r] = "none"
                            THEN "streaming" ELSE answer[r]]
        /\ execute(active, whole)
        /\ batch' = <<>> /\ chunk' = 0 /\ budget' = 0 /\ candidates' = <<>>
        /\ tgInBatch' = 0 /\ override' = FALSE
        /\ pc' = "cancel"
        /\ UNCHANGED <<world, pinned, dead>>

\* NO_PROGRESS: nothing to run and nothing pending; cancels are not read.
NoProgress ==
    /\ pc = "schedule" /\ batch = <<>> /\ prev = {}
    /\ pc' = "begin"
    /\ budget' = 0 /\ candidates' = <<>> /\ override' = FALSE
    /\ UNCHANGED <<world, answer, queues, lengths, kv, batch, chunk, tgInBatch,
                   prev, dead>>

\* The cancel queue is drained; a request not held here is skipped.
handle_cancelled ==
    LET held == {r \in cancelQueue : Contains(r)}
    IN  /\ pc = "cancel"
        /\ pc' = "begin"
        /\ cancelQueue' = {}
        /\ Release(held, ce_reqs, tg_reqs, onloading_reqs)
        /\ blocks' = [r \in Requests |-> IF r \in held THEN 0 ELSE blocks[r]]
        /\ answer' = [r \in Requests |->
                        IF r \in held THEN Told(r, "cancelled") ELSE answer[r]]
        /\ pinned' = [r \in Requests |-> pinned[r] +
                        (IF r \in held \cap Elements(onloading_reqs)
                         THEN HostBlocks(r) ELSE 0)]
        /\ UNCHANGED <<config, submitted, left, requestQueue, matcher, onload, lengths,
                       building, prev, dead>>

-----------------------------------------------------------------------------
SchedulerStep ==
    \/ construct_batch
    \/ CELoopEnds \/ CEBudgetExhausted \/ CEAllocFails \/ CECordon \/ CEAdd
    \/ TGLoopEnds \/ TGAdd \/ TGPreempt \/ TGAllocFails
    \/ schedule \/ NoProgress \/ handle_cancelled

ClientStep == \E r \in Requests : Submit(r) \/ Cancel(r)

BackgroundStep == \E r \in Requests : BuildGrammar(r) \/ CompleteOnload(r)

Next == SchedulerStep \/ ClientStep \/ BackgroundStep

Spec == Init /\ [][Next]_vars

\* The scheduler loop runs for ever, and builds and copies end.
FairSpec ==
    /\ Spec
    /\ WF_vars(SchedulerStep)
    /\ \A r \in Requests : WF_vars(BuildGrammar(r)) /\ WF_vars(CompleteOnload(r))

-----------------------------------------------------------------------------
(* Properties. *)

\* Every variable has its type, and a request always has a token to run: its
\* processed length stays below its length over chunks, resets and releases.
TypeOK ==
    /\ config \in Configs
    /\ submitted \subseteq Requests /\ left \subseteq submitted
    /\ cancelQueue \subseteq Requests
    /\ answer \in [Requests -> Terminal \cup {"none", "streaming", "repeated"}]
    /\ matcher \in [Requests -> {"none", "building", "ready", "error"}]
    /\ onload \in [Requests -> {"none", "in_flight", "complete"}]
    /\ pc \in {"begin", "ce", "tg", "schedule", "cancel", "dead"}
    /\ bound \subseteq Requests /\ grammar_pending \subseteq Requests
    /\ \A q \in {requestQueue, ce_reqs, tg_reqs, onloading_reqs, batch, candidates} :
         q \in Seq(Requests)
    /\ \A f \in {tokens, processed, generated, blocks, pinned} :
         f \in [Requests -> Nat]
    /\ \A r \in Requests : processed[r] < tokens[r]
    /\ chunk \in Nat /\ budget \in Int /\ tgInBatch \in 0..MaxBatchSize
    /\ prev \subseteq Requests /\ {override, dead} \subseteq BOOLEAN

\* Between iterations a request the constructor has bound is in exactly one of
\* its queues, once: preemption, chunking, cordons, promotion and release move
\* it and never lose or copy it.  release_request relies on it: it looks in one
\* queue after another and stops at the first.
InOneQueue ==
    pc = "begin" =>
      LET all == ce_reqs \o tg_reqs \o onloading_reqs
      IN  /\ Elements(all) = bound
          /\ Len(all) = Cardinality(bound)
          /\ grammar_pending \cap bound = {}

\* The KV blocks in use never exceed the pool, a request that is not bound
\* holds none, and every token a request has computed has a slot in the blocks
\* it holds, whatever was preempted, cordoned or cancelled in between.  No
\* request runs while the copy of its prefix is in flight.
CacheCoversTokens ==
    /\ InUse(blocks, pinned) <= NumBlocks
    /\ \A r \in Elements(batch) : onload[r] # "in_flight"
    /\ \A r \in Requests :
         /\ r \notin bound => blocks[r] = 0
         /\ r \in bound => blocks[r] * BlockSize >= processed[r]

\* A request gets at most one terminal answer: done, cancelled or failed.
\* The overlapped pipeline answers a batch later, for requests that may have
\* been preempted, cancelled or finished since.
OneTerminalAnswer == \A r \in Requests : answer[r] # "repeated"

\* The tokens the pipeline has delivered: every one but a placeholder.
Delivered(r) == tokens[r] - Pending(r)

\* No delivered token is lost and none is made up: preemption folds the
\* generated tokens into the new prompt and drops the placeholder alone, and a
\* request grows by the token of its placeholder when the pipeline returns it.
DeliveredTokensKept ==
    [][\A r \in Requests :
         Delivered(r)' = Delivered(r) +
           (IF pc = "schedule" /\ pc' = "cancel" THEN Pending(r) ELSE 0)]_vars

\* Every request submitted gets its terminal answer, under preemption, chunked
\* prefill, onloads, grammar builds and clients that leave, unless the worker
\* dies (OnlyGenuineOOM is about that).
EveryRequestAnswered ==
    \A r \in Requests : r \in submitted ~> answer[r] \in Terminal \/ dead

\* The worker dies of InsufficientBlocksError only when no other request holds
\* a block it could give back: a genuine OOM, as _add_tg_requests says.
OnlyGenuineOOM ==
    dead => Cardinality({r \in Requests : blocks[r] > 0}) <= 1
=============================================================================
