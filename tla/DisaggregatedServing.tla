------------------------ MODULE DisaggregatedServing ------------------------
(***************************************************************************)
(* Disaggregated serving: a decode worker that admits requests, reserves   *)
(* KV blocks for them and generates their tokens, and a prefill worker     *)
(* that encodes their prompts and writes the resulting KV into the decode  *)
(* worker's blocks.  The two talk over two FIFO sockets (toPrefill,        *)
(* toDecode) and through a transfer engine whose writes land on their own. *)
(*                                                                         *)
(* Each worker is a loop (run_iteration).  dpc and ppc say which part of   *)
(* its iteration a worker is at, so that the other worker, the clients,    *)
(* the clock and the transfer engine interleave between the parts.         *)
(*                                                                         *)
(* The batch constructor is reduced to what the two loops use of it: the   *)
(* decode worker's set of running requests, the prefill worker's queue of  *)
(* requests to encode.  A request keeps the blocks reserved for it until   *)
(* it is released: it does not outgrow them.                               *)
(***************************************************************************)
EXTENDS Integers, Sequences, FiniteSets

CONSTANTS
    Requests,       \* request ids; an id is used once
    Cancellable,    \* the requests whose client may go away
    Constrained,    \* the requests with a grammar, whose build may fail
    Replicas,       \* the decode worker's data-parallel replicas (0, 1, ...)
    BlocksOf,       \* BlocksOf[d]: the KV blocks of replica d's pool
    Need,           \* Need[r]: the blocks request r takes
    MaxBatch,       \* scheduler_config.max_batch_size
    MaxTokens,      \* tokens the decode worker generates at most for a request
    PrefillSlots,   \* requests whose KV fits into the prefill worker's pool
    TTL             \* whether decode_request_ttl_s is set

ASSUME BoundsAssumption ==
    MaxBatch \in Nat /\ PrefillSlots \in Nat /\ MaxTokens \in Nat \ {0}

VARIABLES
    submitted,      \* requests whose client has called stream()
    requestQueue,   \* API process -> decode worker
    cancelQueue,    \* the cancellations the decode worker has not read
    left,           \* requests whose client is gone
    answer,         \* what the client of r was told last
    \* the decode worker
    dpc, pending_reqs, phase, cancelled, expired, replica_idx,
    prefill_reqs_per_replica, held, tg, prevBatch, generated, remote_endpoints,
    \* the sockets and the transfer engine
    toPrefill, toDecode, write, dst,
    \* the prefill worker
    ppc, connected, gate, ce, reply_context, pending_first_token, responses,
    active_transfers, outstanding_cancelled

client  == <<submitted, requestQueue, cancelQueue, left>>
decodeRecord == <<phase, cancelled, expired, replica_idx,
                  prefill_reqs_per_replica>>
running == <<tg, prevBatch, generated>>
engine  == <<write, dst>>
prefill == <<ppc, connected, gate, ce, reply_context, pending_first_token,
             responses, active_transfers, outstanding_cancelled>>
vars == <<client, answer, dpc, pending_reqs, decodeRecord, held, running,
          remote_endpoints, toPrefill, toDecode, engine, prefill>>

Blocks == UNION {BlocksOf[d] : d \in Replicas}
NoReplica == -1

\* The PendingDecodeRequest records: self.requests is the set InFlight.
Phases == {"none", "AWAITING_PREFILL", "TRANSFERRING"}
InFlight == {r \in Requests : phase[r] # "none"}
Transferring == {r \in Requests : phase[r] = "TRANSFERRING"}

\* The terminal results; "first" is a first token that is also the last.
Terminal == {"first", "done", "cancelled"}
Message(kind, r) == [kind |-> kind, id |-> r]
PrefillRequest(r, blocks) == [kind |-> "prefill", id |-> r, blocks |-> blocks]
Metadata == [kind |-> "metadata"]

\* The KV blocks of a replica's pool that no request holds.
FreeBlocks(d) == BlocksOf[d] \ UNION {held[r] : r \in Requests}
UsedPct(d) ==
    (100 * (Cardinality(BlocksOf[d]) - Cardinality(FreeBlocks(d))))
        \div Cardinality(BlocksOf[d])

Init ==
    /\ submitted = {} /\ requestQueue = <<>>
    /\ cancelQueue = {} /\ left = {}
    /\ answer = [r \in Requests |-> "none"]
    /\ dpc = "replies" /\ pending_reqs = <<>>
    /\ phase = [r \in Requests |-> "none"]
    /\ cancelled = {} /\ expired = {}
    /\ replica_idx = [r \in Requests |-> NoReplica]
    /\ prefill_reqs_per_replica = [d \in Replicas |-> 0]
    /\ held = [r \in Requests |-> {}]
    /\ tg = {} /\ prevBatch = {} /\ generated = [r \in Requests |-> 0]
    /\ remote_endpoints = {}
    /\ toPrefill = <<>> /\ toDecode = <<>>
    /\ write = [r \in Requests |-> "none"]
    /\ dst = [r \in Requests |-> {}]
    /\ ppc = "requests" /\ connected = FALSE
    /\ gate = {} /\ ce = <<>> /\ reply_context = {}
    /\ pending_first_token = <<>> /\ responses = <<>>
    /\ active_transfers = {}
    /\ outstanding_cancelled = {}

-----------------------------------------------------------------------------
(* What the clients are told.  A result put on the response queue after    *)
(* the terminal one is a second end of the same stream: "twice" after a    *)
(* first token that was the last, otherwise "repeated".                    *)

Over(r) == answer[r] \in Terminal \cup {"twice", "repeated"}
Told(r, what) ==
    IF answer[r] = "first" THEN "twice" ELSE IF Over(r) THEN "repeated" ELSE what

TellAll(what) ==
    answer' = [r \in Requests |->
                 IF r \in DOMAIN what THEN Told(r, what[r]) ELSE answer[r]]

Tell(r, what) == TellAll([x \in {r} |-> what])

(* Clients. *)

Submit(r) ==
    /\ r \notin submitted
    /\ submitted' = submitted \cup {r}
    /\ requestQueue' = Append(requestQueue, r)
    /\ UNCHANGED <<cancelQueue, left, answer, dpc, pending_reqs, decodeRecord, held,
                   running, remote_endpoints, toPrefill, toDecode, engine,
                   prefill>>

\* The client of r leaves: the API process sends one cancellation.
Cancel(r) ==
    /\ r \in submitted \cap Cancellable
    /\ ~Over(r)
    /\ r \notin left
    /\ left' = left \cup {r}
    /\ cancelQueue' = cancelQueue \cup {r}
    /\ UNCHANGED <<submitted, requestQueue, answer, dpc, pending_reqs,
                   decodeRecord, held, running, remote_endpoints, toPrefill,
                   toDecode, engine, prefill>>

-----------------------------------------------------------------------------
(* The decode worker, part by part of its iteration. *)

\* Mutant of Forget: the counter of the replica is not taken down.
Forget_KeepsCount(r) ==
    /\ phase' = [phase EXCEPT ![r] = "none"]
    /\ cancelled' = cancelled \ {r}
    /\ expired' = expired \ {r}
    /\ UNCHANGED <<prefill_reqs_per_replica, replica_idx>>

\* A request leaves self.requests; its replica's counter goes down.
Forget(r) ==
    /\ phase' = [phase EXCEPT ![r] = "none"]
    /\ cancelled' = cancelled \ {r}
    /\ expired' = expired \ {r}
    /\ prefill_reqs_per_replica' =
         [prefill_reqs_per_replica EXCEPT ![replica_idx[r]] = @ - 1]
    /\ UNCHANGED replica_idx

Release(r) == held' = [held EXCEPT ![r] = {}]

RecvMetadata ==
    /\ dpc = "replies" /\ toDecode # <<>>
    /\ Head(toDecode).kind = "metadata"
    /\ toDecode' = Tail(toDecode)
    /\ UNCHANGED <<client, answer, dpc, pending_reqs, decodeRecord, held,
                   running, remote_endpoints, toPrefill, engine, prefill>>

\* The first token comes with the response; it may end the request, by the
\* token itself or by the maximum length, and the request goes on all the same.
handle_prefill_response ==
    /\ dpc = "replies" /\ toDecode # <<>>
    /\ Head(toDecode).kind = "response"
    /\ toDecode' = Tail(toDecode)
    /\ LET r == Head(toDecode).id IN
         \/ /\ r \notin InFlight           \* stale: discarded
            /\ UNCHANGED <<answer, phase, expired>>
         \/ /\ r \in InFlight
            /\ Tell(r, "stream") \/ Tell(r, "first")
            /\ phase' = [phase EXCEPT ![r] = "TRANSFERRING"]
            /\ expired' = expired \ {r}
    /\ UNCHANGED <<client, dpc, pending_reqs, cancelled, replica_idx,
                   prefill_reqs_per_replica, held, running, remote_endpoints,
                   toPrefill, engine, prefill>>

RepliesDrained ==
    /\ dpc = "replies" /\ toDecode = <<>>
    /\ dpc' = "evict"
    /\ UNCHANGED <<client, answer, pending_reqs, decodeRecord, held, running,
                   remote_endpoints, toPrefill, toDecode, engine, prefill>>

\* Mutant of EvictOne: the client of an evicted request is not told.
EvictOne_Silent(r) ==
    /\ dpc = "evict" /\ r \in expired
    /\ Forget(r)
    /\ Release(r)
    /\ toPrefill' = IF r \in cancelled THEN toPrefill
                      ELSE Append(toPrefill, Message("cancel", r))
    /\ UNCHANGED <<client, answer, dpc, pending_reqs, running,
                   remote_endpoints, toDecode, engine, prefill>>

\* One expired request of _evict_expired_requests.
EvictOne(r) ==
    /\ dpc = "evict" /\ r \in expired
    /\ Forget(r)
    /\ Release(r)
    /\ \/ /\ r \in cancelled
          /\ UNCHANGED <<answer, toPrefill>>
       \/ /\ r \notin cancelled
          /\ toPrefill' = Append(toPrefill, Message("cancel", r))
          /\ Tell(r, "cancelled")
    /\ UNCHANGED <<client, dpc, pending_reqs, running, remote_endpoints,
                   toDecode, engine, prefill>>

\* The drain_queue at the head of reserve_memory_and_send_to_prefill.
DrainRequests ==
    /\ dpc = "evict" /\ expired = {}
    /\ LET n == IF Len(requestQueue) < 2 * MaxBatch
                  THEN Len(requestQueue) ELSE 2 * MaxBatch
       IN  /\ pending_reqs' = pending_reqs \o SubSeq(requestQueue, 1, n)
           /\ requestQueue' = SubSeq(requestQueue, n + 1, Len(requestQueue))
    /\ dpc' = "reserve"
    /\ UNCHANGED <<submitted, cancelQueue, left, answer, decodeRecord, held,
                   running, remote_endpoints, toPrefill, toDecode, engine,
                   prefill>>

CanReserve ==
    /\ pending_reqs # <<>>
    /\ Cardinality(tg) + Cardinality(InFlight) < MaxBatch
    /\ \E d \in Replicas : UsedPct(d) < 90

\* get_next_replica_idx: the first replica with the fewest requests.
Load(d) == Cardinality({r \in tg : replica_idx[r] = d})
             + prefill_reqs_per_replica[d]
get_next_replica_idx(d) ==
    \A e \in Replicas : Load(d) < Load(e) \/ (Load(d) = Load(e) /\ d <= e)

ReserveOne ==
    /\ dpc = "reserve" /\ CanReserve
    /\ LET r == Head(pending_reqs) IN
         \E d \in Replicas : \E blocks \in SUBSET FreeBlocks(d) :
             /\ get_next_replica_idx(d)
             /\ Cardinality(blocks) = Need[r]
             /\ pending_reqs' = Tail(pending_reqs)
             /\ held' = [held EXCEPT ![r] = blocks]
             /\ phase' = [phase EXCEPT ![r] = "AWAITING_PREFILL"]
             /\ replica_idx' = [replica_idx EXCEPT ![r] = d]
             /\ prefill_reqs_per_replica' =
                  [prefill_reqs_per_replica EXCEPT ![d] = @ + 1]
             /\ toPrefill' = Append(IF "prefill" \in remote_endpoints THEN toPrefill
                                      ELSE Append(toPrefill, Metadata),
                                    PrefillRequest(r, blocks))
             /\ remote_endpoints' = remote_endpoints \cup {"prefill"}
    /\ UNCHANGED <<client, answer, dpc, cancelled, expired, running, toDecode,
                   engine, prefill>>

\* The replica chosen has too few free blocks: the request goes back to the
\* front of pending_reqs and the loop ends.
ReserveFails ==
    /\ dpc = "reserve" /\ CanReserve
    /\ \E d \in Replicas : /\ get_next_replica_idx(d)
                          /\ Cardinality(FreeBlocks(d)) < Need[Head(pending_reqs)]
    /\ dpc' = "cancel"
    /\ UNCHANGED <<client, answer, pending_reqs, decodeRecord, held, running,
                   remote_endpoints, toPrefill, toDecode, engine, prefill>>

ReserveDone ==
    /\ dpc = "reserve" /\ ~CanReserve
    /\ dpc' = "cancel"
    /\ UNCHANGED <<client, answer, pending_reqs, decodeRecord, held, running,
                   remote_endpoints, toPrefill, toDecode, engine, prefill>>

\* One cancellation of _handle_cancelled_requests, by where the request is.
CancelRunning(r) ==
    /\ dpc = "cancel" /\ r \in cancelQueue /\ r \in tg
    /\ cancelQueue' = cancelQueue \ {r}
    /\ tg' = tg \ {r}
    /\ Release(r)
    /\ Tell(r, "cancelled")
    /\ UNCHANGED <<submitted, requestQueue, left, dpc, pending_reqs,
                   decodeRecord, prevBatch, generated, remote_endpoints,
                   toPrefill, toDecode, engine, prefill>>

\* Not in the batch constructor and not in self.requests: only logged.
CancelUnknown(r) ==
    /\ dpc = "cancel" /\ r \in cancelQueue
    /\ r \notin tg /\ r \notin InFlight
    /\ cancelQueue' = cancelQueue \ {r}
    /\ UNCHANGED <<submitted, requestQueue, left, answer, dpc, pending_reqs,
                   decodeRecord, held, running, remote_endpoints, toPrefill,
                   toDecode, engine, prefill>>

\* Mutant of CancelTransferring: the blocks are released at once.
CancelTransferring_Releases(r) ==
    /\ dpc = "cancel" /\ r \in cancelQueue
    /\ r \notin tg /\ phase[r] = "TRANSFERRING"
    /\ cancelQueue' = cancelQueue \ {r}
    /\ Forget(r)
    /\ Release(r)
    /\ toPrefill' = Append(toPrefill, Message("cancel", r))
    /\ Tell(r, "cancelled")
    /\ UNCHANGED <<submitted, requestQueue, left, dpc, pending_reqs, running,
                   remote_endpoints, toDecode, engine, prefill>>

\* The release is left to check_for_completed_transfers.
CancelTransferring(r) ==
    /\ dpc = "cancel" /\ r \in cancelQueue
    /\ r \notin tg /\ phase[r] = "TRANSFERRING"
    /\ cancelQueue' = cancelQueue \ {r}
    /\ cancelled' = cancelled \cup {r}
    /\ toPrefill' = Append(toPrefill, Message("cancel", r))
    /\ Tell(r, "cancelled")
    /\ UNCHANGED <<submitted, requestQueue, left, dpc, pending_reqs, phase,
                   expired, replica_idx, prefill_reqs_per_replica, held,
                   running, remote_endpoints, toDecode, engine, prefill>>

\* No response has been handled: the blocks are released at once.
CancelAwaiting(r) ==
    /\ dpc = "cancel" /\ r \in cancelQueue
    /\ r \notin tg /\ phase[r] = "AWAITING_PREFILL"
    /\ cancelQueue' = cancelQueue \ {r}
    /\ Forget(r)
    /\ Release(r)
    /\ toPrefill' = Append(toPrefill, Message("cancel", r))
    /\ Tell(r, "cancelled")
    /\ UNCHANGED <<submitted, requestQueue, left, dpc, pending_reqs, running,
                   remote_endpoints, toDecode, engine, prefill>>

\* Mutant of Complete: a request runs once its response has come.
Complete_AnyKnown == Transferring

\* The transfers of the known requests that have completed.
Complete == {r \in Transferring : write[r] = "landed"}

\* Once the cancellations are handled: completed transfers start to run,
\* those of cancelled requests are released.
check_for_completed_transfers ==
    /\ dpc = "cancel" /\ cancelQueue = {}
    /\ LET complete == Complete
           dropped  == complete \cap cancelled
       IN  /\ phase' = [r \in Requests |->
                          IF r \in complete THEN "none" ELSE phase[r]]
           /\ prefill_reqs_per_replica' = [d \in Replicas |->
                prefill_reqs_per_replica[d]
                  - Cardinality({r \in complete : replica_idx[r] = d})]
           /\ cancelled' = cancelled \ complete
           /\ expired' = expired \ complete
           /\ held' = [r \in Requests |->
                         IF r \in dropped THEN {} ELSE held[r]]
           /\ tg' = tg \cup (complete \ dropped)
    /\ dpc' = "batch"
    /\ UNCHANGED <<client, answer, pending_reqs, replica_idx, prevBatch,
                   generated, remote_endpoints, toPrefill, toDecode, engine,
                   prefill>>

\* Mutant of ResponsesOf: results of released requests are passed on.
ResponsesOf_All(batch) == batch

\* Runs the batch.  The pipeline overlaps: it answers for the batch before,
\* and what it answers for requests released meanwhile is filtered out.
ResponsesOf(batch) == batch \cap tg

schedule ==
    /\ dpc = "batch"
    /\ \E done \in SUBSET ResponsesOf(prevBatch) :
         LET answered == ResponsesOf(prevBatch)
         IN  /\ \A r \in answered :
                  generated[r] + 1 >= MaxTokens => r \in done
             /\ {r \in answered : answer[r] = "first"} \subseteq done
             /\ TellAll([r \in answered |->
                           IF r \in done THEN "done" ELSE "stream"])
             /\ generated' = [r \in Requests |->
                  IF r \in answered THEN generated[r] + 1 ELSE generated[r]]
             /\ tg' = tg \ done
             /\ held' = [r \in Requests |->
                           IF r \in done THEN {} ELSE held[r]]
    /\ prevBatch' = tg
    /\ dpc' = "replies"
    /\ UNCHANGED <<client, pending_reqs, decodeRecord, remote_endpoints,
                   toPrefill, toDecode, engine, prefill>>

\* The clock: a request may be in its phase for longer than the TTL.
Age(r) ==
    /\ TTL /\ r \in InFlight \ expired
    /\ expired' = expired \cup {r}
    /\ UNCHANGED <<client, answer, dpc, pending_reqs, phase, cancelled,
                   replica_idx, prefill_reqs_per_replica, held, running,
                   remote_endpoints, toPrefill, toDecode, engine, prefill>>

\* The transfer engine: a posted write reaches the destination blocks, and
\* both sides can see that it has.
Land(r) ==
    /\ write[r] = "posted"
    /\ write' = [write EXCEPT ![r] = "landed"]
    /\ UNCHANGED <<client, answer, dpc, pending_reqs, decodeRecord, held,
                   running, remote_endpoints, toPrefill, toDecode, dst,
                   prefill>>

-----------------------------------------------------------------------------
(* The prefill worker. *)

decode == <<client, answer, dpc, pending_reqs, decodeRecord, held, running,
            remote_endpoints>>

NextRequest(kind) ==
    /\ ppc = "requests" /\ toPrefill # <<>>
    /\ Head(toPrefill).kind = kind
    /\ toPrefill' = Tail(toPrefill)

handle_cancel_request ==
    /\ NextRequest("cancel")
    /\ outstanding_cancelled' = outstanding_cancelled \cup {Head(toPrefill).id}
    /\ UNCHANGED <<decode, toDecode, engine, ppc, connected, gate, ce,
                   reply_context, pending_first_token, responses,
                   active_transfers>>

handle_transfer_engine_request ==
    /\ NextRequest("metadata")
    /\ connected' = TRUE
    /\ toDecode' = IF connected THEN toDecode ELSE Append(toDecode, Metadata)
    /\ UNCHANGED <<decode, engine, ppc, gate, ce, reply_context,
                   pending_first_token, responses, active_transfers,
                   outstanding_cancelled>>

handle_prefill_request ==
    /\ NextRequest("prefill")
    /\ LET r == Head(toPrefill).id IN
         /\ gate' = gate \cup ({r} \cap Constrained)
         /\ ce' = IF r \in Constrained THEN ce ELSE Append(ce, r)
         /\ reply_context' = reply_context \cup {r}
         /\ dst' = [dst EXCEPT ![r] = Head(toPrefill).blocks]
    /\ UNCHANGED <<decode, toDecode, write, ppc, connected,
                   pending_first_token, responses, active_transfers,
                   outstanding_cancelled>>

cleanup_active_transfers ==
    /\ ppc = "requests" /\ toPrefill = <<>>
    /\ active_transfers' = {r \in active_transfers : write[r] # "landed"}
    /\ ppc' = "batch"
    /\ UNCHANGED <<decode, toPrefill, toDecode, engine, connected, gate, ce,
                   reply_context, pending_first_token, responses,
                   outstanding_cancelled>>

\* A grammar that has been built lets its request in; one whose build failed
\* drops it, and the decode worker is not told.
GrammarReady(r) ==
    /\ ppc = "batch" /\ r \in gate
    /\ gate' = gate \ {r}
    /\ ce' = Append(ce, r)
    /\ UNCHANGED <<decode, toPrefill, toDecode, engine, ppc, connected,
                   reply_context, pending_first_token, responses,
                   active_transfers, outstanding_cancelled>>

GrammarFailed(r) ==
    /\ ppc = "batch" /\ r \in gate
    /\ gate' = gate \ {r}
    /\ reply_context' = reply_context \ {r}
    /\ UNCHANGED <<decode, toPrefill, toDecode, engine, ppc, connected, ce,
                   pending_first_token, responses, active_transfers,
                   outstanding_cancelled>>

\* schedule: encodes the requests for whose KV there is room.  The pipeline
\* overlaps: it answers for the batch before, and those requests, whose first
\* tokens have surfaced, are the ones to reply for.
Elements(s) == {s[i] : i \in DOMAIN s}
SlotsInUse == Len(pending_first_token) + Cardinality(active_transfers)
BatchSize == IF Len(ce) < PrefillSlots - SlotsInUse
               THEN Len(ce) ELSE PrefillSlots - SlotsInUse

PrefillSchedule ==
    /\ ppc = "batch"
    /\ responses' = pending_first_token
    /\ pending_first_token' = SubSeq(ce, 1, BatchSize)
    /\ ce' = SubSeq(ce, BatchSize + 1, Len(ce))
    /\ ppc' = IF pending_first_token = <<>> THEN "requests" ELSE "transfer"
    /\ UNCHANGED <<decode, toPrefill, toDecode, engine, connected, gate,
                   reply_context, active_transfers, outstanding_cancelled>>

\* One request of the loop over the responses: its transfer is posted and
\* the reply sent, unless it was cancelled meanwhile.
initiate_transfer_and_send_reply ==
    /\ ppc = "transfer" /\ responses # <<>>
    /\ LET r == Head(responses) IN
         /\ reply_context' = reply_context \ {r}
         /\ \/ /\ r \in outstanding_cancelled
               /\ outstanding_cancelled' = outstanding_cancelled \ {r}
               /\ UNCHANGED <<active_transfers, write, toDecode>>
            \/ /\ r \notin outstanding_cancelled
               /\ active_transfers' = active_transfers \cup {r}
               /\ write' = [write EXCEPT ![r] = "posted"]
               /\ toDecode' = Append(toDecode, Message("response", r))
               /\ UNCHANGED outstanding_cancelled
    /\ responses' = Tail(responses)
    /\ ppc' = IF Len(responses) = 1 THEN "requests" ELSE "transfer"
    /\ UNCHANGED <<decode, toPrefill, dst, connected, gate, ce,
                   pending_first_token>>

-----------------------------------------------------------------------------
DecodeStep ==
    \/ RecvMetadata \/ handle_prefill_response \/ RepliesDrained
    \/ \E r \in Requests : EvictOne(r)
    \/ DrainRequests
    \/ ReserveOne \/ ReserveFails \/ ReserveDone
    \/ \E r \in Requests : \/ CancelRunning(r) \/ CancelUnknown(r)
                           \/ CancelTransferring(r) \/ CancelAwaiting(r)
    \/ check_for_completed_transfers \/ schedule

PrefillStep ==
    \/ handle_cancel_request \/ handle_transfer_engine_request
    \/ handle_prefill_request \/ cleanup_active_transfers
    \/ \E r \in Requests : GrammarReady(r) \/ GrammarFailed(r)
    \/ PrefillSchedule \/ initiate_transfer_and_send_reply

ClientStep == \E r \in Requests : Submit(r) \/ Cancel(r)

Next ==
    \/ DecodeStep \/ PrefillStep \/ ClientStep
    \/ \E r \in Requests : Age(r) \/ Land(r)

Spec == Init /\ [][Next]_vars

(* The decode worker's loop never blocks, and time passes.  Nothing is     *)
(* assumed of the prefill worker or of the transfer engine: they may stop. *)
FairSpec ==
    /\ Spec
    /\ WF_vars(DecodeStep)
    /\ \A r \in Requests : WF_vars(Age(r))

-----------------------------------------------------------------------------
(* Properties. *)

\* Every variable has its type, and the records agree: a replica's counter
\* is the number of its requests between admission and token generation, on
\* every way out of there, and what the prefill worker has encoded can be
\* sent, its reply context and the decode worker's engine being known.
TypeOK ==
    /\ submitted \subseteq Requests /\ left \subseteq submitted
    /\ cancelQueue \subseteq left
    /\ requestQueue \in Seq(Requests) /\ pending_reqs \in Seq(Requests)
    /\ answer \in [Requests -> {"none", "stream", "twice", "repeated"} \cup Terminal]
    /\ dpc \in {"replies", "evict", "reserve", "cancel", "batch"}
    /\ phase \in [Requests -> Phases]
    /\ cancelled \subseteq Transferring /\ expired \subseteq InFlight
    /\ replica_idx \in [Requests -> Replicas \cup {NoReplica}]
    /\ held \in [Requests -> SUBSET Blocks]
    /\ tg \subseteq Requests /\ prevBatch \subseteq Requests
    /\ generated \in [Requests -> 0 .. MaxTokens]
    /\ write \in [Requests -> {"none", "posted", "landed"}]
    /\ dst \in [Requests -> SUBSET Blocks]
    /\ ppc \in {"requests", "batch", "transfer"}
    /\ gate \cup Elements(ce) \cup Elements(pending_first_token \o responses)
         \cup active_transfers \cup outstanding_cancelled \subseteq Requests
    /\ \A d \in Replicas :
         prefill_reqs_per_replica[d]
           = Cardinality({r \in InFlight : replica_idx[r] = d})
    /\ \A r \in Elements(pending_first_token \o responses) :
         connected /\ r \in reply_context

\* No result follows a terminal one: a request that was reported done or
\* cancelled (by cancellation or by eviction) gets no token and no second
\* end, whatever responses, transfers and overlapped batches still hold it.
\* Only a request reported done with its first token, which
\* check_for_completed_transfers still lets run, is told its end a second
\* time, and then no more.
OneTerminalAnswer == \A r \in Requests : answer[r] # "repeated"

\* A request starts to run (check_for_completed_transfers) only when its own
\* transfer has landed, in the very blocks it holds.
RunsOnItsOwnCache ==
    [][\A r \in Requests :
         (r \in tg' /\ r \notin tg) =>
            /\ write[r] = "landed" /\ dst[r] = held[r]
            /\ held'[r] = held[r]]_vars

\* The blocks of a request whose transfer the decode worker knows of are
\* released before the write has landed only by the TTL, never by a
\* cancellation: _handle_cancelled_requests defers the release.
KnownWritePinsBlocks ==
    [][\A r \in Transferring :
         (held'[r] # held[r] /\ write[r] # "landed") => r \in expired]_vars

\* With a TTL every submitted request gets a terminal answer, even if the
\* prefill worker drops it (a failed grammar), never runs, or the transfer
\* never lands.
EveryRequestAnswered ==
    \A r \in Requests : r \in submitted ~> Over(r)

\* Nothing writes into KV blocks that the decode worker has released:
\* what _handle_cancelled_requests relies on when it releases the blocks of
\* a request still awaiting its prefill response at once.
ReleasedBlocksQuiet ==
    \A r \in Requests : write[r] = "posted" => dst[r] \subseteq held[r]
=============================================================================
