-------------------------- MODULE PagedBlockManager --------------------------
(***************************************************************************)
(* The block manager of the paged KV cache, on one replica, with its pool  *)
(* of reference-counted blocks, the prefix cache over them and a connector *)
(* that copies blocks from and to host memory while the scheduler runs on  *)
(* (rust_tiered; connectors that copy in stream order are left out).       *)
(*                                                                         *)
(* A request is the sequence of hashes of the full blocks its tokens fill; *)
(* two requests with a common prefix share hashes.  Lengths are counted in *)
(* full blocks; a request always needs one block more, for its last        *)
(* tokens.  content[b] is what the device memory of b really holds.        *)
(***************************************************************************)
EXTENDS Integers, Sequences, FiniteSets, SequencesExt

CONSTANTS
    Requests, Hashes,
    Chain,            \* Chain[r]: the hashes of the blocks r fills
    PromptBlocks,     \* PromptBlocks[r]: how many of them its prompt fills
    Blocks,
    MaxTransfers,     \* bound on the transfers in flight
    None

ASSUME ChainAssumption ==
    /\ None \notin Hashes
    /\ IsFiniteSet(Blocks) /\ MaxTransfers \in Nat
    /\ \A r \in Requests :
         Chain[r] \in Seq(Hashes) /\ PromptBlocks[r] \in 0..Len(Chain[r])

VARIABLES
    op,               \* the call in progress and its request, or <<"idle", None>>
    pool,             \* ref: ref_cnt, hash: block_hash, free: free_block_queue
    claimed,          \* req_to_replica
    req_to_blocks,
    committed,        \* req_to_committed_idx, in blocks
    known,            \* the full blocks whose tokens are known, so hashed
    processed,        \* the full blocks computed
    prefilled,        \* whether one token is active: the request generates
    pending_offloads, \* _pending_offloads
    transfers,        \* _pending_transfers
    host,             \* the hashes the connector holds
    content           \* what each block's memory holds

Elements(s) == {s[i] : i \in DOMAIN s}

requests == <<claimed, req_to_blocks, committed, known, processed, prefilled>>
vars == <<op, pool, requests, pending_offloads, transfers, host, content>>

Idle == <<"idle", None>>

Init ==
    /\ \E free \in SetToAllKPermutations(Blocks) :
         /\ Len(free) = Cardinality(Blocks)
         /\ pool = [ref  |-> [b \in Blocks |-> 0],
                    hash |-> [b \in Blocks |-> None], free |-> free]
    /\ op = Idle
    /\ claimed = {}
    /\ req_to_blocks = [r \in Requests |-> <<>>]
    /\ committed = [r \in Requests |-> 0]
    /\ known = PromptBlocks
    /\ processed = [r \in Requests |-> 0]
    /\ prefilled = [r \in Requests |-> FALSE]
    /\ pending_offloads = <<>> /\ transfers = <<>> /\ host = {}
    /\ content = [b \in Blocks |-> None]

-----------------------------------------------------------------------------
(* BlockPool. *)

InCache(p, h) == \E b \in Blocks : p.hash[b] = h
prefix_cache(p, h) == CHOOSE b \in Blocks : p.hash[b] = h

\* touch for every block of the sequence s; no block is in it twice.
touch(p, s) ==
    [p EXCEPT !.ref = [b \in Blocks |-> @[b] + (IF b \in Elements(s) THEN 1 ELSE 0)],
              !.free = SelectSeq(@, LAMBDA b : b \notin Elements(s))]

\* Mutant of free_block: the block is queued whenever it is freed.
free_block_Always(p, s) ==
    [p EXCEPT !.ref = [b \in Blocks |-> @[b] - (IF b \in Elements(s) THEN 1 ELSE 0)],
              !.free = @ \o s]

\* free_block for every block of s, in that order.
free_block(p, s) ==
    [p EXCEPT !.ref = [b \in Blocks |-> @[b] - (IF b \in Elements(s) THEN 1 ELSE 0)],
              !.free = @ \o SelectSeq(s, LAMBDA b : p.ref[b] = 1)]

\* Mutant of alloc_blocks: an evicted block stays in the prefix cache.
alloc_blocks_NoEvict(p, n) ==
    LET taken == {p.free[i] : i \in 1..n}
    IN  [p EXCEPT !.ref = [b \in Blocks |-> IF b \in taken THEN 1 ELSE @[b]],
                  !.free = SubSeq(@, n + 1, Len(@))]

\* alloc_block, n times: the least recently freed blocks leave the cache.
alloc_blocks(p, n) ==
    LET taken == {p.free[i] : i \in 1..n}
    IN  [ref  |-> [b \in Blocks |-> IF b \in taken THEN 1 ELSE p.ref[b]],
         hash |-> [b \in Blocks |-> IF b \in taken THEN None ELSE p.hash[b]],
         free |-> SubSeq(p.free, n + 1, Len(p.free))]

\* The longest prefix of s all of whose elements are in S.
Run(s, S) ==
    LET n == CHOOSE n \in 0..Len(s) :
               /\ \A i \in 1..n : s[i] \in S
               /\ n < Len(s) => s[n + 1] \notin S
    IN  SubSeq(s, 1, n)

-----------------------------------------------------------------------------
(* Transfers. *)

\* _track_transfer: the blocks are pinned until poll_transfers.
Transfer(kind, blocks, hashes) ==
    [kind |-> kind, blocks |-> blocks, hashes |-> hashes, complete |-> FALSE]

HashIn(t, b) == t.hashes[CHOOSE k \in DOMAIN t.blocks : t.blocks[k] = b]

\* The copy ends: an onload has written its blocks.
CompleteTransfer(i) ==
    LET t == transfers[i]
    IN  /\ ~t.complete
        /\ transfers' = [transfers EXCEPT ![i].complete = TRUE]
        /\ content' = [b \in Blocks |->
              IF t.kind = "load" /\ \E k \in DOMAIN t.blocks : t.blocks[k] = b
              THEN HashIn(t, b) ELSE content[b]]
        /\ host' = IF t.kind = "offload" THEN host \cup {t.hashes[k] : k \in DOMAIN t.hashes}
                   ELSE host
        /\ UNCHANGED <<op, pool, requests, pending_offloads>>

\* Mutant of Landed: a request is run without waiting for its onload.
Landed_Always(r) == TRUE

\* Whether the onload of r's blocks has landed, as the scheduler asks.
Landed(r) ==
    \A i \in DOMAIN transfers :
      transfers[i].kind = "load" /\ ~transfers[i].complete =>
        \A k \in DOMAIN transfers[i].blocks :
          \A j \in DOMAIN req_to_blocks[r] : req_to_blocks[r][j] # transfers[i].blocks[k]

-----------------------------------------------------------------------------
(* The operations of the manager. *)

\* alloc(r), in three parts: drain the transfers, reuse the blocks of the
\* prefix, add the blocks still missing.  Copies may end in between.  The
\* scheduler claims a request just before its first alloc.
alloc(r) ==
    /\ op = Idle
    /\ op' = <<"poll", r>>
    /\ claimed' = claimed \cup {r}
    /\ UNCHANGED <<pool, req_to_blocks, committed, known, processed, prefilled,
                   pending_offloads, transfers, host, content>>

\* poll_transfers, for one complete transfer.  An onload is committed, unless
\* its hash has been meanwhile; then its blocks are unpinned.
PollOne ==
    LET i == CHOOSE i \in DOMAIN transfers :
               transfers[i].complete /\ \A j \in 1..(i - 1) : ~transfers[j].complete
        t == transfers[i]
        Publishes(b) == \E k \in DOMAIN t.blocks :
           t.kind = "load" /\ t.blocks[k] = b /\ pool.hash[b] = None
             /\ ~InCache(pool, t.hashes[k])
    IN  /\ op[1] = "poll"
        /\ \E j \in DOMAIN transfers : transfers[j].complete
        /\ pool' = free_block(
             [pool EXCEPT !.hash = [b \in Blocks |->
                IF Publishes(b) THEN HashIn(t, b) ELSE @[b]]], t.blocks)
        /\ transfers' = RemoveAt(transfers, i)
        /\ UNCHANGED <<op, requests, pending_offloads, host, content>>

\* The hashes of r's prompt that are not committed yet; none once r generates.
Desired(r) ==
    IF prefilled[r] THEN <<>> ELSE SubSeq(Chain[r], committed[r] + 1, known[r])

\* The blocks on the device for the hashes of s, up to the first miss.
DeviceHits(s) ==
    LET hit == Run(s, Elements(pool.hash))
    IN  [k \in DOMAIN hit |-> prefix_cache(pool, hit[k])]

\* How many blocks are taken for hashes the host may hold.
HostTries(missed, free) ==
    IF Len(missed) < Len(free) THEN Len(missed) ELSE Len(free)

\* reuse_blocks_from_prefix_cache: the blocks of the prefix that are on the
\* device are shared; then blocks are taken, from the cache too, for the hashes
\* that follow, and those the host cannot fill are given back.
reuse_blocks_from_prefix_cache ==
    LET r       == op[2]
        mine    == req_to_blocks[r]
        desired == Desired(r)
        device  == DeviceHits(desired)
        shared  == touch(pool, device)
        missed  == SubSeq(desired, Len(device) + 1, Len(desired))
        tried   == HostTries(missed, shared.free)
        fresh   == SubSeq(shared.free, 1, tried)
        held    == Run(SubSeq(missed, 1, tried), host)
    IN  /\ op[1] = "poll"
        /\ \A i \in DOMAIN transfers : ~transfers[i].complete
        /\ op' = <<"allocate", r>>
        /\ \E n \in 0..Len(held) :
             LET loaded == SubSeq(fresh, 1, n)
                 hits   == device \o loaded
                 kept   == IF hits = <<>> THEN mine ELSE SubSeq(mine, 1, committed[r])
                 \* release_uncommitted_blocks
                 dropped == Reverse(SubSeq(mine, Len(kept) + 1, Len(mine)))
             IN  /\ n > 0 => Len(transfers) < MaxTransfers
                 /\ pool' = free_block(
                      touch(free_block(alloc_blocks(shared, tried),
                                       SubSeq(fresh, n + 1, tried)),
                            loaded),
                      dropped)
                 /\ req_to_blocks' = [req_to_blocks EXCEPT ![r] = kept \o hits]
                 /\ committed' = [committed EXCEPT ![r] = @ + Len(hits)]
                 /\ processed' = [processed EXCEPT ![r] =
                                    IF hits = <<>> THEN @ ELSE committed[r] + Len(hits)]
                 /\ transfers' = transfers \o
                      (IF n = 0 THEN <<>>
                       ELSE <<Transfer("load", loaded, SubSeq(missed, 1, n))>>)
        /\ content' = [b \in Blocks |-> IF b \in Elements(fresh) THEN None ELSE content[b]]
        /\ UNCHANGED <<claimed, known, prefilled, pending_offloads, host>>

\* allocate_new_blocks; InsufficientBlocksError leaves the request as it is.
allocate_new_blocks ==
    LET r    == op[2]
        have == Len(req_to_blocks[r])
        need == IF known[r] + 1 > have THEN known[r] + 1 - have ELSE 0
        new  == IF need <= Len(pool.free) THEN SubSeq(pool.free, 1, need) ELSE <<>>
    IN  /\ op[1] = "allocate"
        /\ op' = Idle
        /\ pool' = alloc_blocks(pool, Len(new))
        /\ req_to_blocks' = [req_to_blocks EXCEPT ![r] = @ \o new]
        /\ content' = [b \in Blocks |-> IF b \in Elements(new) THEN None ELSE content[b]]
        /\ UNCHANGED <<claimed, committed, known, processed, prefilled,
                       pending_offloads, transfers, host>>

\* A forward pass writes the KV of a prompt, or a chunk of it, or the tokens
\* that fill the next block, and step commits the blocks now full.  A batch
\* steps a request once, and the next batch begins with an offload.
step(r) ==
    LET before == processed[r]
        blocks == req_to_blocks[r]
    IN  /\ op = Idle /\ r \in claimed
        /\ Len(blocks) > known[r]
        /\ Landed(r)
        /\ Len(pending_offloads) < Cardinality(Requests)
        /\ \/ /\ ~prefilled[r]
              /\ \E n \in before..known[r] :
                   /\ n > before \/ n = known[r]
                   /\ processed' = [processed EXCEPT ![r] = n]
                   /\ prefilled' = [prefilled EXCEPT ![r] = (n = known[r])]
              /\ UNCHANGED known
           \/ /\ prefilled[r] /\ known[r] < Len(Chain[r])
              /\ known' = [known EXCEPT ![r] = @ + 1]
              /\ processed' = [processed EXCEPT ![r] = @ + 1]
              /\ UNCHANGED prefilled
        /\ content' = [b \in Blocks |->
              IF \E k \in (before + 1)..processed'[r] : blocks[k] = b
              THEN Chain[r][CHOOSE k \in (before + 1)..processed'[r] : blocks[k] = b]
              ELSE content[b]]
        /\ pending_offloads' =
             IF processed'[r] > committed[r]
             THEN Append(pending_offloads, SubSeq(Chain[r], committed[r] + 1, processed'[r]))
             ELSE pending_offloads
        /\ op' = <<"commit", r>>
        /\ UNCHANGED <<pool, claimed, req_to_blocks, committed, transfers, host>>

\* commit_to_prefix_cache, for one block: it is committed, or gives way to the
\* block already cached for its hash.
CommitOne ==
    LET r == op[2]
        k == committed[r] + 1
        h == Chain[r][k]
        b == req_to_blocks[r][k]
        cached == prefix_cache(pool, h)
    IN  /\ op[1] = "commit"
        /\ committed[r] < processed[r]
        /\ IF InCache(pool, h)
           THEN /\ pool' = IF cached = b THEN pool
                           ELSE free_block(touch(pool, <<cached>>), <<b>>)
                /\ req_to_blocks' = [req_to_blocks EXCEPT ![r][k] = cached]
           ELSE /\ pool' = [pool EXCEPT !.hash[b] = h]
                /\ UNCHANGED req_to_blocks
        /\ committed' = [committed EXCEPT ![r] = k]
        /\ UNCHANGED <<op, claimed, known, processed, prefilled,
                       pending_offloads, transfers, host, content>>

CommitDone ==
    /\ op[1] = "commit"
    /\ committed[op[2]] >= processed[op[2]]
    /\ op' = Idle
    /\ UNCHANGED <<pool, requests, pending_offloads, transfers, host, content>>

\* Mutant of release: the committed index outlives the request's blocks.
release_KeepsCommitted(r) ==
    /\ op = Idle /\ r \in claimed
    /\ pool' = free_block(pool, Reverse(req_to_blocks[r]))
    /\ claimed' = claimed \ {r}
    /\ req_to_blocks' = [req_to_blocks EXCEPT ![r] = <<>>]
    /\ processed' = [processed EXCEPT ![r] = 0]
    /\ prefilled' = [prefilled EXCEPT ![r] = FALSE]
    /\ UNCHANGED <<op, committed, known, pending_offloads, transfers, host, content>>

\* The request is done, preempted or cancelled; it may be claimed again.
release(r) ==
    /\ op = Idle /\ r \in claimed
    /\ pool' = free_block(pool, Reverse(req_to_blocks[r]))
    /\ claimed' = claimed \ {r}
    /\ req_to_blocks' = [req_to_blocks EXCEPT ![r] = <<>>]
    /\ committed' = [committed EXCEPT ![r] = 0]
    /\ processed' = [processed EXCEPT ![r] = 0]
    /\ prefilled' = [prefilled EXCEPT ![r] = FALSE]
    /\ UNCHANGED <<op, known, pending_offloads, transfers, host, content>>

\* Mutant of offload: the blocks are not pinned while they are copied.
offload_NoPin ==
    LET run == Run(Head(pending_offloads), Elements(pool.hash))
        sent == Transfer("offload", [k \in DOMAIN run |-> prefix_cache(pool, run[k])], run)
    IN  /\ op \in {Idle, <<"offload", None>>}
        /\ pending_offloads # <<>>
        /\ op = Idle => Len(transfers) + Len(pending_offloads) <= MaxTransfers
        /\ transfers' = IF run = <<>> THEN transfers ELSE Append(transfers, sent)
        /\ pending_offloads' = Tail(pending_offloads)
        /\ op' = IF Len(pending_offloads) = 1 THEN Idle ELSE <<"offload", None>>
        /\ UNCHANGED <<pool, requests, host, content>>

\* offload, for one run of committed hashes: what is still cached of it goes
\* to the host, its blocks pinned.  The scheduler waits while it runs.
offload ==
    LET run == Run(Head(pending_offloads), Elements(pool.hash))
        sent == Transfer("offload", [k \in DOMAIN run |-> prefix_cache(pool, run[k])], run)
    IN  /\ op \in {Idle, <<"offload", None>>}
        /\ pending_offloads # <<>>
        /\ op = Idle => Len(transfers) + Len(pending_offloads) <= MaxTransfers
        /\ pool' = touch(pool, sent.blocks)
        /\ transfers' = IF run = <<>> THEN transfers ELSE Append(transfers, sent)
        /\ pending_offloads' = Tail(pending_offloads)
        /\ op' = IF Len(pending_offloads) = 1 THEN Idle ELSE <<"offload", None>>
        /\ UNCHANGED <<requests, host, content>>

\* The cached blocks nobody holds are forgotten, and the connector's tiers.
reset_prefix_cache ==
    /\ op = Idle
    /\ pool' = [pool EXCEPT !.hash = [b \in Blocks |->
                  IF pool.ref[b] = 0 THEN None ELSE pool.hash[b]]]
    /\ host' = {}
    /\ UNCHANGED <<op, requests, pending_offloads, transfers, content>>

Next ==
    \/ \E r \in Requests : alloc(r) \/ step(r) \/ release(r)
    \/ PollOne \/ reuse_blocks_from_prefix_cache \/ allocate_new_blocks
    \/ CommitOne \/ CommitDone
    \/ offload \/ reset_prefix_cache
    \/ \E i \in DOMAIN transfers : CompleteTransfer(i)

Spec == Init /\ [][Next]_vars

-----------------------------------------------------------------------------
(* Properties. *)

\* Every variable has its type, and a request's lengths agree: what is
\* committed or processed has a block, through every reuse, rewind and release
\* (the assertion of allocate_new_blocks).
TypeOK ==
    /\ pool.ref \in [Blocks -> Nat]
    /\ pool.hash \in [Blocks -> Hashes \cup {None}]
    /\ pool.free \in Seq(Blocks)
    /\ claimed \subseteq Requests
    /\ req_to_blocks \in [Requests -> Seq(Blocks)]
    /\ \A r \in Requests :
         /\ committed[r] \in 0..Len(req_to_blocks[r])
         /\ processed[r] \in 0..known[r] /\ processed[r] <= Len(req_to_blocks[r])
         /\ known[r] \in PromptBlocks[r]..Len(Chain[r])
    /\ prefilled \in [Requests -> BOOLEAN]
    /\ pending_offloads \in Seq(Seq(Hashes))
    /\ \A i \in DOMAIN transfers : Len(transfers[i].blocks) = Len(transfers[i].hashes)
    /\ host \subseteq Hashes
    /\ content \in [Blocks -> Hashes \cup {None}]

\* A block is referenced exactly by the requests that list it and the
\* transfers that pin it, and the free queue holds each unreferenced block
\* once: nothing leaks and nothing is handed out twice, whatever was shared,
\* swapped for a cached block, released in mid-copy or evicted.
RefCountsExact ==
    /\ \A b \in Blocks :
         pool.ref[b] =
           Cardinality({r \in Requests : b \in Elements(req_to_blocks[r])})
           + Cardinality({i \in DOMAIN transfers : b \in Elements(transfers[i].blocks)})
    /\ Elements(pool.free) = {b \in Blocks : pool.ref[b] = 0}
    /\ Len(pool.free) = Cardinality(Elements(pool.free))

\* When a forward pass has run for a request, the blocks it attended to, and
\* those its commit swaps in, hold the KV of the request's own prefix: nothing
\* of another request, of an evicted block or of a copy that has not landed.
ReadsItsOwnPrefix ==
    op[1] = "commit" =>
      \A k \in 1..processed[op[2]] :
        content[req_to_blocks[op[2]][k]] = Chain[op[2]][k]

\* The prefix cache has one block per hash, and the block holds that prefix: a
\* hash is never published before its copy has landed, and never stays on a
\* block that was handed out again.
CacheHoldsItsHashes ==
    \A b \in Blocks : pool.hash[b] # None =>
      /\ content[b] = pool.hash[b]
      /\ \A c \in Blocks \ {b} : pool.hash[c] # pool.hash[b]

\* While an offload copies a block to the host, the block keeps the content it
\* was offloaded for, though its request may be gone.
OffloadReadsItsBlocks ==
    \A i \in DOMAIN transfers :
      transfers[i].kind = "offload" /\ ~transfers[i].complete =>
        \A k \in DOMAIN transfers[i].blocks :
          content[transfers[i].blocks[k]] = transfers[i].hashes[k]
=============================================================================
