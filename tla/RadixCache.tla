----------------------------- MODULE RadixCache -----------------------------
(***************************************************************************)
(* The prefix cache and the requests that use it: RadixCache over a paged  *)
(* KV pool, driven by the life of requests. A request is matched and       *)
(* locked on admission, prefilled in one or several chunks, decodes, and   *)
(* is finished, retracted or aborted; sessions are closed and the cache is *)
(* flushed in between. The order of these calls is left free wherever the  *)
(* scheduler's policies decide it; one decode step may be launched before  *)
(* the result of the previous step is processed (the overlap loop).        *)
(*                                                                         *)
(* req[r] is a Req. row is its row of req_to_token up to kv_committed_len; *)
(* without speculative decoding kv_allocated_len is the same number, and   *)
(* prefix_indices is row up to prefix_len. end is extend_range.end. The    *)
(* output token of a launched step arrives when its result is processed,   *)
(* and in_flight counts the steps launched and not yet processed.          *)
(***************************************************************************)
EXTENDS RadixTree

CONSTANTS Reqs,
          Prompts,              \* origin_input_ids a client may send
          Tokens,               \* tokens the model may sample
          NumPages,             \* pages of the KV pool
          max_new_tokens,       \* the sampling parameter, the same for all
          RetractDecodeSteps,   \* SGLANG_RETRACT_DECODE_STEPS
          MaxInFlight           \* 1: event_loop_normal, 2: event_loop_overlap

VARIABLES cache, req

vars == <<cache, req>>

NoReq == [phase |-> "none", origin |-> <<>>, output |-> <<>>, session_id |-> NoSession,
          row |-> <<>>, prefix_len |-> 0, end |-> 0, cache_protected_len |-> 0,
          last_node |-> NoNode, in_flight |-> 0, prefilled |-> FALSE]

fill_ids(q) == q.origin \o q.output

Running == {r \in Reqs : req[r].phase = "running"}

\* A request whose prefill is not complete is the scheduler's chunked_req.
Chunked(q) == q.phase = "running" /\ q.end < Len(fill_ids(q)) /\ ~q.prefilled

-----------------------------------------------------------------------------
(* The KV pool.                                                            *)

Available(c) == {p \in DOMAIN c.free_pages : c.free_pages[p] > 0}

available_size(c) == Cardinality(Available(c)) * page_size

ceil_pages(n) == (n + page_size - 1) \div page_size

\* Mutant: eviction starts only when nothing at all is available.
evict_from_tree_cache_when_empty(c, num_tokens) ==
    IF available_size(c) = 0 THEN evict(c, num_tokens) ELSE {c}

evict_from_tree_cache(c, num_tokens) ==
    IF available_size(c) < num_tokens THEN evict(c, num_tokens) ELSE {c}

\* Pages are interchangeable: the smallest ones stand for the head of the list.
NextPages(c, n) == Upto(SetToSortSeq(Available(c), <), n)

\* The row from its present length to `end': the last page is filled up first.
extended_row(row, pages, end) ==
    [i \in 1..end |->
        IF i <= Len(row) THEN row[i]
        ELSE LET k == (i - 1) \div page_size - ceil_pages(Len(row))
                 page == IF k < 0 THEN page_of(row[Len(row)]) ELSE pages[k + 1]
             IN  (page * page_size) + ((i - 1) % page_size)]

\* <<cache, row>> after alloc_extend() or alloc_decode(), {} if it returns None.
alloc_to(c, row, end) ==
    LET n == ceil_pages(end) - ceil_pages(Len(row))
        pages == NextPages(c, n)
    IN  IF n > Cardinality(Available(c)) THEN {}
        ELSE {<<[c EXCEPT !.free_pages = [p \in DOMAIN c.free_pages |->
                    c.free_pages[p] - (IF p \in Range(pages) THEN 1 ELSE 0)]],
                extended_row(row, pages, end)>>}

\* alloc_token_slots(), or the over-estimate of alloc_paged_token_slots_extend()
extend_need(extend_len) == IF page_size = 1 THEN extend_len ELSE extend_len + page_size

alloc_for_extend(c, row, end) ==
    UNION {alloc_to(d, row, end) :
              d \in evict_from_tree_cache(c, extend_need(end - Len(row)))}

alloc_for_decode(c, row) ==
    UNION {alloc_to(d, row, Len(row) + 1) : d \in evict_from_tree_cache(c, page_size)}

new_tokens_required_next_decode(q) ==
    IF Len(q.row) % page_size = 0 THEN page_size ELSE 0

-----------------------------------------------------------------------------
(* What the cache does with a request.                                     *)

\* Mutant: the row is not rewritten with the indices the tree kept.
cache_unfinished_req_keeps_row(c, q) ==
    LET key == page_aligned(Upto(fill_ids(q), q.end))
        ins == insert(c, key, Upto(q.row, q.end))
        dedup == free(ins.cache, After(Upto(q.row, ins.prefix_len),
                                       q.cache_protected_len))
        m == match_prefix(dedup, key)
    IN  [cache |-> inc_lock_ref(dec_lock_ref(m.cache, q.last_node), m.last_node),
         req |-> [q EXCEPT !.prefix_len = Max({Min({q.end, Len(q.row)}), Len(key)}),
                           !.cache_protected_len = Len(key),
                           !.last_node = m.last_node]]

cache_unfinished_req(c, q) ==
    LET token_ids == Upto(fill_ids(q), q.end)
        kv_indices == Upto(q.row, Len(token_ids))
        key == page_aligned(token_ids)
        ins == insert(c, key, kv_indices)
        dedup == free(ins.cache, After(Upto(kv_indices, ins.prefix_len),
                                       q.cache_protected_len))
        m == match_prefix(dedup, key)
        new_indices == m.device_indices
        relocked == inc_lock_ref(dec_lock_ref(m.cache, q.last_node), m.last_node)
    IN  [cache |-> tag_session_leaf(relocked, q.session_id, key, m.last_node),
         req |-> [q EXCEPT
             !.row = Upto(@, q.cache_protected_len)
                     \o After(new_indices, q.cache_protected_len)
                     \o After(@, Len(new_indices)),
             !.prefix_len = Max({Len(kv_indices), Len(new_indices)}),
             !.cache_protected_len = Len(new_indices),
             !.last_node = m.last_node]]

\* Mutants: the unaligned tail is not freed; the duplicates are not freed.
cache_finished_req_keeps_tail(c, q, is_insert) ==
    LET token_ids == Upto(fill_ids(q), Len(q.row))
        key == page_aligned(token_ids)
        ins == IF is_insert THEN insert(c, key, q.row)
               ELSE [cache |-> c, prefix_len |-> Len(key), last_node |-> NoNode]
        dedup == free(ins.cache, After(Upto(q.row, ins.prefix_len),
                                       q.cache_protected_len))
    IN  dec_lock_ref(tag_session_leaf(dedup, q.session_id, key, ins.last_node), q.last_node)

cache_finished_req_keeps_duplicates(c, q, is_insert) ==
    LET token_ids == Upto(fill_ids(q), Len(q.row))
        key == page_aligned(token_ids)
        ins == IF is_insert THEN insert(c, key, q.row)
               ELSE [cache |-> c, prefix_len |-> Len(key), last_node |-> NoNode]
        tail == free(ins.cache, After(Upto(q.row, Len(token_ids)), Len(key)))
    IN  dec_lock_ref(tag_session_leaf(tail, q.session_id, key, ins.last_node), q.last_node)

\* release_kv_cache(): cache_finished_req(), then the request's row is given up.
cache_finished_req(c, q, is_insert) ==
    LET token_ids == Upto(fill_ids(q), Len(q.row))
        kv_indices == Upto(q.row, Len(token_ids))
        key == page_aligned(token_ids)
        ins == IF is_insert THEN insert(c, key, kv_indices)
               ELSE [cache |-> c, prefix_len |-> Len(key), last_node |-> NoNode]
        dedup == free(ins.cache, After(Upto(kv_indices, ins.prefix_len),
                                       q.cache_protected_len))
        tail == free(dedup, After(kv_indices, Len(key)))
        tagged == tag_session_leaf(tail, q.session_id, key, ins.last_node)
    IN  dec_lock_ref(tagged, q.last_node)

\* release_req(): the KV of a retracted request is not inserted, and the space
\* the remaining requests will need is evicted at once.
release_req(c, q, remaining_req_count) ==
    evict_from_tree_cache(cache_finished_req(c, q, FALSE),
                          remaining_req_count * RetractDecodeSteps)

reset_for_retract(q) == [NoReq EXCEPT !.phase = "waiting", !.origin = q.origin,
                                      !.output = q.output, !.session_id = q.session_id]

-----------------------------------------------------------------------------
(* Steps.                                                                  *)

Init == /\ cache = reset([nodes |-> <<>>, evictable_size_ |-> 0, protected_size_ |-> 0,
                          evictable_leaves |-> {}, session_leaves |-> <<>>,
                          closed_session_ids |-> <<>>,
                          free_pages |-> [p \in 1..NumPages |-> 1]])
        /\ req = [r \in Reqs |-> NoReq]

Submit(r) == \E prompt \in Prompts, sid \in Sessions \cup {NoSession} :
    /\ req[r].phase = "none"
    /\ req' = [req EXCEPT ![r] = [NoReq EXCEPT !.phase = "waiting", !.origin = prompt,
                                               !.session_id = sid]]
    /\ UNCHANGED cache

\* init_next_round_input(tree_cache): at least one token is left to compute.
matched(c, q) == match_prefix(c, Upto(fill_ids(q), Len(fill_ids(q)) - 1))

\* The test of add_one_req(), under the lock on the matched node. What running
\* requests are expected to need is subtracted as well; it only makes it stricter.
fits(c, q, prefix_len) ==
    (Len(fill_ids(q)) - prefix_len) + (max_new_tokens - Len(q.output)) + page_size
        < available_size(c) + c.evictable_size_

\* The whole of the input, or a first chunk that ends on a page boundary.
extend_ends(q, prefix_len) ==
    {e \in (prefix_len + 1)..Len(fill_ids(q)) : e = Len(fill_ids(q)) \/ e % page_size = 0}

Admit(r) ==
    LET q == req[r]
        m == matched(cache, q)
        locked == inc_lock_ref(m.cache, m.last_node)
        prefix_len == Len(m.device_indices)
    IN  /\ q.phase = "waiting"
        /\ fits(locked, q, prefix_len)
        /\ \E end \in extend_ends(q, prefix_len) :
             \E a \in alloc_for_extend(locked, m.device_indices, end) :
               /\ cache' = a[1]
               /\ req' = [req EXCEPT ![r] =
                      [q EXCEPT !.phase = "running", !.row = a[2], !.end = end,
                                !.prefix_len = prefix_len,
                                !.cache_protected_len = prefix_len,
                                !.last_node = m.last_node,
                                !.in_flight = IF end = Len(fill_ids(q)) THEN 1 ELSE 0]]

\* The adder declines; the match before it may already have split a node.
Decline(r) == /\ req[r].phase = "waiting"
              /\ cache' = matched(cache, req[r]).cache
              /\ UNCHANGED req

\* stash_chunked_request()
Stash(r) == LET u == cache_unfinished_req(cache, req[r]) IN
    /\ Chunked(req[r])
    /\ req[r].end > req[r].prefix_len
    /\ cache' = u.cache
    /\ req' = [req EXCEPT ![r] = u.req]

\* add_chunked_req(): no re-match, and a chunk of any length the budget allows.
next_chunk_ends(c, q) ==
    {e \in (q.prefix_len + 1)..Len(fill_ids(q)) :
        e - q.prefix_len <= available_size(c) + c.evictable_size_}

NextChunk(r) == LET q == req[r] IN
    /\ Chunked(q)
    /\ q.end = q.prefix_len
    /\ \E end \in next_chunk_ends(cache, q) :
         \E a \in alloc_for_extend(cache, q.row, end) :
           /\ cache' = a[1]
           /\ req' = [req EXCEPT ![r] = [q EXCEPT
                  !.row = a[2], !.end = end,
                  !.in_flight = IF end = Len(fill_ids(q)) THEN 1 ELSE 0]]

\* Mutant: two decode steps are launched ahead of the result being processed.
LaunchDecode_two_ahead(r) == LET q == req[r] IN
    /\ q.phase = "running" /\ ~Chunked(q)
    /\ q.in_flight <= MaxInFlight
    /\ \E a \in alloc_for_decode(cache, q.row) :
          /\ cache' = a[1]
          /\ req' = [req EXCEPT ![r] = [q EXCEPT !.row = a[2], !.in_flight = @ + 1]]

\* update_running_batch(): the step is launched when what was available at the top
\* of the iteration pays for it. The allocation evicts for a whole new page.
LaunchDecode(r) == LET q == req[r] IN
    /\ q.phase = "running" /\ ~Chunked(q)
    /\ q.in_flight < MaxInFlight
    /\ available_size(cache) >= new_tokens_required_next_decode(q)
    /\ \E a \in alloc_for_decode(cache, q.row) :
          /\ cache' = a[1]
          /\ req' = [req EXCEPT ![r] = [q EXCEPT !.row = a[2], !.in_flight = @ + 1]]

\* process_batch_result_prefill() for the last chunk, process_batch_result_decode()
\* afterwards. What a finished request still has in flight is dropped.
ProcessResult(r) ==
    /\ req[r].phase = "running" /\ ~Chunked(req[r]) /\ req[r].in_flight > 0
    /\ \E token \in Tokens, finished \in BOOLEAN :
        LET q == [req[r] EXCEPT !.output = Append(@, token), !.in_flight = @ - 1,
                                !.prefilled = TRUE]
        IN  /\ Len(q.output) >= max_new_tokens => finished
            /\ IF finished
               THEN /\ cache' = cache_finished_req(cache, q, TRUE)
                    /\ req' = [req EXCEPT ![r] = NoReq]
               ELSE IF req[r].prefilled
               THEN /\ req' = [req EXCEPT ![r] = q]
                    /\ UNCHANGED cache
               ELSE LET u == cache_unfinished_req(cache, q)
                    IN  /\ cache' = u.cache
                        /\ req' = [req EXCEPT ![r] = u.req]

\* retract_decode(), after an eviction for the batch's next step, or
\* preempt_to_schedule(), without one.
Retract(r) ==
    LET next_step == MapThenSumSet(LAMBDA x : new_tokens_required_next_decode(req[x]),
                                   {x \in Running : ~Chunked(req[x])})
    IN  /\ req[r].phase = "running" /\ ~Chunked(req[r])
        /\ req[r].in_flight < MaxInFlight
        /\ \E c \in {cache} \cup evict_from_tree_cache(cache, next_step) :
              cache' \in release_req(c, req[r], Cardinality(Running \ {r}))
        /\ req' = [req EXCEPT ![r] = reset_for_retract(req[r])]

\* process_pending_chunked_abort()
AbortChunked(r) == /\ Chunked(req[r])
                   /\ cache' = cache_finished_req(cache, req[r], FALSE)
                   /\ req' = [req EXCEPT ![r] = NoReq]

AbortWaiting(r) == /\ req[r].phase = "waiting"
                   /\ req' = [req EXCEPT ![r] = NoReq]
                   /\ UNCHANGED cache

CloseSession == \E sid \in Sessions :
    /\ cache' \in release_radix_session(cache, sid)
    /\ UNCHANGED req

\* flush_cache() on an idle server: the tree is reset and the allocator cleared.
FlushCache == /\ \A r \in Reqs : req[r].phase = "none"
              /\ cache' = [reset(cache) EXCEPT !.free_pages = [p \in 1..NumPages |-> 1]]
              /\ UNCHANGED req

Next == \/ \E r \in Reqs : \/ Submit(r) \/ Admit(r) \/ Decline(r)
                           \/ Stash(r) \/ NextChunk(r)
                           \/ LaunchDecode(r) \/ ProcessResult(r)
                           \/ Retract(r) \/ AbortChunked(r) \/ AbortWaiting(r)
        \/ CloseSession \/ FlushCache

Spec == Init /\ [][Next]_vars

-----------------------------------------------------------------------------
(* Properties.                                                             *)

Nodes == DOMAIN cache.nodes \ {Root}

\* The tree is a radix tree: a node's parent is in it, its name is its parent's
\* name followed by its key, one index per token of the key, whole pages only,
\* and no two children of a node begin with the same page.
TypeOK ==
    /\ Root \in DOMAIN cache.nodes
    /\ \A n \in Nodes : LET x == cache.nodes[n] IN
          /\ x.parent \in DOMAIN cache.nodes
          /\ n = x.parent \o x.key
          /\ Len(x.key) > 0 /\ Len(x.key) % page_size = 0 /\ Len(x.value) = Len(x.key)
          /\ x.lock_ref \in Nat
    /\ \A m, n \in Nodes :
          /\ cache.nodes[m].parent = cache.nodes[n].parent
          /\ child_key(cache.nodes[m].key) = child_key(cache.nodes[n].key)
          => m = n

Pages(indices) == {page_of(i) : i \in Range(indices)}

PrivatePages(q) == Pages(After(q.row, q.cache_protected_len))

\* The ledger the idle check of the scheduler adds up, page by page and in every
\* state: a page is exactly once on the free list, in one node of the tree, or
\* in the part of one request's row that the tree does not own. Two would be a
\* double free or KV shared by mistake, none a leak.
EveryPageOnce ==
    \A p \in 1..NumPages :
        cache.free_pages[p]
          + Cardinality({n \in Nodes : p \in Pages(cache.nodes[n].value)})
          + Cardinality({r \in Running : p \in PrivatePages(req[r])}) = 1

PathOf(c, n) == {x \in DOMAIN c.nodes : x # Root /\ IsPrefix(x, n)}

\* What a request reads is what it computed or matched: its row up to
\* cache_protected_len is exactly the indices stored along the path to its
\* last_node, and that path spells its own tokens. An eviction, a split, a
\* session close or the finish of a twin never pulls it away or changes it.
RowReadsTree ==
    \A r \in Running : LET q == req[r] IN
        /\ q.last_node \in DOMAIN cache.nodes
        /\ Len(q.last_node) = q.cache_protected_len
        /\ IsPrefix(q.last_node, fill_ids(q))
        /\ \A n \in PathOf(cache, q.last_node) :
              cache.nodes[n].value =
                  SubSeq(q.row, Len(cache.nodes[n].parent) + 1, Len(n))

\* A node is locked once for every running request at or below it, no more and
\* no less, whatever was split, inserted and released in between: a lost
\* reference lets eviction take KV in use, a surplus one pins it for ever.
LocksAreHolders ==
    \A n \in Nodes : cache.nodes[n].lock_ref =
        Cardinality({r \in Running : IsPrefix(n, req[r].last_node)})

TokensIn(S) == MapThenSumSet(LAMBDA n : Len(cache.nodes[n].key), S)

\* The running totals that admission and the ledger trust equal what a walk of
\* the tree would find, and evictable_leaves is exactly its unlocked frontier.
CountersAreExact ==
    LET unlocked == {n \in Nodes : cache.nodes[n].lock_ref = 0}
    IN  /\ cache.evictable_size_ = TokensIn(unlocked)
        /\ cache.protected_size_ = TokensIn(Nodes \ unlocked)
        /\ cache.evictable_leaves = {n \in unlocked : children(cache, n) = {}}

\* "A counter must never promise what the actuator cannot pay": evict() can free
\* every token evictable_size_ counts, in whatever order the heap yields them.
EvictionPays ==
    \A c \in evict(cache, cache.evictable_size_) :
        available_size(c) = available_size(cache) + cache.evictable_size_

\* A request that passes the admission test can be allocated for, with any chunk
\* and after any choice of victims, and so can the next chunk of a request that
\* is being prefilled: alloc_for_extend() does not raise.
AdmittedIsFunded ==
    \A r \in Reqs :
        LET m == matched(cache, req[r])
            locked == inc_lock_ref(m.cache, m.last_node)
            prefix_len == Len(m.device_indices)
        IN  /\ req[r].phase = "waiting" /\ fits(locked, req[r], prefix_len) =>
                 \A end \in extend_ends(req[r], prefix_len) :
                   \A c \in evict_from_tree_cache(locked, extend_need(end - prefix_len)) :
                     alloc_to(c, m.device_indices, end) # {}
            /\ Chunked(req[r]) /\ req[r].end = req[r].prefix_len =>
                 \A end \in next_chunk_ends(cache, req[r]) :
                   \A c \in evict_from_tree_cache(cache, extend_need(end - req[r].end)) :
                     alloc_to(c, req[r].row, end) # {}

\* The two directions of the session index agree: a session's indexed leaves are
\* the nodes of the tree that carry its id. An evicted or freed node is in no
\* index, so no close can free a page that was already given away.
SessionIndexAgrees ==
    \A sid \in Sessions : cache.session_leaves[sid] =
        {n \in Nodes : sid \in cache.nodes[n].session_ids}

\* A closed session stays closed: while its tombstone is kept, a request of it
\* that is still running or finishes late tags nothing, so no KV is indexed for a
\* session that nobody will close again.
ClosedStaysClosed ==
    \A sid \in Range(cache.closed_session_ids) : cache.session_leaves[sid] = {}

\* Closing a session takes nothing from others: nodes on the path of a node that
\* another session tagged, or that a request has locked, are all still there.
CloseSparesOthers ==
    [][ \A sid \in Sessions :
          cache'.closed_session_ids # cache.closed_session_ids
          /\ cache'.closed_session_ids # <<>>
          /\ cache'.closed_session_ids[Len(cache'.closed_session_ids)] = sid
          => \A n \in Nodes :
                \/ cache.nodes[n].session_ids \ {sid} # {}
                \/ cache.nodes[n].lock_ref > 0
                => PathOf(cache, n) \subseteq DOMAIN cache'.nodes ]_vars
=============================================================================
