-------------------------- MODULE DecodeRetraction --------------------------
(***************************************************************************)
(* Memory pressure in a group of tensor-parallel schedulers. Every rank    *)
(* runs the same scheduler loop over its own KV pool and its own replica   *)
(* of the prefix cache; nothing but one reduce at the top of an iteration  *)
(* tells a rank about the others, and the forward pass hangs if two ranks  *)
(* enter it with different batches. So every decision on memory (admit,    *)
(* evict, retract, abort) must come out the same on every rank, although   *)
(* the pools may differ in size.                                           *)
(*                                                                         *)
(* An iteration is event_loop_normal's: get_next_batch_to_run(), the       *)
(* forward pass and process_batch_result(). Between the reduce and the     *)
(* forward pass the ranks do not communicate, so one step takes them all   *)
(* through the iteration, each on its own state. A request is a number of  *)
(* tokens: the cache keeps one branch per request (no prompt is another's  *)
(* prefix), prefill is not chunked, and one request is admitted in a pass  *)
(* (prefill_max_requests = 1).                                             *)
(*                                                                         *)
(* rank[k] is one scheduler: avail is available_size() of its allocator,   *)
(* branch[r] the tokens of r in its radix tree, running and waiting its    *)
(* running_batch.reqs and waiting_queue, full is batch_is_full, output[r]  *)
(* and solo[r] are len(output_ids) and solo_oom_count, done the finished   *)
(* and aborted the aborted requests, and oom is set when an allocation     *)
(* raises. tick alternates with every iteration, so that an iteration that *)
(* changes nothing is a step too.                                          *)
(***************************************************************************)
EXTENDS Integers, Sequences, FiniteSets, FiniteSetsExt, FiniteSums

CONSTANTS Ranks,
          Reqs,                 \* request numbers, for the order of eviction
          PoolSize,             \* the tokens of each rank's KV pool
          page_size,
          Origin,               \* len(origin_input_ids) of each request
          max_new_tokens,
          Ratios,               \* values of new_token_ratio, in percent
          RetractDecodeSteps,   \* SGLANG_RETRACT_DECODE_STEPS
          SoloOOMMaxRetries     \* SGLANG_RETRACT_SOLO_OOM_MAX_RETRIES

ASSUME RanksAssumption ==
    /\ IsFiniteSet(Ranks) /\ Ranks # {}
    /\ \A k \in Ranks : PoolSize[k] \in Nat
ASSUME ReqsAssumption ==
    /\ IsFiniteSet(Reqs) /\ Reqs \subseteq Nat /\ Origin \in [Reqs -> Nat]
ASSUME ParametersAssumption ==
    /\ page_size \in Nat \ {0} /\ max_new_tokens \in Nat /\ Ratios \subseteq Nat
    /\ RetractDecodeSteps \in Nat /\ SoloOOMMaxRetries \in Nat

VARIABLES rank, submitted, tick

vars == <<rank, submitted, tick>>

-----------------------------------------------------------------------------
(* One rank's requests and tokens.                                         *)

floor_align(x) == (x \div page_size) * page_size

ceil_align(x) == floor_align(x + page_size - 1)

\* init_req_max_new_tokens() clamps a request to what an empty pool can serve.
ASSUME RequestsFit ==
    \A k \in Ranks, r \in Reqs :
        ceil_align(Origin[r]) + max_new_tokens + page_size < PoolSize[k]

fill_len(n, r) == Origin[r] + n.output[r]

\* The last sampled token has no KV yet.
kv_committed_len(n, r) == fill_len(n, r) - 1

\* The requests that hold KV: running_batch keeps a finished one until filter_batch().
Live(n) == Range(n.running) \ n.done

Unlocked(n) == {r \in Reqs \ Live(n) : n.branch[r] > 0}

evictable_size(n) == Sum([r \in Unlocked(n) |-> n.branch[r]])

\* Whole leaves go, in an order that every replica computes alike, and each while
\* what went before it falls short.
victims(n, num_tokens) ==
    {r \in Unlocked(n) :
        Sum([q \in {q \in Unlocked(n) : q < r} |-> n.branch[q]]) < num_tokens}

evict(n, num_tokens) ==
    LET leaves == victims(n, num_tokens)
    IN  [n EXCEPT !.avail = @ + Sum([r \in leaves |-> n.branch[r]]),
                  !.branch = [r \in Reqs |-> IF r \in leaves THEN 0 ELSE @[r]]]

-----------------------------------------------------------------------------
(* Lists of requests.                                                      *)

\* The places I of a list in the strict order R: the k-th has k - 1 before it.
ordered(I, R) ==
    [k \in 1..Cardinality(I) |->
        CHOOSE i \in I : Cardinality({j \in I : <<j, i>> \in R}) = k - 1]

listing(s, order) == [k \in DOMAIN order |-> s[order[k]]]

\* The list s without the requests of S.
less(s, S) ==
    LET I == {i \in DOMAIN s : s[i] \notin S}
    IN  listing(s, ordered(I, {p \in I \X I : p[1] < p[2]}))

-----------------------------------------------------------------------------
(* The reduce at the top of an iteration.                                  *)

Avails == {rank[k].avail : k \in Ranks}

\* The floor an eviction decides from is published only where the pools differ.
publish_uniform_evict_floor == Min(Avails) < Max(Avails)

\* Mutant: the reduce takes the maximum.
update_uniform_pool_budget_max(k) ==
    LET admission(j) == rank[j].avail + evictable_size(rank[j])
    IN  [min_avail |-> Max(Avails), published |-> publish_uniform_evict_floor,
         deficit |-> admission(k) - Min({admission(j) : j \in Ranks})]

\* Mutant: admission is not pinned to the tightest rank.
update_uniform_pool_budget_unpinned(k) ==
    [min_avail |-> Min(Avails), published |-> FALSE, deficit |-> 0]

update_uniform_pool_budget(k) ==
    LET admission(j) == rank[j].avail + evictable_size(rank[j])
    IN  [min_avail |-> Min(Avails), published |-> publish_uniform_evict_floor,
         deficit |-> admission(k) - Min({admission(j) : j \in Ranks})]

\* Mutant: each rank evicts on its own availability.
uniform_avail_for_evict_local(n, u) == n.avail

uniform_avail_for_evict(n, u) == IF u.published THEN u.min_avail ELSE n.avail

evict_from_tree_cache(n, u, num_tokens) ==
    IF uniform_avail_for_evict(n, u) < num_tokens THEN evict(n, num_tokens) ELSE n

\* An allocation that finds too little raises, and the scheduler dies.
take(n, num_tokens) ==
    IF num_tokens > n.avail THEN [n EXCEPT !.oom = TRUE]
    ELSE [n EXCEPT !.avail = @ - num_tokens]

-----------------------------------------------------------------------------
(* Decode: update_running_batch().                                         *)

new_tokens_required_next_decode(n, reqs) ==
    page_size * Cardinality({r \in Range(reqs) : kv_committed_len(n, r) % page_size = 0})

decode_mem_avail(n, u) == u.min_avail

\* check_decode_mem() evicts, then compares: its two results.
evict_for_decode(n, u, reqs) ==
    evict_from_tree_cache(n, u, new_tokens_required_next_decode(n, reqs))

check_decode_mem(n, u, reqs) ==
    decode_mem_avail(n, u) >= new_tokens_required_next_decode(n, reqs)

\* Most preferred first; the sort is stable on the order in the batch.
get_decode_retraction_order(n) ==
    LET Preferred(i, j) ==
            LET r == n.running[i]
                s == n.running[j]
            IN  \/ n.output[r] > n.output[s]
                \/ n.output[r] = n.output[s] /\ Origin[r] < Origin[s]
                \/ n.output[r] = n.output[s] /\ Origin[r] = Origin[s] /\ i < j
        places == DOMAIN n.running
    IN  listing(n.running,
                ordered(places, {p \in places \X places : Preferred(p[1], p[2])}))

\* Mutants: the protected prefix is freed too; the last, partial page is not freed.
release_req_frees_prefix(n, u, r, remaining_req_count) ==
    evict_from_tree_cache(
        [n EXCEPT !.avail = @ + ceil_align(kv_committed_len(n, r)),
                  !.running = less(@, {r})],
        u, remaining_req_count * RetractDecodeSteps)

release_req_drops_tail(n, u, r, remaining_req_count) ==
    evict_from_tree_cache(
        [n EXCEPT !.avail = @ + floor_align(kv_committed_len(n, r)) - n.branch[r],
                  !.running = less(@, {r})],
        u, remaining_req_count * RetractDecodeSteps)

\* The KV is not inserted; the protected prefix stays in the tree, unlocked.
release_req(n, u, r, remaining_req_count) ==
    evict_from_tree_cache(
        [n EXCEPT !.avail = @ + ceil_align(kv_committed_len(n, r)) - n.branch[r],
                  !.running = less(@, {r})],
        u, remaining_req_count * RetractDecodeSteps)

add_requests_to_queue(n, reqs) == [n EXCEPT !.waiting = @ \o reqs]

\* The loop of retract_decode(): sorted is sorted_indices. A turn pops and releases
\* its last, and evicts and looks again; the first turn does not look. The victims
\* are queued when it is over, in the order of their release.
left(sorted, i) == SubSeq(sorted, 1, Len(sorted) - i)

popped(sorted, i) == sorted[Len(sorted) - i + 1]

looked(n, u, sorted, i) == IF i = 0 THEN n ELSE evict_for_decode(n, u, left(sorted, i))

after_turns(n, u, sorted) ==
    LET after[i \in 0..(Len(sorted) - 1)] ==
            IF i = 0 THEN n
            ELSE release_req(looked(after[i - 1], u, sorted, i - 1), u,
                             popped(sorted, i), Len(sorted) - i)
    IN  after

retract_loop(n, u, sorted) ==
    LET after == after_turns(n, u, sorted)
        turns == Min({i \in 0..(Len(sorted) - 1) :
                        \/ Len(sorted) - i = 1
                        \/ i > 0 /\ check_decode_mem(after[i], u, left(sorted, i))})
    IN  [node |-> looked(after[turns], u, sorted, turns), sorted |-> left(sorted, turns),
         retracted |-> [i \in 1..turns |-> popped(sorted, i)]]

\* Mutant: the victims are not queued again.
retract_decode_leaks(n, u) ==
    LET l == retract_loop(n, u, get_decode_retraction_order(n))
    IN  IF Len(l.sorted) > 1 \/ check_decode_mem(l.node, u, l.sorted)
        THEN [l.node EXCEPT !.running = l.sorted]
        ELSE release_req(l.node, u, Head(l.sorted), 0)

\* After the loop: a survivor that does not fit either is retracted too, and aborted
\* when that has happened to it too often.
after_loop(l, u) ==
    LET m == IF Len(l.sorted) <= 1 THEN evict_for_decode(l.node, u, l.sorted) ELSE l.node
        solo_oom == Len(l.sorted) <= 1 /\ ~check_decode_mem(l.node, u, l.sorted)
        last == Head(l.sorted)
        released == release_req([m EXCEPT !.solo[last] = @ + 1], u, last, 0)
    IN  CASE ~solo_oom ->
                add_requests_to_queue([m EXCEPT !.running = l.sorted], l.retracted)
          [] solo_oom /\ released.solo[last] <= SoloOOMMaxRetries ->
                add_requests_to_queue(released, Append(l.retracted, last))
          [] solo_oom /\ released.solo[last] > SoloOOMMaxRetries ->
                add_requests_to_queue([released EXCEPT !.aborted = @ \cup {last}],
                                      l.retracted)

retract_decode(n, u) == after_loop(retract_loop(n, u, get_decode_retraction_order(n)), u)

\* Over-estimates what it evicts for: a new page for every request.
prepare_for_decode(n, u) ==
    take(evict_from_tree_cache(n, u, Len(n.running) * page_size),
         new_tokens_required_next_decode(n, n.running))

\* A finished request is inserted up to its last full page, the rest is freed.
release_finished(n, reqs) ==
    LET tail(r) == ceil_align(kv_committed_len(n, r)) - floor_align(kv_committed_len(n, r))
    IN  [n EXCEPT !.avail = @ + Sum([r \in reqs |-> tail(r)]),
                  !.branch = [r \in Reqs |-> IF r \in reqs
                                             THEN floor_align(kv_committed_len(n, r))
                                             ELSE @[r]],
                  !.done = @ \cup reqs]

\* Every request of the batch gets a token; it finishes on a stop token (eos) or
\* at its length.
process_batch_result(n, reqs, eos) ==
    LET sampled == [n EXCEPT !.output = [r \in Reqs |-> @[r] + (IF r \in reqs THEN 1 ELSE 0)]]
    IN  release_finished(sampled,
            {r \in reqs : r \in eos \/ sampled.output[r] >= max_new_tokens})

filter_batch(n) == [n EXCEPT !.running = less(@, n.done)]

\* A batch that has lost a request is open to new ones.
shrunk(kept, n) == [kept EXCEPT !.full = @ /\ Len(kept.running) = Len(n.running)]

\* The decode step of what is left of the batch, if anything is.
decode(s, u, eos) ==
    IF s.running = <<>> THEN s
    ELSE process_batch_result(prepare_for_decode(s, u), Range(s.running), eos)

update_running_batch(n, u, eos) ==
    LET b == filter_batch(n)
        e == evict_for_decode(b, u, b.running)
        kv_full_retract == u.min_avail < new_tokens_required_next_decode(b, b.running)
        kept == IF kv_full_retract THEN retract_decode(e, u) ELSE e
    IN  IF b.running = <<>> THEN [b EXCEPT !.full = FALSE]
        ELSE decode(shrunk(kept, n), u, eos)

-----------------------------------------------------------------------------
(* Prefill: get_new_batch_prefill() and PrefillAdder.                      *)

max_new(n, r) == max_new_tokens - n.output[r]

extend_len(n, r) == fill_len(n, r) - n.branch[r]

\* rem_total_tokens in percent of a token: what this rank and the group can fund,
\* with r's prefix locked, less a share of what the running requests may still need.
rem_total_tokens(n, u, r, ratio) ==
    LET local == n.avail + evictable_size(n) - n.branch[r] - u.deficit
        fundable == u.min_avail + evictable_size(n)
        offset == Sum([q \in Range(n.running) |-> max_new(n, q)])
    IN  100 * (IF u.published THEN Min({local, fundable}) ELSE local) - ratio * offset

\* add_one_req()
Admits(n, u, ratio) ==
    /\ ~n.full
    /\ n.waiting # <<>>
    /\ LET r == Head(n.waiting)
       IN  100 * (extend_len(n, r) + max_new(n, r) + page_size)
               < rem_total_tokens(n, u, r, ratio)

extend_need(n, r) == IF page_size = 1 THEN extend_len(n, r) ELSE extend_len(n, r) + page_size

\* The new batch is the next running batch where that is empty, and is merged into
\* it otherwise; budget_state() may find nothing left after r.
prefill(n, u, ratio, eos) ==
    LET r == Head(n.waiting)
        spent == ceil_align(extend_len(n, r)) + max_new_tokens + page_size
        no_token == rem_total_tokens(n, u, r, ratio) - 100 * spent <= 0
        admitted == [n EXCEPT !.waiting = Tail(@), !.running = Append(@, r)]
        funded == take(evict_from_tree_cache(admitted, u, extend_need(n, r)),
                       ceil_align(fill_len(n, r)) - n.branch[r])
        cached == [funded EXCEPT !.branch[r] = floor_align(fill_len(n, r))]
        m == process_batch_result(cached, {r}, eos)
    IN  IF r \in m.done
        THEN [m EXCEPT !.running = n.running, !.full = FALSE]
        ELSE [m EXCEPT !.full = n.running # <<>> /\ no_token]

\* Prefill goes first. A request that does not fit closes the batch to new ones
\* until it shrinks.
get_next_batch_to_run(n, u, ratio, eos) ==
    IF Admits(n, u, ratio) THEN prefill(n, u, ratio, eos)
    ELSE LET m == [n EXCEPT !.full = @ \/ n.waiting # <<>>]
         IN  IF m.running = <<>> THEN m ELSE update_running_batch(m, u, eos)

-----------------------------------------------------------------------------

Init ==
    /\ rank = [k \in Ranks |->
                  [avail |-> PoolSize[k], branch |-> [r \in Reqs |-> 0],
                   running |-> <<>>, waiting |-> <<>>, full |-> FALSE,
                   output |-> [r \in Reqs |-> 0], solo |-> [r \in Reqs |-> 0],
                   done |-> {}, aborted |-> {}, oom |-> FALSE]]
    /\ submitted = {}
    /\ tick = 0

\* recv_requests() gives a new request to every rank in the same iteration.
Submit(r) ==
    /\ r \notin submitted
    /\ submitted' = submitted \cup {r}
    /\ rank' = [k \in Ranks |-> add_requests_to_queue(rank[k], <<r>>)]
    /\ UNCHANGED tick

Scheduled == UNION {Range(rank[k].waiting) \cup Range(rank[k].running) : k \in Ranks}

\* The sampled tokens, and so the stop tokens, are the same on every rank, and so
\* is the estimate of the output still to come.
Iteration ==
    /\ Scheduled # {}
    /\ \E ratio \in Ratios, eos \in SUBSET Scheduled :
          rank' = [k \in Ranks |->
                      get_next_batch_to_run(rank[k], update_uniform_pool_budget(k),
                                            ratio, eos)]
    /\ tick' = 1 - tick
    /\ UNCHANGED submitted

Idle ==
    /\ submitted = Reqs
    /\ Scheduled = {}
    /\ UNCHANGED vars

Next == (\E r \in Reqs : Submit(r)) \/ Iteration \/ Idle

Spec == Init /\ [][Next]_vars

\* The event loop never stops: while there is work there is a next iteration.
FairSpec == Spec /\ WF_tick(Scheduled # {} /\ tick' = 1 - tick)

-----------------------------------------------------------------------------
(* Properties.                                                             *)

\* Whatever the sizes of their pools, all ranks have admitted, retracted, aborted
\* and finished the same requests, in the same order, and their radix trees are
\* replicas: no rank enters a forward pass with a batch of its own.
RanksAgree ==
    \A j, k \in Ranks :
        [rank[j] EXCEPT !.avail = 0] = [rank[k] EXCEPT !.avail = 0]

\* No allocation for a batch the scheduler decided to run raises: retraction on
\* the group's floor "never under-retracts", and admission funds the prefill.
NeverOOM == \A k \in Ranks : ~rank[k].oom

\* Every token slot is free, or one of a request's: the pages of a live request's
\* row, its protected prefix among them, or the branch another left in the tree. A
\* request is in one place only.
SlotsBalance ==
    \A k \in Ranks :
        LET n == rank[k]
            slots(r) == IF r \in Live(n) THEN ceil_align(kv_committed_len(n, r))
                                         ELSE n.branch[r]
        IN  /\ n.avail + Sum([r \in Reqs |-> slots(r)]) = PoolSize[k]
            /\ \A r \in Live(n) : n.branch[r] <= kv_committed_len(n, r)
            /\ IsInjective(n.waiting) /\ IsInjective(n.running)
            /\ Range(n.running) \cap Range(n.waiting) = {}
            /\ Range(n.waiting) \cap (n.done \cup n.aborted) = {}

\* Every submitted request finishes or is failed: retraction and admission do not
\* hand the same tokens back and forth for ever.
EveryRequestLeaves ==
    \A r \in Reqs : r \in submitted ~> \A k \in Ranks : r \in rank[k].done \cup rank[k].aborted

\* The last survivor of a retraction is retracted as well, and in the end failed,
\* only when "the pool could not fit even one request's next decode step": with all
\* others released, its tokens and the next one exceed some rank's whole pool.
SoloOOMIsReal ==
    [][ \A k \in Ranks, r \in Reqs :
          rank'[k].solo[r] > rank[k].solo[r] =>
              \E j \in Ranks : ceil_align(fill_len(rank[k], r)) > PoolSize[j] ]_vars
=============================================================================
