--------------------------- MODULE TokenAllocator ---------------------------
(***************************************************************************)
(* The KV slot allocator with page_size = 1: TokenToKVPoolAllocator        *)
(* (mem_cache/allocator/token.py) and what it inherits from                *)
(* BaseTokenToKVPoolAllocator (mem_cache/allocator/base.py).               *)
(*                                                                         *)
(* `pool' is the allocator object, one record field per attribute, and the *)
(* methods are operators from an allocator to an allocator. A method that  *)
(* sorts or partitions the free list is given as the set of allocators it  *)
(* may leave behind: the set of rearrangements of the list that are sorted *)
(* (or partitioned), a relation between the two lists rather than an       *)
(* algorithm. `held' is the callers' side: the ids returned by alloc() and *)
(* not yet passed to free(). free_group, a list of tensors in the code, is *)
(* their concatenation, which is all that is ever done with it.            *)
(***************************************************************************)
EXTENDS Naturals, Sequences, Functions

CONSTANTS InitSize,      \* `size' at boot
          MaxSize,       \* bound: grow_size() and resize() stop here
          need_sort,     \* the constructor's argument
          Biases,        \* owner classes <<mod, lo, hi>> a caller may steer to
          MaxChunk       \* bound: most ids in one free() call

NoBias == <<>>           \* the code's None

ASSUME SizeAssumption == /\ InitSize \in Nat
                         /\ MaxSize \in Nat
                         /\ InitSize <= MaxSize
ASSUME NeedSortAssumption == need_sort \in BOOLEAN
ASSUME BiasAssumption == \A b \in Biases : b \in Nat \X Nat \X Nat
ASSUME MaxChunkAssumption == MaxChunk \in Nat

VARIABLES pool, held

vars == <<pool, held>>

-----------------------------------------------------------------------------
(* Helpers on lists of ids.                                                *)

Rearranged(s, p) == [i \in DOMAIN s |-> s[p[i]]]

Rearrangements(s) == Bijection(DOMAIN s, DOMAIN s)

torch_sort(s) ==
    {Rearranged(s, p) : p \in {q \in Rearrangements(s) :
        \A i, j \in DOMAIN s : i < j => s[q[i]] <= s[q[j]]}}

InClass(bias, x) == x % bias[1] >= bias[2] /\ x % bias[1] < bias[3]

\* torch.cat((pages[m], pages[~m])): the class first, order kept inside both parts.
ClassFirst(s, bias) ==
    {Rearranged(s, p) : p \in {q \in Rearrangements(s) :
        \A i, j \in DOMAIN s : i < j =>
            /\ InClass(bias, s[q[j]]) => InClass(bias, s[q[i]])
            /\ (InClass(bias, s[q[i]]) <=> InClass(bias, s[q[j]])) => q[i] < q[j]}}

-----------------------------------------------------------------------------
(* The methods.                                                            *)

Fresh(size, bias) == [size |-> size,
                      free_pages |-> [i \in 1..size |-> i],
                      release_pages |-> <<>>,
                      free_group |-> <<>>,
                      is_not_in_free_group |-> TRUE,
                      owner_bias |-> bias]

clear(a) == Fresh(a.size, a.owner_bias)

available_size(a) == Len(a.free_pages) + Len(a.release_pages)

free(a, idx) ==
    IF idx = <<>> THEN a
    ELSE IF ~a.is_not_in_free_group
         THEN [a EXCEPT !.free_group = @ \o idx]
         ELSE IF need_sort THEN [a EXCEPT !.release_pages = @ \o idx]
                           ELSE [a EXCEPT !.free_pages = @ \o idx]

\* Mutant: the staged list is applied and kept.
apply_free_group_keeps(a) == free(a, a.free_group)

apply_free_group(a) == free([a EXCEPT !.free_group = <<>>], a.free_group)

free_group_end(a) == apply_free_group([a EXCEPT !.is_not_in_free_group = TRUE])

reclaim_abandoned_free_group(a) ==
    IF a.is_not_in_free_group \/ a.free_group = <<>> THEN a ELSE free_group_end(a)

\* Mutant: a window opened over an abandoned one forgets what that one staged.
free_group_begin_drops(a) == [a EXCEPT !.is_not_in_free_group = FALSE,
                                       !.free_group = <<>>]

free_group_begin(a) ==
    [reclaim_abandoned_free_group(a) EXCEPT !.is_not_in_free_group = FALSE,
                                            !.free_group = <<>>]

flush_free_group(a) ==
    IF a.is_not_in_free_group \/ a.free_group = <<>> THEN a
    ELSE [free_group_end(a) EXCEPT !.is_not_in_free_group = FALSE]

merge_and_sort_free_unbiased(a) ==
    IF a.release_pages = <<>> THEN {a}
    ELSE {[a EXCEPT !.free_pages = s, !.release_pages = <<>>] :
             s \in torch_sort(a.free_pages \o a.release_pages)}

apply_owner_bias(a) ==
    IF a.owner_bias = NoBias \/ ~a.is_not_in_free_group THEN {a}
    ELSE UNION {{[m EXCEPT !.free_pages = s] :
                    s \in ClassFirst(m.free_pages, a.owner_bias)} :
                m \in merge_and_sort_free_unbiased(a)}

\* Mutant: the refill does not re-apply the steer.
merge_and_sort_free_forgets_bias(a) == merge_and_sort_free_unbiased(a)

merge_and_sort_free(a) ==
    UNION {apply_owner_bias(m) : m \in merge_and_sort_free_unbiased(a)}

\* Mutant: alloc() never merges release_pages.
refilled_never(a, n) == {a}

\* The allocator as alloc(n) reads it: refilled first when it is short.
refilled(a, n) ==
    IF need_sort /\ n > Len(a.free_pages) THEN merge_and_sort_free(a) ELSE {a}

\* Mutant: the last id handed out stays on the list.
take_head_keeps_last(a, n) == [a EXCEPT !.free_pages = SubSeq(@, n, Len(@))]

take_head(a, n) == [a EXCEPT !.free_pages = SubSeq(@, n + 1, Len(@))]

\* Mutant: arange() one too low.
grow_size_from_last(a, n) ==
    [a EXCEPT !.size = n,
              !.free_pages = @ \o [i \in 1..(n - a.size) |-> a.size + i - 1]]

grow_size(a, n) ==
    [a EXCEPT !.size = n,
              !.free_pages = @ \o [i \in 1..(n - a.size) |-> a.size + i]]

-----------------------------------------------------------------------------
(* The steps: one method call each.                                        *)

Init == /\ pool = Fresh(InitSize, NoBias)
        /\ held = {}

Alloc(n) == \E m \in refilled(pool, n) :
    IF n > Len(m.free_pages)
    THEN /\ pool' = m               \* alloc() returns None
         /\ UNCHANGED held
    ELSE /\ pool' = take_head(m, n)
         /\ held' = held \cup Range(SubSeq(m.free_pages, 1, n))

\* A caller frees ids it holds, each once: req_to_token rows and tree values.
Free == \E k \in 1..MaxChunk : \E idx \in [1..k -> held] :
    /\ IsInjective(idx)
    /\ pool' = free(pool, idx)
    /\ held' = held \ Range(idx)

\* A window may be opened over one that was never closed.
FreeGroupBegin == /\ pool' = free_group_begin(pool)
                  /\ UNCHANGED held

FreeGroupEnd == /\ pool' = free_group_end(pool)
                /\ UNCHANGED held

FlushFreeGroup == /\ pool' = flush_free_group(pool)
                  /\ UNCHANGED held

\* on_idle()
Reclaim == /\ pool' = reclaim_abandoned_free_group(pool)
           /\ UNCHANGED held

\* The ValueErrors of set_owner_bias() leave the allocator as it is.
SetOwnerBias == \E bias \in Biases \cup {NoBias} :
    /\ bias # NoBias => bias[2] < bias[3] /\ bias[3] <= bias[1]
    /\ pool' \in apply_owner_bias([pool EXCEPT !.owner_bias = bias])
    /\ UNCHANGED held

GrowSize == \E n \in (pool.size + 1)..MaxSize : /\ pool' = grow_size(pool, n)
                                               /\ UNCHANGED held

\* flush_cache(): nothing is running and the tree was reset, so nobody holds an id.
Clear == /\ pool' = clear(pool)
         /\ held' = {}

Resize == \E n \in 1..MaxSize : /\ pool' = clear([pool EXCEPT !.size = n])
                                /\ held' = {}

Next == \/ \E n \in 1..MaxSize : Alloc(n)
        \/ Free
        \/ FreeGroupBegin \/ FreeGroupEnd \/ FlushFreeGroup \/ Reclaim
        \/ SetOwnerBias
        \/ GrowSize \/ Clear \/ Resize

Spec == Init /\ [][Next]_vars

\* Every iteration of the event loop either processes a decode result, which
\* opens and closes a window, or goes idle, which reclaims an abandoned one.
FairSpec == Spec /\ WF_vars(FreeGroupBegin \/ FreeGroupEnd \/ Reclaim)

-----------------------------------------------------------------------------
(* Properties.                                                             *)

\* The allocator is a record of id lists over 1..size, and callers hold ids.
TypeOK ==
    /\ pool \in [size : 0..MaxSize,
                 free_pages : Seq(1..MaxSize),
                 release_pages : Seq(1..MaxSize),
                 free_group : Seq(1..MaxSize),
                 is_not_in_free_group : BOOLEAN,
                 owner_bias : Biases \cup {NoBias}]
    /\ held \in SUBSET (1..MaxSize)

Lists(a) == a.free_pages \o a.release_pages \o a.free_group

\* Every id is in exactly one place: once in one of the three lists, or with a
\* caller. No sequence of windows, flushes, reclaims, refills and steers frees
\* an id twice (free() concatenates without looking) or drops one.
EachSlotOnce == /\ IsInjective(Lists(pool))
                /\ Range(Lists(pool)) \cap held = {}
                /\ Range(Lists(pool)) \cup held = 1..pool.size

\* Frees are staged only while a window is open. A staged id outside a window
\* would be lost: reclaim_abandoned_free_group() and flush_free_group() return
\* at once when no window is open, and free_group_begin() empties the list.
StagedOnlyInWindow == pool.free_group # <<>> => ~pool.is_not_in_free_group

\* alloc(n) returns None exactly when available_size() is below n: an id the
\* allocator counts as available can be handed out, however it was freed,
\* sorted or steered ("no allocation can fail because of a bias").
FailsOnlyWhenShort ==
    \A n \in 1..MaxSize : \A m \in refilled(pool, n) :
        n > Len(m.free_pages) <=> n > available_size(pool)

\* A refill sorts the free list and so undoes a steer; merge_and_sort_free()
\* re-applies it: outside a window, when alloc() has drained release_pages,
\* ids of the preferred class still come before all others.
SteerSurvivesRefill ==
    [][ /\ pool.release_pages # <<>>
        /\ pool'.release_pages = <<>>
        /\ held \subseteq held'
        /\ held # held'
        /\ pool'.is_not_in_free_group
        /\ pool'.owner_bias # NoBias
        => \A i, j \in DOMAIN pool'.free_pages :
              i < j /\ InClass(pool'.owner_bias, pool'.free_pages[j])
              => InClass(pool'.owner_bias, pool'.free_pages[i]) ]_vars

\* The allocator implements SlotPool: its idle ids are those of its three lists.
Abstract == INSTANCE SlotPool WITH size <- pool.size,
                                   idle <- Range(Lists(pool))
ImplementsSlotPool == Abstract!Spec

\* Staged frees land: an id freed inside a window, even one its opener abandoned,
\* reaches a free list again ("staged rows are in no bucket at all"), unless the
\* pool is meanwhile resized below it.
StagedFreesLand ==
    \A i \in 1..MaxSize :
        i \in Range(pool.free_group) ~>
            i \in Range(pool.free_pages) \cup Range(pool.release_pages) \/ i > pool.size
=============================================================================
