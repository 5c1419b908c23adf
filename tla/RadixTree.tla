----------------------------- MODULE RadixTree ------------------------------
(***************************************************************************)
(* The methods of RadixCache (mem_cache/radix_cache.py) and of its mixin   *)
(* SessionRadixCacheMixin (mem_cache/session_radix_cache.py), as operators *)
(* from a cache object to a cache object. The cache is a record:           *)
(*                                                                         *)
(*   nodes               the TreeNodes reachable from the root             *)
(*   evictable_size_, protected_size_, evictable_leaves                    *)
(*   session_leaves      session -> its tagged nodes (_session_leaves)     *)
(*   closed_session_ids  the tombstones, oldest first                      *)
(*   free_pages          page -> number of times it is on the free list of *)
(*                       the allocator the cache frees to                  *)
(*                                                                         *)
(* A node is named by the tokens on its path from the root. A split leaves *)
(* the name of the lower half, which keeps its identity in the code, as it *)
(* is. Parent, key and value are fields, as in the code; the dictionary of *)
(* children is the set of nodes whose parent is the node. Tokens stand for *)
(* (extra_key, token) pairs. last_access_time, hit_count and priority only *)
(* rank nodes for eviction, and which of the seven strategies ranks them   *)
(* is a server argument: evict() here pops the heap in any order.          *)
(***************************************************************************)
EXTENDS Integers, Sequences, FiniteSets, SequencesExt, TLC

CONSTANTS page_size,        \* tokens per KV page, and per dictionary key
          Sessions,         \* session ids
          TombstoneLimit    \* _CLOSED_SESSION_TOMBSTONE_LIMIT

ASSUME PageSizeAssumption == page_size \in Nat \ {0}
ASSUME TombstoneAssumption == TombstoneLimit \in Nat

Root == <<>>
NoNode == <<0>>             \* the code's None; 0 is not a token
NoSession == "none"

-----------------------------------------------------------------------------
(* Keys (RadixKey).                                                        *)

Upto(s, n) == SubSeq(s, 1, Min({n, Len(s)}))    \* s[:n]
After(s, n) == SubSeq(s, n + 1, Len(s))         \* s[n:]

page_floor(n) == (n \div page_size) * page_size

page_aligned(key) == Upto(key, page_floor(Len(key)))

child_key(key) == Upto(key, page_size)

\* Mutant: a match that may end inside a page.
match_unaligned(key, other) == Len(LongestCommonPrefix({key, other}))

match(key, other) == page_floor(Len(LongestCommonPrefix({key, other})))

-----------------------------------------------------------------------------
(* The tree.                                                               *)

TreeNode(parent, key, value) == [parent |-> parent, key |-> key, value |-> value,
                                 lock_ref |-> 0, session_ids |-> {}]

reset(c) == [c EXCEPT !.nodes = Root :> [TreeNode(NoNode, <<>>, <<>>)
                                            EXCEPT !.lock_ref = 1],
                      !.evictable_size_ = 0,
                      !.protected_size_ = 0,
                      !.evictable_leaves = {},
                      !.session_leaves = [s \in Sessions |-> {}],
                      !.closed_session_ids = <<>>]

children(c, n) == {x \in DOMAIN c.nodes : c.nodes[x].parent = n}

\* Node n with its attributes replaced.
put(c, n, node) == [c EXCEPT !.nodes = (n :> node) @@ @]

\* The entry of n.children under child_key(key): a set of at most one node.
child(c, n, key) ==
    {x \in children(c, n) : child_key(c.nodes[x].key) = child_key(key)}

\* token_to_kv_pool_allocator.free(): torch.unique(free_index // page_size)
page_of(slot) == slot \div page_size

free(c, indices) ==
    [c EXCEPT !.free_pages = [p \in DOMAIN c.free_pages |->
        c.free_pages[p] + (IF p \in {page_of(i) : i \in Range(indices)} THEN 1 ELSE 0)]]

update_leaf_status(c, n) ==
    [c EXCEPT !.evictable_leaves =
        IF c.nodes[n].lock_ref > 0 \/ children(c, n) # {} THEN @ \ {n} ELSE @ \cup {n}]

upper_half(c, n, split_len) == c.nodes[n].parent \o Upto(c.nodes[n].key, split_len)

\* Mutant: the new upper half is a fresh, unlocked node.
split_node_unlocked(c, n, split_len) ==
    LET node == c.nodes[n]
        new == upper_half(c, n, split_len)
    IN  [c EXCEPT !.nodes =
            (new :> TreeNode(node.parent, Upto(node.key, split_len),
                             Upto(node.value, split_len)))
            @@ (n :> [node EXCEPT !.parent = new,
                                  !.key = After(@, split_len),
                                  !.value = After(@, split_len)])
            @@ @]

split_node(c, n, split_len) ==
    LET node == c.nodes[n]
        new == upper_half(c, n, split_len)
    IN  [c EXCEPT !.nodes =
            (new :> [node EXCEPT !.key = Upto(@, split_len),
                                 !.value = Upto(@, split_len),
                                 !.session_ids = {}])
            @@ (n :> [node EXCEPT !.parent = new,
                                  !.key = After(@, split_len),
                                  !.value = After(@, split_len)])
            @@ @]

RECURSIVE match_prefix_helper(_, _, _, _)
match_prefix_helper(c, n, key, value) ==
    IF key = <<>> \/ child(c, n, key) = {}
    THEN [cache |-> c, device_indices |-> value, last_node |-> n]
    ELSE LET x == CHOOSE y \in child(c, n, key) : TRUE
             node == c.nodes[x]
             prefix_len == match(node.key, key)
         IN  IF prefix_len < Len(node.key)
             THEN [cache |-> split_node(c, x, prefix_len),
                   device_indices |-> value \o Upto(node.value, prefix_len),
                   last_node |-> upper_half(c, x, prefix_len)]
             ELSE match_prefix_helper(c, x, After(key, prefix_len), value \o node.value)

match_prefix(c, key) == match_prefix_helper(c, Root, page_aligned(key), <<>>)

RECURSIVE insert_helper(_, _, _, _, _)
insert_helper(c, n, key, value, total_prefix_length) ==
    IF key = <<>>
    THEN [cache |-> c, prefix_len |-> total_prefix_length, last_node |-> n]
    ELSE IF child(c, n, key) = {}
    THEN LET new == n \o key
             added == [c EXCEPT !.nodes = (new :> TreeNode(n, key, value)) @@ @,
                                !.evictable_size_ = @ + Len(key)]
         IN  [cache |-> update_leaf_status(update_leaf_status(added, n), new),
              prefix_len |-> total_prefix_length, last_node |-> new]
    ELSE LET x == CHOOSE y \in child(c, n, key) : TRUE
             prefix_len == match(c.nodes[x].key, key)
             partial == prefix_len < Len(c.nodes[x].key)
         IN  insert_helper(IF partial THEN split_node(c, x, prefix_len) ELSE c,
                           IF partial THEN upper_half(c, x, prefix_len) ELSE x,
                           After(key, prefix_len), After(value, prefix_len),
                           total_prefix_length + prefix_len)

insert(c, key, value) ==
    LET k == page_aligned(key)
    IN  insert_helper(c, Root, k, Upto(value, Len(k)), 0)

\* Mutant: only the matched node is locked, not the path above it.
inc_lock_ref_leaf_only(c, n) ==
    IF n = Root THEN c
    ELSE LET moved == IF c.nodes[n].lock_ref = 0 THEN Len(c.nodes[n].key) ELSE 0
         IN  update_leaf_status(
                 [put(c, n, [c.nodes[n] EXCEPT !.lock_ref = @ + 1]) EXCEPT
                     !.evictable_size_ = @ - moved,
                     !.protected_size_ = @ + moved], n)

RECURSIVE inc_lock_ref(_, _)
inc_lock_ref(c, n) ==
    IF n = Root THEN c
    ELSE LET moved == IF c.nodes[n].lock_ref = 0 THEN Len(c.nodes[n].key) ELSE 0
             locked == [put(c, n, [c.nodes[n] EXCEPT !.lock_ref = @ + 1]) EXCEPT
                           !.evictable_size_ = @ - moved,
                           !.protected_size_ = @ + moved]
         IN  inc_lock_ref(update_leaf_status(locked, n), c.nodes[n].parent)

\* Mutant: the counters move on every unlock, not on the last one.
RECURSIVE dec_lock_ref_always_moves(_, _)
dec_lock_ref_always_moves(c, n) ==
    IF n = Root THEN c
    ELSE LET unlocked == [put(c, n, [c.nodes[n] EXCEPT !.lock_ref = @ - 1]) EXCEPT
                             !.evictable_size_ = @ + Len(c.nodes[n].key),
                             !.protected_size_ = @ - Len(c.nodes[n].key)]
         IN  dec_lock_ref_always_moves(update_leaf_status(unlocked, n), c.nodes[n].parent)

RECURSIVE dec_lock_ref(_, _)
dec_lock_ref(c, n) ==
    IF n = Root THEN c
    ELSE LET moved == IF c.nodes[n].lock_ref = 1 THEN Len(c.nodes[n].key) ELSE 0
             unlocked == [put(c, n, [c.nodes[n] EXCEPT !.lock_ref = @ - 1]) EXCEPT
                             !.evictable_size_ = @ + moved,
                             !.protected_size_ = @ - moved]
         IN  dec_lock_ref(update_leaf_status(unlocked, n), c.nodes[n].parent)

\* Mutant: a deleted node stays in the index of its sessions.
discard_session_leaf_never(c, n) == c

\* Emptied sets stay in the index: the code's defaultdict makes no difference
\* between a session with no leaves and one that is absent.
discard_session_leaf(c, n) ==
    [c EXCEPT !.session_leaves = [s \in Sessions |->
        c.session_leaves[s] \ (IF s \in c.nodes[n].session_ids THEN {n} ELSE {})]]

delete_leaf(c, n) ==
    LET popped == [discard_session_leaf(c, n) EXCEPT
                      !.nodes = [x \in DOMAIN c.nodes \ {n} |-> c.nodes[x]],
                      !.evictable_size_ = @ - Len(c.nodes[n].key),
                      !.evictable_leaves = @ \ {n}]
    IN  update_leaf_status(popped, c.nodes[n].parent)

RECURSIVE evict_loop(_, _, _, _)
evict_loop(c, heap, num_evicted, num_tokens) ==
    IF num_evicted >= num_tokens \/ heap = {} THEN {c}
    ELSE UNION {
        LET node == c.nodes[x]
            d == delete_leaf(free(c, node.value), x)
            parent_is_next == /\ children(d, node.parent) = {}
                              /\ d.nodes[node.parent].lock_ref = 0
        IN  evict_loop(d, (heap \ {x}) \cup (IF parent_is_next THEN {node.parent} ELSE {}),
                       num_evicted + Len(node.value), num_tokens) :
        x \in heap}

evict(c, num_tokens) == evict_loop(c, c.evictable_leaves, 0, num_tokens)

-----------------------------------------------------------------------------
(* Sessions.                                                               *)

remember_closed_session(c, sid) ==
    LET moved == Append(Remove(c.closed_session_ids, sid), sid)
        excess == IF Len(moved) > TombstoneLimit THEN Len(moved) - TombstoneLimit ELSE 0
    IN  [c EXCEPT !.closed_session_ids = After(moved, excess)]

\* Mutant: the tombstone is not consulted.
tag_session_leaf_after_close(c, sid, key, n) ==
    IF sid = NoSession THEN c
    ELSE LET m == IF n = NoNode THEN match_prefix(c, key)
                                ELSE [cache |-> c, last_node |-> n]
         IN  IF m.last_node = Root THEN m.cache
             ELSE LET leaf == m.cache.nodes[m.last_node]
                  IN  [put(m.cache, m.last_node,
                           [leaf EXCEPT !.session_ids = @ \cup {sid}]) EXCEPT
                          !.session_leaves[sid] = @ \cup {m.last_node}]

tag_session_leaf(c, sid, key, n) ==
    IF sid = NoSession \/ sid \in Range(c.closed_session_ids) THEN c
    ELSE LET m == IF n = NoNode THEN match_prefix(c, key)
                                ELSE [cache |-> c, last_node |-> n]
         IN  IF m.last_node = Root THEN m.cache
             ELSE LET leaf == m.cache.nodes[m.last_node]
                  IN  [put(m.cache, m.last_node,
                           [leaf EXCEPT !.session_ids = @ \cup {sid}]) EXCEPT
                          !.session_leaves[sid] = @ \cup {m.last_node}]

\* Mutants: the walk frees a node other sessions hold; it frees a locked node.
RECURSIVE release_upward_ignores_holders(_, _, _)
release_upward_ignores_holders(c, n, sid) ==
    LET d == put(c, n, [c.nodes[n] EXCEPT !.session_ids = @ \ {sid}])
    IN  IF n = Root \/ d.nodes[n].lock_ref # 0 \/ children(d, n) # {}
        THEN d
        ELSE release_upward_ignores_holders(delete_leaf(free(d, d.nodes[n].value), n),
                                            d.nodes[n].parent, sid)

RECURSIVE release_upward_ignores_locks(_, _, _)
release_upward_ignores_locks(c, n, sid) ==
    LET d == put(c, n, [c.nodes[n] EXCEPT !.session_ids = @ \ {sid}])
    IN  IF n = Root \/ children(d, n) # {} \/ d.nodes[n].session_ids # {}
        THEN d
        ELSE release_upward_ignores_locks(delete_leaf(free(d, d.nodes[n].value), n),
                                          d.nodes[n].parent, sid)

\* The walk up from a tagged leaf: the session lets go of every node on the way,
\* and a node nobody needs is freed.
RECURSIVE release_upward(_, _, _)
release_upward(c, n, sid) ==
    LET d == put(c, n, [c.nodes[n] EXCEPT !.session_ids = @ \ {sid}])
        node == d.nodes[n]
    IN  IF \/ n = Root
           \/ node.lock_ref # 0
           \/ children(d, n) # {}
           \/ n \notin d.evictable_leaves
           \/ node.session_ids # {}
        THEN d
        ELSE release_upward(delete_leaf(free(d, node.value), n), node.parent, sid)

\* A Python set is iterated in no particular order. A leaf an earlier walk has
\* deleted has no session_ids any more.
RECURSIVE release_leaves(_, _, _)
release_leaves(c, indexed, sid) ==
    IF indexed = {} THEN {c}
    ELSE UNION {
        LET still == n \in DOMAIN c.nodes /\ sid \in c.nodes[n].session_ids
        IN  release_leaves(IF still THEN release_upward(c, n, sid) ELSE c,
                           indexed \ {n}, sid) :
        n \in indexed}

release_radix_session(c, sid) ==
    LET closed == [remember_closed_session(c, sid) EXCEPT !.session_leaves[sid] = {}]
    IN  release_leaves(closed, c.session_leaves[sid], sid)
=============================================================================
