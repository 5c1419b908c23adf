----------------------- MODULE DecodeRetractionProofs -----------------------
(***************************************************************************)
(* Theorems about DecodeRetraction, for any group of ranks, any sizes of   *)
(* their pools, any page size and any requests that fit the pools.         *)
(*                                                                         *)
(* DecodeRankProofs and DecodeBatchProofs take one rank through a whole    *)
(* iteration; here is the group. Two ranks are Twins when they differ in   *)
(* their free slots at most. Every part of an iteration is shown to keep   *)
(* two ranks Twins, on one budget. The reduce is shown to give the ranks   *)
(* such budgets, or to find that their free slots are the same; the        *)
(* invariant Inv follows, and with it what the module's properties say.    *)
(***************************************************************************)
EXTENDS DecodeBatchProofs

-----------------------------------------------------------------------------
(* Ranks with pools of different sizes.                                    *)

\* A record with the fields of a rank.
Shaped(n) ==
    n = [avail |-> n.avail, branch |-> n.branch, running |-> n.running,
         waiting |-> n.waiting, full |-> n.full, output |-> n.output,
         solo |-> n.solo, done |-> n.done, aborted |-> n.aborted, oom |-> n.oom]

\* Two ranks that differ in their free slots at most, and in what follows from them
\* for an allocation.
Twin(a, b) ==
    /\ Shaped(a) /\ Shaped(b)
    /\ a.branch = b.branch /\ a.running = b.running /\ a.waiting = b.waiting
    /\ a.full = b.full /\ a.output = b.output /\ a.solo = b.solo
    /\ a.done = b.done /\ a.aborted = b.aborted

\* The reduce published the same floor to both.
SameFloor(u, v) == u.published /\ v.published /\ u.min_avail = v.min_avail

\* A rank's state has the fields of a rank.
LEMMA NodeShaped == \A n \in Node : Shaped(n)
BY DEF Node, Shaped

\* The same update of the fields they share leaves twins.
LEMMA TwinUpdates ==
    ASSUME NEW a, NEW b, Twin(a, b), NEW x, NEW y, NEW z
    PROVE  /\ Twin([a EXCEPT !.avail = x], [b EXCEPT !.avail = y])
           /\ Twin([a EXCEPT !.avail = x], [b EXCEPT !.oom = y])
           /\ Twin([a EXCEPT !.oom = x], [b EXCEPT !.avail = y])
           /\ Twin([a EXCEPT !.oom = x], [b EXCEPT !.oom = y])
           /\ Twin([a EXCEPT !.branch = z], [b EXCEPT !.branch = z])
           /\ Twin([a EXCEPT !.running = z], [b EXCEPT !.running = z])
           /\ Twin([a EXCEPT !.waiting = z], [b EXCEPT !.waiting = z])
           /\ Twin([a EXCEPT !.full = z], [b EXCEPT !.full = z])
           /\ Twin([a EXCEPT !.output = z], [b EXCEPT !.output = z])
           /\ Twin([a EXCEPT !.solo = z], [b EXCEPT !.solo = z])
           /\ Twin([a EXCEPT !.aborted = z], [b EXCEPT !.aborted = z])
           /\ Twin([a EXCEPT !.done = z], [b EXCEPT !.done = z])
<1>1. Twin([a EXCEPT !.avail = x], [b EXCEPT !.avail = y])
  BY DEF Twin, Shaped
<1>2. Twin([a EXCEPT !.avail = x], [b EXCEPT !.oom = y])
  BY DEF Twin, Shaped
<1>3. Twin([a EXCEPT !.oom = x], [b EXCEPT !.avail = y])
  BY DEF Twin, Shaped
<1>4. Twin([a EXCEPT !.oom = x], [b EXCEPT !.oom = y])
  BY DEF Twin, Shaped
<1>5. Twin([a EXCEPT !.branch = z], [b EXCEPT !.branch = z])
  BY DEF Twin, Shaped
<1>6. Twin([a EXCEPT !.running = z], [b EXCEPT !.running = z])
  BY DEF Twin, Shaped
<1>7. Twin([a EXCEPT !.waiting = z], [b EXCEPT !.waiting = z])
  BY DEF Twin, Shaped
<1>8. Twin([a EXCEPT !.full = z], [b EXCEPT !.full = z])
  BY DEF Twin, Shaped
<1>9. Twin([a EXCEPT !.output = z], [b EXCEPT !.output = z])
  BY DEF Twin, Shaped
<1>10. Twin([a EXCEPT !.solo = z], [b EXCEPT !.solo = z])
  BY DEF Twin, Shaped
<1>11. Twin([a EXCEPT !.aborted = z], [b EXCEPT !.aborted = z])
  BY DEF Twin, Shaped
<1>12. Twin([a EXCEPT !.done = z], [b EXCEPT !.done = z])
  BY DEF Twin, Shaped
<1> QED BY <1>1, <1>2, <1>3, <1>4, <1>5, <1>6, <1>7, <1>8, <1>9, <1>10, <1>11, <1>12

\* So does an update of the free slots with one of those.
LEMMA TwinPairs ==
    ASSUME NEW a, NEW b, Twin(a, b), NEW x, NEW y, NEW z
    PROVE  /\ Twin([a EXCEPT !.avail = x, !.branch = z], [b EXCEPT !.avail = y, !.branch = z])
           /\ Twin([a EXCEPT !.avail = x, !.running = z], [b EXCEPT !.avail = y, !.running = z])
<1> DEFINE d == [a EXCEPT !.avail = x]
           e == [b EXCEPT !.avail = y]
<1>1. Twin(d, e)
  BY TwinUpdates, Zenon
<1>2. /\ [a EXCEPT !.avail = x, !.branch = z] = [d EXCEPT !.branch = z]
      /\ [b EXCEPT !.avail = y, !.branch = z] = [e EXCEPT !.branch = z]
      /\ [a EXCEPT !.avail = x, !.running = z] = [d EXCEPT !.running = z]
      /\ [b EXCEPT !.avail = y, !.running = z] = [e EXCEPT !.running = z]
  OBVIOUS
<1> HIDE DEF d, e
<1>3. /\ Twin([d EXCEPT !.branch = z], [e EXCEPT !.branch = z])
      /\ Twin([d EXCEPT !.running = z], [e EXCEPT !.running = z])
  BY <1>1, TwinUpdates, Zenon
<1> QED BY <1>2, <1>3

\* Replicas of the tree evict the same branches.
LEMMA TwinEvict ==
    ASSUME NEW a, NEW b, Twin(a, b), NEW x
    PROVE  Twin(evict(a, x), evict(b, x)) /\ evictable_size(a) = evictable_size(b)
<1>1. a.branch = b.branch /\ a.running = b.running /\ a.done = b.done
  BY DEF Twin
<1>2. Unlocked(a) = Unlocked(b)
  BY <1>1 DEF Unlocked, Live
<1>3. victims(a, x) = victims(b, x) /\ evictable_size(a) = evictable_size(b)
  BY <1>1, <1>2 DEF victims, evictable_size
<1> DEFINE G == victims(a, x)
           z == [r \in Reqs |-> IF r \in G THEN 0 ELSE a.branch[r]]
           s == a.avail + Sum([r \in G |-> a.branch[r]])
           t == b.avail + Sum([r \in G |-> a.branch[r]])
<1>4. evict(a, x) = [a EXCEPT !.avail = s, !.branch = z]
  BY DEF evict
<1>5. evict(b, x) = [b EXCEPT !.avail = t, !.branch = z]
  BY <1>1, <1>3 DEF evict
<1> HIDE DEF G, z, s, t
<1>6. Twin([a EXCEPT !.avail = s, !.branch = z], [b EXCEPT !.avail = t, !.branch = z])
  BY TwinPairs, Zenon
<1> QED BY <1>3, <1>4, <1>5, <1>6

\* With a published floor they also evict in the same cases.
LEMMA TwinEvictFrom ==
    ASSUME NEW a, NEW b, Twin(a, b), NEW u, NEW v, SameFloor(u, v), NEW x
    PROVE  Twin(evict_from_tree_cache(a, u, x), evict_from_tree_cache(b, v, x))
<1>1. uniform_avail_for_evict(a, u) = uniform_avail_for_evict(b, v)
  BY DEF uniform_avail_for_evict, SameFloor
<1>2. Twin(evict(a, x), evict(b, x))
  BY TwinEvict
<1> QED BY <1>1, <1>2 DEF evict_from_tree_cache

\* The demand of a decode step, and the answer to whether it fits, are the same.
LEMMA TwinDemand ==
    ASSUME NEW a, NEW b, Twin(a, b), NEW u, NEW v, SameFloor(u, v), NEW s
    PROVE  /\ new_tokens_required_next_decode(a, s) = new_tokens_required_next_decode(b, s)
           /\ check_decode_mem(a, u, s) <=> check_decode_mem(b, v, s)
           /\ Twin(evict_for_decode(a, u, s), evict_for_decode(b, v, s))
<1>1. new_tokens_required_next_decode(a, s) = new_tokens_required_next_decode(b, s)
  BY SameDemand DEF Twin
<1>2. check_decode_mem(a, u, s) <=> check_decode_mem(b, v, s)
  BY <1>1 DEF check_decode_mem, decode_mem_avail, SameFloor
<1>3. Twin(evict_for_decode(a, u, s), evict_for_decode(b, v, s))
  BY <1>1, TwinEvictFrom DEF evict_for_decode
<1> QED BY <1>1, <1>2, <1>3

\* An allocation changes nothing that twins share.
LEMMA TwinTake ==
    ASSUME NEW a, NEW b, Twin(a, b), NEW x
    PROVE  Twin(take(a, x), take(b, x))
<1> DEFINE s == a.avail - x
           t == b.avail - x
<1>1. take(a, x) = [a EXCEPT !.oom = TRUE] \/ take(a, x) = [a EXCEPT !.avail = s]
  BY DEF take
<1>2. take(b, x) = [b EXCEPT !.oom = TRUE] \/ take(b, x) = [b EXCEPT !.avail = t]
  BY DEF take
<1> HIDE DEF s, t
<1>3. /\ Twin([a EXCEPT !.oom = TRUE], [b EXCEPT !.oom = TRUE])
      /\ Twin([a EXCEPT !.oom = TRUE], [b EXCEPT !.avail = t])
      /\ Twin([a EXCEPT !.avail = s], [b EXCEPT !.oom = TRUE])
      /\ Twin([a EXCEPT !.avail = s], [b EXCEPT !.avail = t])
  BY TwinUpdates, Zenon
<1> QED BY <1>1, <1>2, <1>3, Zenon

\* A release takes the same request out of both batches.
LEMMA TwinRelease ==
    ASSUME NEW a, NEW b, Twin(a, b), NEW u, NEW v, SameFloor(u, v), NEW r, NEW c
    PROVE  Twin(release_req(a, u, r, c), release_req(b, v, r, c))
<1> DEFINE z == less(a.running, {r})
           s == a.avail + ceil_align(kv_committed_len(a, r)) - a.branch[r]
           t == b.avail + ceil_align(kv_committed_len(b, r)) - b.branch[r]
           d == [a EXCEPT !.avail = s, !.running = z]
           e == [b EXCEPT !.avail = t, !.running = z]
           x == c * RetractDecodeSteps
<1>1. a.running = b.running
  BY DEF Twin
<1>2. release_req(a, u, r, c) = evict_from_tree_cache(d, u, x)
  BY DEF release_req
<1>3. release_req(b, v, r, c) = evict_from_tree_cache(e, v, x)
  BY <1>1 DEF release_req
<1>4. Twin(d, e)
  <2> HIDE DEF z, s, t
  <2> QED BY TwinPairs, Zenon
<1> HIDE DEF d, e, x
<1> QED BY <1>2, <1>3, <1>4, TwinEvictFrom

\* A turn of the loop leaves twins.
LEMMA TwinTurn ==
    ASSUME NEW a, NEW b, Twin(a, b), NEW u, NEW v, SameFloor(u, v), NEW s, NEW i
    PROVE  /\ Twin(looked(a, u, s, i), looked(b, v, s, i))
           /\ Twin(turn(a, u, s, i), turn(b, v, s, i))
<1>1. ASSUME NEW j PROVE Twin(looked(a, u, s, j), looked(b, v, s, j))
  BY TwinDemand DEF looked
<1>2. Twin(turn(a, u, s, i), turn(b, v, s, i))
  BY <1>1, TwinRelease DEF turn
<1> QED BY <1>1, <1>2

\* The loops take the same turns, and end alike.
LEMMA TwinLoop ==
    ASSUME NEW a, NEW b, Twin(a, b), NEW p, NEW q, NEW s,
           Retracting(a, p, s), Retracting(b, q, s), NEW u, NEW v, SameFloor(u, v)
    PROVE  LET l == retract_loop(a, u, s)
               m == retract_loop(b, v, s)
           IN  Twin(l.node, m.node) /\ l.sorted = m.sorted /\ l.retracted = m.retracted
<1> DEFINE N == Len(s) - 1
           g == after_turns(a, u, s)
           h == after_turns(b, v, s)
           T == {i \in Nat : i <= N => Twin(g[i], h[i])}
           G == {i \in 0..N : \/ Len(s) - i = 1
                              \/ i > 0 /\ check_decode_mem(g[i], u, left(s, i))}
           H == {i \in 0..N : \/ Len(s) - i = 1
                              \/ i > 0 /\ check_decode_mem(h[i], v, left(s, i))}
           t == Min(G)
           l == retract_loop(a, u, s)
           m == retract_loop(b, v, s)
<1>1. N \in Nat /\ Len(s) \in Nat
  BY DEF Retracting, NoRepeat
<1>2. g = [i \in 0..N |-> IF i = 0 THEN a ELSE turn(g[i - 1], u, s, i)]
  BY AfterIs
<1>3. h = [i \in 0..N |-> IF i = 0 THEN b ELSE turn(h[i - 1], v, s, i)]
  BY AfterIs
<1>4. l = [node |-> looked(g[t], u, s, t), sorted |-> left(s, t),
           retracted |-> [i \in 1..t |-> popped(s, i)]]
  BY DEF retract_loop
<1>5. m = [node |-> looked(h[Min(H)], v, s, Min(H)), sorted |-> left(s, Min(H)),
           retracted |-> [i \in 1..Min(H) |-> popped(s, i)]]
  BY DEF retract_loop
<1> HIDE DEF g, h, l, m
<1>6. 0 \in T
  <2>1. g[0] = a /\ h[0] = b
    BY <1>1, <1>2, <1>3
  <2> QED BY <2>1
<1>7. ASSUME NEW i \in Nat, i \in T PROVE i + 1 \in T
  <2> SUFFICES ASSUME i + 1 <= N PROVE Twin(g[i + 1], h[i + 1])
    OBVIOUS
  <2> DEFINE k == i + 1
  <2>1. k \in 0..N /\ k # 0 /\ k - 1 = i
    BY <1>1
  <2>2. Twin(g[i], h[i])
    BY <1>1, <1>7
  <2> HIDE DEF k, N
  <2>3. g[k] = turn(g[i], u, s, k) /\ h[k] = turn(h[i], v, s, k)
    BY <1>2, <1>3, <2>1, Zenon
  <2>4. Twin(g[k], h[k])
    BY <2>2, <2>3, TwinTurn
  <2> QED BY <2>4 DEF k
<1>8. \A i \in 0..N : Twin(g[i], h[i])
  <2>1. Nat \subseteq T
    <3> HIDE DEF T
    <3> QED BY <1>6, <1>7, SetInduction
  <2> QED BY <1>1, <2>1
<1>9. \A i \in 0..N : check_decode_mem(g[i], u, left(s, i)) <=> check_decode_mem(h[i], v, left(s, i))
  <2> SUFFICES ASSUME NEW i \in 0..N
               PROVE  check_decode_mem(g[i], u, left(s, i)) <=> check_decode_mem(h[i], v, left(s, i))
    OBVIOUS
  <2>1. Twin(g[i], h[i])
    BY <1>8
  <2> QED BY <2>1, TwinDemand
<1>10. G = H
  <2> HIDE DEF N
  <2> QED BY <1>9
<1>11. t \in 0..N
  <2>1. N \in G /\ G \in SUBSET Nat
    BY <1>1
  <2>2. t \in G
    <3> HIDE DEF G
    <3> QED BY <2>1, MinIs
  <2> HIDE DEF t
  <2> QED BY <2>2
<1>12. Min(H) = t
  BY <1>10, Zenon
<1> HIDE DEF t, H, G
<1>13. Twin(looked(g[t], u, s, t), looked(h[t], v, s, t))
  <2>1. Twin(g[t], h[t])
    <3> HIDE DEF N
    <3> QED BY <1>8, <1>11
  <2> QED BY <2>1, TwinTurn
<1>14. Twin(l.node, m.node) /\ l.sorted = m.sorted /\ l.retracted = m.retracted
  BY <1>4, <1>5, <1>12, <1>13
<1> QED BY <1>14 DEF l, m

\* The ranks prefer the same requests.
LEMMA TwinOrder ==
    ASSUME NEW a, NEW b, Twin(a, b)
    PROVE  get_decode_retraction_order(a) = get_decode_retraction_order(b)
<1>1. a.running = b.running /\ a.output = b.output
  BY DEF Twin
<1> QED BY <1>1, Zenon DEF get_decode_retraction_order

\* They retract the same requests, and fail the same survivor.
LEMMA TwinRetract ==
    ASSUME NEW a, NEW b, Twin(a, b), NEW p, NEW q, Good(a, p), Good(b, q),
           a.running # <<>>, Range(a.running) \cap a.done = {},
           NEW u, NEW v, SameFloor(u, v)
    PROVE  Twin(retract_decode(a, u), retract_decode(b, v))
<1> DEFINE s == get_decode_retraction_order(a)
           l == retract_loop(a, u, s)
           k == retract_loop(b, v, s)
           t == l.sorted
           back == l.retracted
           last == Head(t)
           c == IF Len(t) <= 1 THEN evict_for_decode(l.node, u, t) ELSE l.node
           d == IF Len(t) <= 1 THEN evict_for_decode(k.node, v, t) ELSE k.node
           x == release_req([c EXCEPT !.solo[last] = @ + 1], u, last, 0)
           y == release_req([d EXCEPT !.solo[last] = @ + 1], v, last, 0)
           alone(n, w) == Len(t) <= 1 /\ ~check_decode_mem(n, w, t)
           kept(n) == add_requests_to_queue([n EXCEPT !.running = t], back)
           queued(n) == add_requests_to_queue(n, Append(back, last))
           failed(n) == add_requests_to_queue([n EXCEPT !.aborted = @ \cup {last}], back)
<1>1. NoRepeat(s) /\ Range(s) = Range(a.running) /\ Len(s) = Len(a.running)
  <2>1. NoRepeat(a.running) /\ a.output \in [Reqs -> Nat]
    BY DEF Good, Placed, Node
  <2> QED BY <2>1, RetractionOrderIs
<1>2. Len(s) >= 1
  <2>1. NoRepeat(a.running)
    BY DEF Good, Placed
  <2> HIDE DEF s
  <2> QED BY <1>1, <2>1 DEF NoRepeat
<1>3. s = get_decode_retraction_order(b)
  BY TwinOrder
<1>4. Retracting(a, p, s) /\ Retracting(b, q, s)
  <2> HIDE DEF s
  <2>1. a.running = b.running /\ a.done = b.done
    BY DEF Twin
  <2> QED BY <1>1, <1>2, <2>1 DEF Retracting
<1>5. Twin(l.node, k.node) /\ k.sorted = t /\ k.retracted = back
  BY <1>4, TwinLoop
<1>6. retract_decode(a, u) =
         CASE ~alone(l.node, u) -> kept(c)
           [] alone(l.node, u) /\ x.solo[last] <= SoloOOMMaxRetries -> queued(x)
           [] alone(l.node, u) /\ x.solo[last] > SoloOOMMaxRetries -> failed(x)
  BY DEF retract_decode, after_loop
<1>7. retract_decode(b, v) =
         CASE ~alone(k.node, v) -> kept(d)
           [] alone(k.node, v) /\ y.solo[last] <= SoloOOMMaxRetries -> queued(y)
           [] alone(k.node, v) /\ y.solo[last] > SoloOOMMaxRetries -> failed(y)
  <2> HIDE DEF s, k, t, back
  <2> QED BY <1>3, <1>5 DEF retract_decode, after_loop, k
<1> HIDE DEF s, l, k, t, back
<1>8. alone(l.node, u) <=> alone(k.node, v)
  BY <1>5, TwinDemand
<1>9. Twin(c, d)
  BY <1>5, TwinDemand
<1> HIDE DEF c, d
<1>10. Twin(x, y)
  <2> DEFINE z == [c.solo EXCEPT ![last] = @ + 1]
  <2>1. [c EXCEPT !.solo[last] = @ + 1] = [c EXCEPT !.solo = z]
    OBVIOUS
  <2>2. [d EXCEPT !.solo[last] = @ + 1] = [d EXCEPT !.solo = z]
    BY <1>9 DEF Twin
  <2> HIDE DEF z
  <2>3. Twin([c EXCEPT !.solo = z], [d EXCEPT !.solo = z])
    BY <1>9, TwinUpdates, Zenon
  <2>4. Twin([c EXCEPT !.solo[last] = @ + 1], [d EXCEPT !.solo[last] = @ + 1])
    BY <2>1, <2>2, <2>3
  <2> QED BY <2>4, TwinRelease
<1> HIDE DEF x, y, last
<1>11. ASSUME NEW m, NEW n, Twin(m, n), NEW w
       PROVE  Twin(add_requests_to_queue(m, w), add_requests_to_queue(n, w))
  <2> DEFINE z == m.waiting \o w
  <2>1. m.waiting = n.waiting
    BY <1>11 DEF Twin
  <2>2. add_requests_to_queue(m, w) = [m EXCEPT !.waiting = z]
    BY DEF add_requests_to_queue
  <2>3. add_requests_to_queue(n, w) = [n EXCEPT !.waiting = z]
    BY <2>1 DEF add_requests_to_queue
  <2> HIDE DEF z
  <2>4. Twin([m EXCEPT !.waiting = z], [n EXCEPT !.waiting = z])
    BY <1>11, TwinUpdates, Zenon
  <2> QED BY <2>2, <2>3, <2>4
<1>12. Twin(kept(c), kept(d))
  <2>1. Twin([c EXCEPT !.running = t], [d EXCEPT !.running = t])
    BY <1>9, TwinUpdates, Zenon
  <2> QED BY <1>11, <2>1
<1>13. Twin(queued(x), queued(y))
  BY <1>10, <1>11
<1>14. Twin(failed(x), failed(y))
  <2> DEFINE z == x.aborted \cup {last}
  <2>1. [x EXCEPT !.aborted = @ \cup {last}] = [x EXCEPT !.aborted = z]
    OBVIOUS
  <2>2. [y EXCEPT !.aborted = @ \cup {last}] = [y EXCEPT !.aborted = z]
    BY <1>10 DEF Twin
  <2> HIDE DEF z
  <2>3. Twin([x EXCEPT !.aborted = z], [y EXCEPT !.aborted = z])
    BY <1>10, TwinUpdates, Zenon
  <2> QED BY <1>11, <2>1, <2>2, <2>3
<1>15. x.solo = y.solo
  BY <1>10 DEF Twin
<1>16. ASSUME alone(l.node, u) PROVE x.solo[last] \in Nat
  <2>1. PICK i \in 0..(Len(s) - 1) : Looped(a, p, u, s, i, l)
    BY <1>4, LoopIs DEF l
  <2>2. Len(s) \in Nat
    BY <1>4 DEF Retracting, NoRepeat
  <2>3. i \in Nat /\ i <= Len(s)
    BY <2>2
  <2>4. Turned(a, p, s, i, l.node) /\ t = left(s, i) /\ Len(s) - i = 1
    BY <1>16, <2>1 DEF Looped, t
  <2>5. Turned(a, p, s, i, c)
    BY <1>4, <2>3, <2>4, LookedIs DEF c
  <2> QED BY <1>4, <2>4, <2>5, SurvivorLeaves, Zenon DEF x, last
<1>17. SoloOOMMaxRetries \in Nat
  BY ParametersAssumption
<1> HIDE DEF alone, kept, queued, failed
<1>18. CASE ~alone(l.node, u)
  <2>1. retract_decode(a, u) = kept(c)
    BY <1>6, <1>18
  <2>2. retract_decode(b, v) = kept(d)
    BY <1>7, <1>8, <1>18
  <2> QED BY <1>12, <2>1, <2>2
<1>19. CASE alone(l.node, u) /\ x.solo[last] <= SoloOOMMaxRetries
  <2>1. retract_decode(a, u) = queued(x)
    BY <1>6, <1>16, <1>17, <1>19
  <2>2. retract_decode(b, v) = queued(y)
    BY <1>7, <1>8, <1>15, <1>16, <1>17, <1>19
  <2> QED BY <1>13, <2>1, <2>2
<1>20. CASE alone(l.node, u) /\ x.solo[last] > SoloOOMMaxRetries
  <2>1. retract_decode(a, u) = failed(x)
    BY <1>6, <1>16, <1>17, <1>20
  <2>2. retract_decode(b, v) = failed(y)
    BY <1>7, <1>8, <1>15, <1>16, <1>17, <1>20
  <2> QED BY <1>14, <2>1, <2>2
<1> QED BY <1>16, <1>17, <1>18, <1>19, <1>20

\* The same requests finish, and leave the same branches in the trees.
LEMMA TwinResult ==
    ASSUME NEW a, NEW b, Twin(a, b), NEW reqs, NEW eos
    PROVE  Twin(process_batch_result(a, reqs, eos), process_batch_result(b, reqs, eos))
<1> DEFINE o == [r \in Reqs |-> a.output[r] + (IF r \in reqs THEN 1 ELSE 0)]
           c == [a EXCEPT !.output = o]
           d == [b EXCEPT !.output = o]
           F == {r \in reqs : r \in eos \/ c.output[r] >= max_new_tokens}
           tail(r) == ceil_align(kv_committed_len(c, r)) - floor_align(kv_committed_len(c, r))
           x == c.avail + Sum([r \in F |-> tail(r)])
           y == d.avail + Sum([r \in F |-> tail(r)])
           z == [r \in Reqs |-> IF r \in F THEN floor_align(kv_committed_len(c, r))
                                           ELSE c.branch[r]]
           w == c.done \cup F
<1>1. a.output = b.output
  BY DEF Twin
<1>2. Twin(c, d)
  <2> HIDE DEF o
  <2> QED BY TwinUpdates, Zenon
<1>3. process_batch_result(a, reqs, eos) = release_finished(c, F)
  BY DEF process_batch_result
<1>4. process_batch_result(b, reqs, eos)
        = release_finished(d, {r \in reqs : r \in eos \/ d.output[r] >= max_new_tokens})
  BY <1>1 DEF process_batch_result
<1> HIDE DEF c, d
<1>5. c.output = d.output /\ c.branch = d.branch /\ c.done = d.done
  BY <1>2 DEF Twin
<1>6. \A r : kv_committed_len(c, r) = kv_committed_len(d, r)
  BY <1>5 DEF kv_committed_len, fill_len
<1>7. process_batch_result(b, reqs, eos) = release_finished(d, F)
  BY <1>4, <1>5
<1> HIDE DEF F
<1>8. release_finished(c, F) = [c EXCEPT !.avail = x, !.branch = z, !.done = w]
  BY DEF release_finished
<1>9. release_finished(d, F) = [d EXCEPT !.avail = y, !.branch = z, !.done = w]
  <2> DEFINE f == [r \in F |-> ceil_align(kv_committed_len(d, r))
                                 - floor_align(kv_committed_len(d, r))]
             k == [r \in Reqs |-> IF r \in F THEN floor_align(kv_committed_len(d, r))
                                             ELSE d.branch[r]]
  <2>1. f = [r \in F |-> tail(r)] /\ k = z
    BY <1>5, <1>6
  <2>2. release_finished(d, F)
          = [d EXCEPT !.avail = d.avail + Sum(f), !.branch = k, !.done = d.done \cup F]
    BY DEF release_finished
  <2> HIDE DEF f, k, z, tail
  <2> QED BY <1>5, <2>1, <2>2
<1> HIDE DEF x, y, z, w
<1> DEFINE g == [c EXCEPT !.avail = x, !.branch = z]
           h == [d EXCEPT !.avail = y, !.branch = z]
<1>10. /\ [c EXCEPT !.avail = x, !.branch = z, !.done = w] = [g EXCEPT !.done = w]
       /\ [d EXCEPT !.avail = y, !.branch = z, !.done = w] = [h EXCEPT !.done = w]
  OBVIOUS
<1>11. Twin(g, h)
  BY <1>2, TwinPairs, Zenon
<1> HIDE DEF g, h
<1>12. Twin([g EXCEPT !.done = w], [h EXCEPT !.done = w])
  BY <1>11, TwinUpdates, Zenon
<1> QED BY <1>3, <1>7, <1>8, <1>9, <1>10, <1>12

\* A decode iteration leaves twins.
LEMMA TwinUpdate ==
    ASSUME NEW a, NEW b, Twin(a, b), NEW p, NEW q, Good(a, p), Good(b, q),
           NEW u, NEW v, SameFloor(u, v), NEW eos
    PROVE  Twin(update_running_batch(a, u, eos), update_running_batch(b, v, eos))
<1> DEFINE c == filter_batch(a)
           d == filter_batch(b)
           e == evict_for_decode(c, u, c.running)
           f == evict_for_decode(d, v, d.running)
           over == u.min_avail < new_tokens_required_next_decode(c, c.running)
           g == IF over THEN retract_decode(e, u) ELSE e
           h == IF over THEN retract_decode(f, v) ELSE f
           w == g.full /\ Len(g.running) = Len(a.running)
           s == [g EXCEPT !.full = w]
           t == [h EXCEPT !.full = w]
           decoded(n, m) == process_batch_result(prepare_for_decode(n, m), Range(n.running), eos)
<1>1. a.running = b.running /\ a.done = b.done
  BY DEF Twin
<1>2. Twin(c, d)
  <2> DEFINE z == less(a.running, a.done)
  <2>1. c = [a EXCEPT !.running = z] /\ d = [b EXCEPT !.running = z]
    BY <1>1 DEF filter_batch
  <2> HIDE DEF z, c, d
  <2>2. Twin([a EXCEPT !.running = z], [b EXCEPT !.running = z])
    BY TwinUpdates, Zenon
  <2> QED BY <2>1, <2>2
<1>3. c.running = d.running
  BY <1>2 DEF Twin
<1>4. /\ Twin(e, f)
      /\ new_tokens_required_next_decode(c, c.running)
            = new_tokens_required_next_decode(d, d.running)
  <2> HIDE DEF c, d
  <2> QED BY <1>2, <1>3, TwinDemand
<1>5. Filtered(a, p, c, e) /\ Filtered(b, q, d, f)
  BY FilterKeeps
<1>6. update_running_batch(a, u, eos) =
         IF c.running = <<>> THEN [c EXCEPT !.full = FALSE] ELSE decode(s, u, eos)
  BY DEF update_running_batch, shrunk
<1> DEFINE k == IF v.min_avail < new_tokens_required_next_decode(d, d.running)
                THEN retract_decode(f, v) ELSE f
           j == [k EXCEPT !.full = k.full /\ Len(k.running) = Len(b.running)]
<1>7. update_running_batch(b, v, eos) =
         IF d.running = <<>> THEN [d EXCEPT !.full = FALSE] ELSE decode(j, v, eos)
  BY DEF update_running_batch, shrunk
<1>8. k = h
  <2> HIDE DEF c, d, f
  <2> QED BY <1>4 DEF SameFloor
<1> HIDE DEF c, d, e, f
<1>9. CASE c.running = <<>>
  <2>1. Twin([c EXCEPT !.full = FALSE], [d EXCEPT !.full = FALSE])
    BY <1>2, TwinUpdates, Zenon
  <2> QED BY <1>3, <1>6, <1>7, <1>9, <2>1
<1>10. CASE c.running # <<>>
  <2>1. Twin(g, h)
    <3>1. Good(e, p) /\ Good(f, q) /\ e.running # <<>> /\ Range(e.running) \cap e.done = {}
      BY <1>5, <1>10 DEF Filtered, Alike
    <3>2. Twin(retract_decode(e, u), retract_decode(f, v))
      BY <1>4, <3>1, TwinRetract
    <3> QED BY <1>4, <3>2
  <2> HIDE DEF g, h, k
  <2>2. g.running = h.running /\ g.full = h.full
    BY <2>1 DEF Twin
  <2>3. j = t
    BY <1>1, <1>8, <2>2
  <2> HIDE DEF w, j
  <2>4. Twin(s, t)
    BY <2>1, TwinUpdates, Zenon
  <2> HIDE DEF s, t
  <2>5. s.running = t.running
    BY <2>4 DEF Twin
  <2>6. Twin(decoded(s, u), decoded(t, v))
    <3> DEFINE x == Len(s.running) * page_size
               y == new_tokens_required_next_decode(s, s.running)
               m == evict_from_tree_cache(s, u, x)
               n == evict_from_tree_cache(t, v, x)
    <3>1. Twin(m, n) /\ y = new_tokens_required_next_decode(t, t.running)
      BY <2>4, <2>5, TwinEvictFrom, TwinDemand
    <3>2. prepare_for_decode(s, u) = take(m, y) /\ prepare_for_decode(t, v) = take(n, y)
      BY <2>5, <3>1 DEF prepare_for_decode
    <3> HIDE DEF m, n, y
    <3>3. Twin(prepare_for_decode(s, u), prepare_for_decode(t, v))
      BY <3>1, <3>2, TwinTake
    <3> QED BY <2>5, <3>3, TwinResult
  <2> HIDE DEF decoded
  <2>7. /\ decode(s, u, eos) = IF s.running = <<>> THEN s ELSE decoded(s, u)
        /\ decode(t, v, eos) = IF t.running = <<>> THEN t ELSE decoded(t, v)
    BY DEF decode, decoded
  <2> QED BY <1>3, <1>6, <1>7, <1>10, <2>3, <2>4, <2>5, <2>6, <2>7
<1> QED BY <1>9, <1>10

\* What the reduce gives two ranks: the same floor, and deficits that make up for the
\* difference of their pools.
SameBudget(a, u, b, v) ==
    SameFloor(u, v) /\ a.avail - u.deficit = b.avail - v.deficit

\* They have the same budget for the head of the queue.
LEMMA TwinBudget ==
    ASSUME NEW a, NEW b, Twin(a, b), NEW p, NEW q, Good(a, p), Good(b, q),
           NEW u, NEW v, Budget(a, u), Budget(b, v), SameBudget(a, u, b, v),
           NEW r \in Reqs, NEW ratio
    PROVE  rem_total_tokens(a, u, r, ratio) = rem_total_tokens(b, v, r, ratio)
<1> DEFINE ev == evictable_size(a)
           fundable == u.min_avail + ev
           i == a.avail + ev - a.branch[r] - u.deficit
           j == b.avail + ev - a.branch[r] - v.deficit
           offset == Sum([x \in Range(a.running) |-> max_new(a, x)])
           rest(local) == 100 * (IF u.published THEN Min({local, fundable}) ELSE local)
                             - ratio * offset
<1>1. a.branch = b.branch /\ a.running = b.running /\ a.output = b.output
  BY DEF Twin
<1>2. evictable_size(b) = ev
  BY TwinEvict
<1>3. [x \in Range(b.running) |-> max_new(b, x)] = [x \in Range(a.running) |-> max_new(a, x)]
  BY <1>1 DEF max_new
<1>4. rem_total_tokens(a, u, r, ratio) = rest(i)
  BY DEF rem_total_tokens
<1>5. rem_total_tokens(b, v, r, ratio) = rest(j)
  <2> HIDE DEF ev
  <2> QED BY <1>1, <1>2, <1>3 DEF rem_total_tokens, SameBudget, SameFloor
<1>6. i = j
  <2>1. ev \in Nat
    <3>1. a \in Node /\ Rows(a) /\ 0 \in Int
      BY DEF Good
    <3> QED BY <3>1, EvictIs
  <2>2. /\ a.avail \in Nat /\ b.avail \in Nat /\ u.deficit \in Nat /\ v.deficit \in Nat
        /\ a.branch[r] \in Nat
    BY DEF Good, Books, Budget, Node
  <2> HIDE DEF ev
  <2> QED BY <2>1, <2>2 DEF SameBudget
<1> HIDE DEF i, j, rest
<1> QED BY <1>4, <1>5, <1>6

\* They admit the same request, and leave the batch open or closed alike.
LEMMA TwinPrefill ==
    ASSUME NEW a, NEW b, Twin(a, b), NEW p, NEW q, Good(a, p), Good(b, q),
           NEW u, NEW v, Budget(a, u), Budget(b, v), SameBudget(a, u, b, v),
           NEW ratio, NEW eos
    PROVE  /\ Admits(a, u, ratio) <=> Admits(b, v, ratio)
           /\ Admits(a, u, ratio) => Twin(prefill(a, u, ratio, eos), prefill(b, v, ratio, eos))
<1>1. /\ a.branch = b.branch /\ a.running = b.running /\ a.output = b.output
      /\ a.waiting = b.waiting /\ a.full = b.full
  BY DEF Twin
<1>2. CASE a.waiting = <<>>
  BY <1>1, <1>2, Zenon DEF Admits
<1>3. CASE a.waiting # <<>>
  <2> DEFINE r == Head(a.waiting)
             w == extend_len(a, r)
             need == extend_need(a, r)
             paid == ceil_align(fill_len(a, r)) - a.branch[r]
             kept == floor_align(fill_len(a, r))
             rem == rem_total_tokens(a, u, r, ratio)
             full == /\ a.running # <<>>
                     /\ rem - 100 * (ceil_align(w) + max_new_tokens + page_size) <= 0
  <2>1. /\ extend_len(b, r) = w /\ extend_need(b, r) = need
        /\ fill_len(b, r) = fill_len(a, r) /\ max_new(b, r) = max_new(a, r)
    BY <1>1 DEF extend_len, extend_need, fill_len, max_new
  <2>2. rem_total_tokens(b, v, r, ratio) = rem
    <3>1. r \in Reqs
      BY <1>3, HeadIs
    <3> HIDE DEF r
    <3> QED BY <3>1, TwinBudget
  <2>3. Admits(a, u, ratio) <=> Admits(b, v, ratio)
    <3> HIDE DEF rem
    <3> QED BY <1>1, <2>1, <2>2 DEF Admits, rem
  <2> DEFINE s == Append(a.running, r)
             t == Tail(a.waiting)
             c == [a EXCEPT !.waiting = t, !.running = s]
             d == [b EXCEPT !.waiting = t, !.running = s]
             e == take(evict_from_tree_cache(c, u, need), paid)
             f == take(evict_from_tree_cache(d, v, need), paid)
             g == [e EXCEPT !.branch[r] = kept]
             h == [f EXCEPT !.branch[r] = kept]
             m == process_batch_result(g, {r}, eos)
             n == process_batch_result(h, {r}, eos)
  <2>4. prefill(a, u, ratio, eos) = IF r \in m.done
                                    THEN [m EXCEPT !.running = a.running, !.full = FALSE]
                                    ELSE [m EXCEPT !.full = full]
    BY Zenon DEF prefill
  <2>5. prefill(b, v, ratio, eos) = IF r \in n.done
                                    THEN [n EXCEPT !.running = a.running, !.full = FALSE]
                                    ELSE [n EXCEPT !.full = full]
    <3> HIDE DEF rem, w, need
    <3> QED BY <1>1, <2>1, <2>2, Zenon DEF prefill
  <2> HIDE DEF r, s, t, need, paid, kept, full
  <2>6. Twin(c, d)
    <3> DEFINE x == [a EXCEPT !.waiting = t]
               y == [b EXCEPT !.waiting = t]
    <3>1. Twin(x, y)
      BY TwinUpdates, Zenon
    <3>2. c = [x EXCEPT !.running = s] /\ d = [y EXCEPT !.running = s]
      OBVIOUS
    <3> HIDE DEF x, y, c, d
    <3>3. Twin([x EXCEPT !.running = s], [y EXCEPT !.running = s])
      BY <3>1, TwinUpdates, Zenon
    <3> QED BY <3>2, <3>3
  <2> HIDE DEF c, d
  <2>7. Twin(e, f)
    BY <2>6, TwinEvictFrom, TwinTake DEF SameBudget
  <2> HIDE DEF e, f
  <2>8. Twin(g, h)
    <3> DEFINE z == [e.branch EXCEPT ![r] = kept]
    <3>1. g = [e EXCEPT !.branch = z]
      OBVIOUS
    <3>2. h = [f EXCEPT !.branch = z]
      BY <2>7 DEF Twin
    <3> HIDE DEF z, g, h
    <3>3. Twin([e EXCEPT !.branch = z], [f EXCEPT !.branch = z])
      BY <2>7, TwinUpdates, Zenon
    <3> QED BY <3>1, <3>2, <3>3
  <2> HIDE DEF g, h
  <2>9. Twin(m, n)
    BY <2>8, TwinResult
  <2> HIDE DEF m, n
  <2>10. m.done = n.done
    BY <2>9 DEF Twin
  <2>11. Twin([m EXCEPT !.full = full], [n EXCEPT !.full = full])
    BY <2>9, TwinUpdates, Zenon
  <2>12. Twin([m EXCEPT !.running = a.running, !.full = FALSE],
              [n EXCEPT !.running = a.running, !.full = FALSE])
    <3> DEFINE z == a.running
               x == [m EXCEPT !.running = z]
               y == [n EXCEPT !.running = z]
    <3> HIDE DEF z
    <3>1. Twin(x, y)
      BY <2>9, TwinUpdates, Zenon
    <3>2. /\ [m EXCEPT !.running = z, !.full = FALSE] = [x EXCEPT !.full = FALSE]
          /\ [n EXCEPT !.running = z, !.full = FALSE] = [y EXCEPT !.full = FALSE]
      OBVIOUS
    <3> HIDE DEF x, y
    <3>3. Twin([x EXCEPT !.full = FALSE], [y EXCEPT !.full = FALSE])
      BY <3>1, TwinUpdates, Zenon
    <3> QED BY <3>2, <3>3 DEF z
  <2> QED BY <2>3, <2>4, <2>5, <2>10, <2>11, <2>12
<1> QED BY <1>2, <1>3

\* An iteration leaves twins.
LEMMA TwinBatch ==
    ASSUME NEW a, NEW b, Twin(a, b), NEW p, NEW q, Good(a, p), Good(b, q),
           NEW u, NEW v, Budget(a, u), Budget(b, v), SameBudget(a, u, b, v),
           NEW ratio, NEW eos
    PROVE  Twin(get_next_batch_to_run(a, u, ratio, eos), get_next_batch_to_run(b, v, ratio, eos))
<1>1. CASE Admits(a, u, ratio)
  BY <1>1, TwinPrefill DEF get_next_batch_to_run
<1>2. CASE ~Admits(a, u, ratio)
  <2> DEFINE w == a.full \/ a.waiting # <<>>
             c == [a EXCEPT !.full = w]
             d == [b EXCEPT !.full = w]
  <2>1. ~Admits(b, v, ratio)
    BY <1>2, TwinPrefill
  <2>2. get_next_batch_to_run(a, u, ratio, eos)
          = IF c.running = <<>> THEN c ELSE update_running_batch(c, u, eos)
    BY <1>2 DEF get_next_batch_to_run
  <2>3. a.full = b.full /\ a.waiting = b.waiting
    BY DEF Twin
  <2>4. get_next_batch_to_run(b, v, ratio, eos)
          = IF d.running = <<>> THEN d ELSE update_running_batch(d, v, eos)
    BY <2>1, <2>3 DEF get_next_batch_to_run
  <2>5. w \in BOOLEAN
    OBVIOUS
  <2> HIDE DEF w
  <2>6. Good(c, p) /\ Good(d, q)
    BY <2>5, FullKeeps
  <2>7. Twin(c, d)
    BY TwinUpdates, Zenon
  <2> HIDE DEF c, d
  <2>8. c.running = d.running
    BY <2>7 DEF Twin
  <2>9. Twin(update_running_batch(c, u, eos), update_running_batch(d, v, eos))
    BY <2>6, <2>7, TwinUpdate DEF SameBudget
  <2> QED BY <2>2, <2>4, <2>7, <2>8, <2>9
<1> QED BY <1>1, <1>2

-----------------------------------------------------------------------------
(* The group.                                                              *)

\* Every rank is in order, has been given what was submitted and no more, and is the
\* twin of every other.
Inv ==
    /\ rank \in [Ranks -> Node]
    /\ \A k \in Ranks : Good(rank[k], PoolSize[k])
    /\ \A k \in Ranks : Known(rank[k]) \subseteq submitted
    /\ \A j, k \in Ranks : Twin(rank[j], rank[k])

\* The reduce gives every rank a floor it can stand on; all have the same budget, or
\* the same free slots.
LEMMA ReduceIs ==
    ASSUME Inv, NEW j \in Ranks, NEW k \in Ranks
    PROVE  LET u == update_uniform_pool_budget(j)
               v == update_uniform_pool_budget(k)
           IN  /\ Budget(rank[j], u) /\ Budget(rank[k], v)
               /\ \/ SameBudget(rank[j], u, rank[k], v)
                  \/ rank[j].avail = rank[k].avail
<1> DEFINE A == Avails
           ev(i) == evictable_size(rank[i])
           admission(i) == rank[i].avail + ev(i)
           B == {admission(i) : i \in Ranks}
           low == Min(B)
           u(i) == update_uniform_pool_budget(i)
<1>1. \A i \in Ranks : rank[i].avail \in Nat /\ ev(i) \in Nat
  <2> SUFFICES ASSUME NEW i \in Ranks PROVE rank[i].avail \in Nat /\ ev(i) \in Nat
    OBVIOUS
  <2>1. Good(rank[i], PoolSize[i])
    BY DEF Inv
  <2>2. rank[i] \in Node /\ Rows(rank[i]) /\ rank[i].avail \in Nat /\ 0 \in Int
    BY <2>1 DEF Good, Books
  <2> QED BY <2>2, EvictIs
<1>2. A \in SUBSET Nat /\ A # {} /\ IsFiniteSet(A)
  <2> DEFINE f == [i \in Ranks |-> rank[i].avail]
  <2>1. f \in Surjection(Ranks, A)
    BY DEF Surjection, Avails
  <2>2. IsFiniteSet(A)
    BY <2>1, RanksAssumption, FS_Surjection
  <2> QED BY <1>1, <2>2 DEF Avails
<1>3. /\ Min(A) \in Nat /\ Max(A) \in Nat
      /\ \A i \in Ranks : Min(A) <= rank[i].avail /\ rank[i].avail <= Max(A)
  <2>1. \A i \in Ranks : rank[i].avail \in A
    BY DEF Avails
  <2>2. Min(A) \in A /\ \A x \in A : Min(A) <= x
    BY <1>2, MinIs
  <2>3. Max(A) \in A /\ \A x \in A : x <= Max(A)
    BY <1>2, MaxIs
  <2> QED BY <1>2, <2>1, <2>2, <2>3, Zenon
<1>4. low \in Nat /\ \A i \in Ranks : low <= admission(i)
  <2>1. B \in SUBSET Nat /\ B # {}
    BY <1>1
  <2>2. \A i \in Ranks : admission(i) \in B
    OBVIOUS
  <2> HIDE DEF B
  <2>3. Min(B) \in B /\ \A x \in B : Min(B) <= x
    BY <2>1, MinIs
  <2> HIDE DEF admission
  <2> QED BY <2>1, <2>2, <2>3, Zenon
<1>5. \A i \in Ranks : /\ u(i).min_avail = Min(A) /\ u(i).deficit = admission(i) - low
                       /\ u(i).published = (Min(A) < Max(A))
  BY DEF update_uniform_pool_budget, publish_uniform_evict_floor
<1> HIDE DEF A, B, low, u
<1>6. \A i \in Ranks : Budget(rank[i], u(i))
  <2> SUFFICES ASSUME NEW i \in Ranks PROVE Budget(rank[i], u(i))
    OBVIOUS
  <2>1. rank[i].avail \in Nat /\ ev(i) \in Nat /\ low <= admission(i)
    BY <1>1, <1>4
  <2> HIDE DEF ev
  <2>2. u(i).deficit \in Nat
    BY <1>4, <1>5, <2>1
  <2> QED BY <1>3, <1>5, <2>2 DEF Budget
<1>7. ev(j) = ev(k)
  <2>1. Twin(rank[j], rank[k])
    BY DEF Inv
  <2> QED BY <2>1, TwinEvict
<1>8. CASE Min(A) < Max(A)
  <2>1. rank[j].avail - u(j).deficit = rank[k].avail - u(k).deficit
    <3>1. /\ rank[j].avail \in Nat /\ rank[k].avail \in Nat /\ ev(j) \in Nat /\ low \in Nat
          /\ u(j).deficit = rank[j].avail + ev(j) - low
          /\ u(k).deficit = rank[k].avail + ev(j) - low
      BY <1>1, <1>4, <1>5, <1>7
    <3> HIDE DEF ev
    <3> QED BY <3>1
  <2>2. SameBudget(rank[j], u(j), rank[k], u(k))
    BY <1>5, <1>8, <2>1, Zenon DEF SameBudget, SameFloor
  <2> QED BY <1>6, <2>2 DEF u
<1>9. CASE ~(Min(A) < Max(A))
  <2>1. rank[j].avail = rank[k].avail
    BY <1>1, <1>3, <1>9
  <2> QED BY <1>6, <2>1 DEF u
<1> QED BY <1>8, <1>9

\* Twins with the same free slots, neither of which has failed, are the same.
LEMMA TwinsMeet ==
    ASSUME NEW a, NEW b, Twin(a, b), a.avail = b.avail, a.oom = b.oom
    PROVE  a = b
BY DEF Twin, Shaped

\* An iteration preserves the invariant.
LEMMA IterationInv == Inv /\ Iteration => Inv'
<1> SUFFICES ASSUME Inv, Iteration PROVE Inv'
  OBVIOUS
<1>1. PICK ratio \in Ratios, eos \in SUBSET Scheduled :
         rank' = [k \in Ranks |->
                     get_next_batch_to_run(rank[k], update_uniform_pool_budget(k), ratio, eos)]
  BY DEF Iteration
<1> DEFINE u(k) == update_uniform_pool_budget(k)
           next(k) == get_next_batch_to_run(rank[k], u(k), ratio, eos)
<1>2. ratio \in Nat
  BY ParametersAssumption
<1>3. submitted' = submitted
  BY DEF Iteration
<1>4. ASSUME NEW k \in Ranks
      PROVE  Good(next(k), PoolSize[k]) /\ Known(next(k)) \subseteq submitted
  <2>1. Good(rank[k], PoolSize[k]) /\ Known(rank[k]) \subseteq submitted
    BY DEF Inv
  <2>2. Budget(rank[k], u(k))
    BY ReduceIs
  <2> HIDE DEF u
  <2>3. Good(next(k), PoolSize[k]) /\ Known(next(k)) \subseteq Known(rank[k])
    BY <1>2, <2>1, <2>2, BatchKeeps
  <2> QED BY <2>1, <2>3
<1>5. ASSUME NEW j \in Ranks, NEW k \in Ranks PROVE Twin(next(j), next(k))
  <2>1. /\ Good(rank[j], PoolSize[j]) /\ Good(rank[k], PoolSize[k])
        /\ Twin(rank[j], rank[k])
    BY DEF Inv
  <2>2. /\ Budget(rank[j], u(j)) /\ Budget(rank[k], u(k))
        /\ SameBudget(rank[j], u(j), rank[k], u(k)) \/ rank[j].avail = rank[k].avail
    BY ReduceIs
  <2>3. CASE SameBudget(rank[j], u(j), rank[k], u(k))
    <3> HIDE DEF u
    <3> QED BY <2>1, <2>2, <2>3, TwinBatch, Zenon
  <2>4. CASE rank[j].avail = rank[k].avail
    <3>1. rank[j].oom = FALSE /\ rank[k].oom = FALSE
      BY <2>1 DEF Good, Node
    <3>2. rank[j] = rank[k]
      BY <2>1, <2>4, <3>1, TwinsMeet, Zenon
    <3>3. u(j) = u(k)
      BY <3>2 DEF update_uniform_pool_budget
    <3>4. next(j) = next(k)
      BY <3>2, <3>3
    <3>5. next(j) \in Node
      BY <1>4 DEF Good
    <3> HIDE DEF next
    <3>6. Shaped(next(j))
      BY <3>5, NodeShaped
    <3> QED BY <3>4, <3>6 DEF Twin
  <2> QED BY <2>2, <2>3, <2>4
<1>6. \A k \in Ranks : rank'[k] = next(k)
  BY <1>1
<1> HIDE DEF next
<1>7. rank' \in [Ranks -> Node]
  <2>1. \A k \in Ranks : next(k) \in Node
    BY <1>4 DEF Good
  <2>2. rank' = [k \in Ranks |-> next(k)]
    BY <1>1 DEF next
  <2> QED BY <2>1, <2>2
<1> QED BY <1>3, <1>4, <1>5, <1>6, <1>7 DEF Inv

\* The scheduler starts with every slot free and nothing to do.
LEMMA InitInv == Init => Inv
<1> SUFFICES ASSUME Init PROVE Inv
  OBVIOUS
<1> DEFINE zeros == [r \in Reqs |-> 0]
           start(k) == [avail |-> PoolSize[k], branch |-> zeros,
                        running |-> <<>>, waiting |-> <<>>, full |-> FALSE,
                        output |-> zeros, solo |-> zeros,
                        done |-> {}, aborted |-> {}, oom |-> FALSE]
<1>1. rank = [k \in Ranks |-> start(k)] /\ submitted = {}
  BY DEF Init
<1>2. zeros \in [Reqs -> Nat] /\ <<>> \in Seq(Reqs) /\ Range(<<>>) = {} /\ NoRepeat(<<>>)
  <2>1. DOMAIN <<>> = {} /\ <<>> \in Seq(Reqs)
    OBVIOUS
  <2> QED BY <2>1 DEF Range, NoRepeat, IsInjective
<1>3. Sum(zeros) = 0
  <2>1. Sum(zeros) = Cardinality(Reqs) * 0
    BY <1>2, ReqsAssumption, SumConstant
  <2>2. Cardinality(Reqs) \in Nat
    BY ReqsAssumption, FS_CardinalityType
  <2> QED BY <2>1, <2>2
<1>4. ASSUME NEW k \in Ranks
      PROVE  Good(start(k), PoolSize[k]) /\ Known(start(k)) = {}
  <2> DEFINE n == start(k)
  <2>1. PoolSize[k] \in Nat
    BY RanksAssumption
  <2>2. n \in Node /\ ~n.oom /\ n.avail = PoolSize[k] /\ n.branch = zeros /\ n.output = zeros
        /\ n.running = <<>> /\ n.waiting = <<>> /\ n.done = {} /\ n.aborted = {}
    <3>1. n \in Node
      BY <1>2, <2>1 DEF Node
    <3> QED BY <3>1
  <2> HIDE DEF n
  <2>3. Live(n) = {} /\ Known(n) = {}
    BY <1>2, <2>2 DEF Live, Known
  <2>4. slots(n) = zeros
    BY <2>2, <2>3 DEF slots
  <2>5. Books(n, PoolSize[k])
    BY <1>3, <2>1, <2>2, <2>4 DEF Books
  <2>6. Rows(n) /\ Placed(n)
    BY <1>2, <2>2, <2>3 DEF Rows, Placed
  <2>7. Bounded(n)
    BY <2>2, ParametersAssumption DEF Bounded
  <2>8. Good(n, PoolSize[k])
    BY <2>2, <2>5, <2>6, <2>7 DEF Good
  <2> QED BY <2>3, <2>8, Zenon DEF n
<1>5. ASSUME NEW j \in Ranks, NEW k \in Ranks PROVE Twin(start(j), start(k))
  BY Zenon DEF Twin, Shaped
<1>6. \A k \in Ranks : rank[k] = start(k)
  BY <1>1
<1>7. rank \in [Ranks -> Node]
  BY <1>1, <1>4, Zenon DEF Good
<1> HIDE DEF start
<1> QED BY <1>1, <1>4, <1>5, <1>6, <1>7 DEF Inv

\* A request is new to every rank, and every rank queues it.
LEMMA SubmitInv == ASSUME NEW r \in Reqs PROVE Inv /\ Submit(r) => Inv'
<1> SUFFICES ASSUME Inv, Submit(r) PROVE Inv'
  OBVIOUS
<1> DEFINE next(k) == add_requests_to_queue(rank[k], <<r>>)
<1>1. /\ r \notin submitted /\ submitted' = submitted \cup {r}
      /\ rank' = [k \in Ranks |-> next(k)]
  BY DEF Submit
<1>2. NoRepeat(<<r>>) /\ Range(<<r>>) = {r}
  BY DEF NoRepeat, IsInjective, Range
<1>3. ASSUME NEW k \in Ranks
      PROVE  Good(next(k), PoolSize[k]) /\ Known(next(k)) \subseteq submitted \cup {r}
  <2>1. Good(rank[k], PoolSize[k]) /\ Known(rank[k]) \subseteq submitted
    BY DEF Inv
  <2>2. Range(<<r>>) \cap (Range(rank[k].running) \cup Range(rank[k].waiting)
                             \cup rank[k].done \cup rank[k].aborted) = {}
    BY <1>1, <1>2, <2>1 DEF Known
  <2>3. /\ Good(next(k), PoolSize[k]) /\ next(k).running = rank[k].running
        /\ next(k).done = rank[k].done /\ next(k).aborted = rank[k].aborted
        /\ Range(next(k).waiting) = Range(rank[k].waiting) \cup Range(<<r>>)
    <3>1. Good(rank[k], PoolSize[k])
      BY <2>1
    <3>2. NoRepeat(<<r>>)
      BY <1>2
    <3> QED BY <2>2, <3>1, <3>2, QueueKeeps
  <2> HIDE DEF next
  <2> QED BY <1>2, <2>1, <2>3 DEF Known
<1>4. ASSUME NEW j \in Ranks, NEW k \in Ranks PROVE Twin(next(j), next(k))
  <2>1. Twin(rank[j], rank[k])
    BY DEF Inv
  <2>2. \A z : Twin([rank[j] EXCEPT !.waiting = z], [rank[k] EXCEPT !.waiting = z])
    BY <2>1, TwinUpdates, Zenon
  <2>3. rank[j].waiting = rank[k].waiting
    BY <2>1 DEF Twin
  <2> QED BY <2>2, <2>3, Zenon DEF add_requests_to_queue
<1>5. \A k \in Ranks : rank'[k] = next(k)
  BY <1>1
<1>6. rank' \in [Ranks -> Node]
  BY <1>1, <1>3 DEF Good
<1> HIDE DEF next
<1> QED BY <1>1, <1>3, <1>4, <1>5, <1>6 DEF Inv

\* The invariant holds of every behaviour.
THEOREM Invariance == Spec => []Inv
<1>1. Inv /\ [Next]_vars => Inv'
  <2> SUFFICES ASSUME Inv, [Next]_vars PROVE Inv'
    OBVIOUS
  <2>1. ASSUME NEW r \in Reqs, Submit(r) PROVE Inv'
    BY <2>1, SubmitInv
  <2>2. CASE Iteration
    BY <2>2, IterationInv
  <2>3. CASE Idle \/ UNCHANGED vars
    BY <2>3 DEF Idle, vars, Inv
  <2> QED BY <2>1, <2>2, <2>3 DEF Next
<1> QED BY InitInv, <1>1, PTL DEF Spec

\* Whatever the sizes of their pools, the ranks admit, retract, abort and finish the
\* same requests in the same order, on the floor that the reduce at the top of the
\* iteration publishes.
THEOREM RanksAlwaysAgree == Spec => []RanksAgree
<1>1. Inv => RanksAgree
  <2> SUFFICES ASSUME Inv, NEW j \in Ranks, NEW k \in Ranks
               PROVE  [rank[j] EXCEPT !.avail = 0] = [rank[k] EXCEPT !.avail = 0]
    BY DEF RanksAgree
  <2>1. Twin(rank[j], rank[k])
    BY DEF Inv
  <2>2. rank[j].oom = FALSE /\ rank[k].oom = FALSE
    BY DEF Inv, Good, Node
  <2> QED BY <2>1, <2>2, Zenon DEF Twin, Shaped
<1> QED BY Invariance, <1>1, PTL

\* No allocation for a batch that the scheduler decided to run fails, on any rank:
\* retraction leaves what the decode step takes, and admission what the prefill does.
THEOREM AllocationsSucceed == Spec => []NeverOOM
<1>1. Inv => NeverOOM
  BY DEF Inv, Good, NeverOOM
<1> QED BY Invariance, <1>1, PTL

\* No slot of a rank's pool is lost or given twice, and no request is in two places.
THEOREM SlotsAlwaysBalance == Spec => []SlotsBalance
<1>1. Inv => SlotsBalance
  <2> SUFFICES ASSUME Inv, NEW k \in Ranks
               PROVE  LET n == rank[k]
                      IN  /\ n.avail + Sum(slots(n)) = PoolSize[k]
                          /\ \A r \in Live(n) : n.branch[r] <= kv_committed_len(n, r)
                          /\ IsInjective(n.waiting) /\ IsInjective(n.running)
                          /\ Range(n.running) \cap Range(n.waiting) = {}
                          /\ Range(n.waiting) \cap (n.done \cup n.aborted) = {}
    BY DEF SlotsBalance, slots
  <2>1. Good(rank[k], PoolSize[k])
    BY DEF Inv
  <2>2. Rows(rank[k]) /\ Placed(rank[k]) /\ Books(rank[k], PoolSize[k])
    BY <2>1 DEF Good
  <2> QED BY <2>2 DEF Rows, Placed, Books, NoRepeat
<1> QED BY Invariance, <1>1, PTL
=============================================================================
