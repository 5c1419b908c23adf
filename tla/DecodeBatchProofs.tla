-------------------------- MODULE DecodeBatchProofs --------------------------
(***************************************************************************)
(* One iteration of one rank of DecodeRetraction: update_running_batch(),  *)
(* the admission of prefill requests, and get_next_batch_to_run() with the *)
(* processing of its result. Each keeps the rank Good (DecodeRankProofs).  *)
(***************************************************************************)
EXTENDS DecodeRankProofs

-----------------------------------------------------------------------------
(* Decode.                                                                 *)

\* The slots of a batch and its demand are the slots for one more token of each.
LEMMA DemandCharges ==
    ASSUME NEW n \in Node, Rows(n), Range(n.running) \cap n.done = {}
    PROVE  /\ charged(n, Range(n.running)) \in [Reqs -> Nat]
           /\ Sum(charged(n, Range(n.running)))
                 = Sum(slots(n)) + new_tokens_required_next_decode(n, n.running)
<1> DEFINE B == Range(n.running)
           D == {r \in B : kv_committed_len(n, r) % page_size = 0}
           f == [r \in D |-> page_size]
           inc == [r \in Reqs |-> IF r \in D THEN page_size ELSE 0]
           c == charged(n, B)
<1>1. /\ Live(n) = B /\ B \subseteq Reqs
      /\ \A r \in B : kv_committed_len(n, r) \in Nat
      /\ \A r \in Reqs : fill_len(n, r) \in Nat /\ kv_committed_len(n, r) = fill_len(n, r) - 1
      /\ slots(n) \in [Reqs -> Nat] /\ Sum(slots(n)) \in Nat
  <2>1. Live(n) = B
    BY DEF Live
  <2> QED BY <2>1, LiveIs
<1>2. page_size \in Nat
  BY ParametersAssumption
<1>3. n.running \in Seq(Reqs)
  BY DEF Node
<1>4. IsFiniteSet(D) /\ D \subseteq Reqs
  BY <1>1, <1>3, DemandIs, Zenon
<1>5. new_tokens_required_next_decode(n, n.running) = page_size * Cardinality(D)
  BY DEF new_tokens_required_next_decode
<1> HIDE DEF B
<1>6. ASSUME NEW r \in Reqs PROVE c[r] = slots(n)[r] + inc[r]
  <2> DEFINE x == kv_committed_len(n, r)
  <2>1. CASE r \in B
    <3>1. x \in Nat /\ fill_len(n, r) = x + 1
      BY <1>1, <2>1
    <3>2. c[r] = ceil_align(x + 1)
      BY <2>1, <3>1 DEF charged
    <3>3. slots(n)[r] = ceil_align(x)
      BY <1>1, <2>1 DEF slots
    <3>4. inc[r] = IF x % page_size = 0 THEN page_size ELSE 0
      BY <2>1
    <3> HIDE DEF x, c, inc
    <3>5. ceil_align(x + 1) = ceil_align(x) + (IF x % page_size = 0 THEN page_size ELSE 0)
      BY <3>1, NextToken
    <3> QED BY <3>2, <3>3, <3>4, <3>5
  <2>2. CASE r \notin B
    <3>1. c[r] = slots(n)[r] /\ inc[r] = 0
      BY <2>2 DEF charged
    <3>2. slots(n)[r] \in Nat
      BY <1>1
    <3> QED BY <3>1, <3>2
  <2> QED BY <2>1, <2>2
<1>7. f \in [D -> Nat] /\ inc \in [Reqs -> Nat] /\ \A r \in D : f[r] = page_size
  BY <1>2
<1>8. c \in [Reqs -> Nat]
  <2>1. \A r \in Reqs : c[r] \in Nat
    <3> HIDE DEF c, inc
    <3> QED BY <1>1, <1>6, <1>7
  <2> QED BY <2>1 DEF charged
<1>9. Sum(c) = Sum(slots(n)) + Sum(inc)
  <2> HIDE DEF c, inc
  <2>1. slots(n) \in [Reqs -> Nat] /\ inc \in [Reqs -> Nat] /\ IsFiniteSet(Reqs)
    BY <1>1, <1>7, ReqsAssumption
  <2>2. \A r \in Reqs : c[r] = slots(n)[r] + inc[r]
    BY <1>6
  <2> QED BY <1>8, <2>1, <2>2, SumPlus
<1>10. Sum(f) = Sum(inc)
  <2>1. \A r \in D : inc[r] = f[r]
    BY <1>4
  <2>2. \A r \in Reqs \ D : inc[r] = 0
    OBVIOUS
  <2> HIDE DEF D, f, inc
  <2> QED BY <1>4, <1>7, <2>1, <2>2, SumZeros
<1>11. Sum(f) = Cardinality(D) * page_size
  <2> HIDE DEF D, f
  <2> QED BY <1>2, <1>4, <1>7, SumConstant
<1>12. Cardinality(D) \in Nat
  <2> HIDE DEF D
  <2> QED BY <1>4, FS_CardinalityType
<1> HIDE DEF D, f, inc, c
<1>13. Sum(c) = Sum(slots(n)) + new_tokens_required_next_decode(n, n.running)
  BY <1>1, <1>2, <1>5, <1>9, <1>10, <1>11, <1>12
<1> QED BY <1>8, <1>13 DEF c, B

\* A decode step that the free slots can pay for keeps a rank in order.
LEMMA DecodeKeeps ==
    ASSUME NEW n, NEW size, Good(n, size), Range(n.running) \cap n.done = {}, NEW u, NEW eos,
           new_tokens_required_next_decode(n, n.running) <= n.avail
    PROVE  LET m == process_batch_result(prepare_for_decode(n, u), Range(n.running), eos)
           IN  Good(m, size) /\ Known(m) \subseteq Known(n)
<1> DEFINE need == new_tokens_required_next_decode(n, n.running)
           e == evict_from_tree_cache(n, u, Len(n.running) * page_size)
           a == e.avail - need
           p == [e EXCEPT !.avail = a]
           B == Range(n.running)
           m == process_batch_result(p, B, eos)
           F == Finishing(p, B, eos)
<1>1. n \in Node /\ Rows(n) /\ n.avail \in Nat /\ n.running \in Seq(Reqs)
  BY DEF Good, Books, Node
<1>2. need \in Nat
  BY <1>1, DemandIs, Zenon
<1>3. Len(n.running) * page_size \in Int
  BY <1>1, ParametersAssumption
<1>4. Evicted(n, e)
  BY <1>1, <1>3, EvictFromTree
<1>5. prepare_for_decode(n, u) = take(e, need)
  BY DEF prepare_for_decode
<1> HIDE DEF e
<1>6. Good(e, size) /\ Alike(n, e) /\ n.avail <= e.avail
  BY <1>4, EvictedGood DEF Evicted
<1>7. /\ e \in Node /\ ~e.oom /\ Rows(e) /\ Bounded(e) /\ Placed(e)
      /\ e.avail \in Nat /\ e.avail + Sum(slots(e)) = size
      /\ e.running = n.running /\ e.output = n.output /\ e.done = n.done
      /\ e.waiting = n.waiting /\ e.aborted = n.aborted
  BY <1>6 DEF Good, Books, Alike
<1>8. need = new_tokens_required_next_decode(e, e.running)
  BY <1>7, SameDemand
<1> HIDE DEF need
<1>9. need <= n.avail
  BY DEF need
<1>10. a \in Nat /\ need <= e.avail
  BY <1>1, <1>2, <1>6, <1>7, <1>9
<1>11. take(e, need) = p
  BY <1>2, <1>7, <1>10 DEF take
<1> HIDE DEF a
<1>12. /\ p \in Node /\ p.avail = a /\ p.branch = e.branch /\ p.running = e.running
       /\ p.waiting = e.waiting /\ p.output = e.output /\ p.done = e.done
       /\ p.aborted = e.aborted /\ p.oom = e.oom
  <2>1. a \in Int /\ e \in Node
    BY <1>7, <1>10
  <2> QED BY <2>1, Zenon DEF Node
<1> HIDE DEF p
<1>13. Placed(p) /\ Rows(p) /\ Range(p.running) \cap p.done = {} /\ Live(p) = B
  <2>1. Placed(p)
    BY <1>7, <1>12 DEF Placed
  <2>2. Live(p) = Live(e) /\ \A r : kv_committed_len(p, r) = kv_committed_len(e, r)
    BY <1>12 DEF Live, kv_committed_len, fill_len
  <2>3. Rows(p)
    BY <1>7, <1>12, <2>2 DEF Rows
  <2>4. Range(p.running) \cap p.done = {} /\ Live(p) = B
    BY <1>7, <1>12 DEF Live
  <2> QED BY <2>1, <2>3, <2>4
<1>14. slots(p) = slots(e)
  BY <1>12 DEF slots, Live, kv_committed_len, fill_len
<1>15. new_tokens_required_next_decode(p, p.running) = need
  <2>1. p.output = e.output /\ p.running = e.running
    BY <1>12
  <2>2. new_tokens_required_next_decode(p, e.running)
           = new_tokens_required_next_decode(e, e.running)
    BY <2>1, SameDemand
  <2> QED BY <1>8, <2>1, <2>2
<1>16. Range(p.running) = B
  BY <1>7, <1>12
<1>17. Sum(charged(p, B)) = Sum(slots(e)) + need
  BY <1>12, <1>13, <1>14, <1>15, <1>16, DemandCharges
<1> HIDE DEF B
<1>18. p.avail + Sum(charged(p, B)) = size
  <2>1. Sum(slots(e)) \in Nat
    BY <1>7, LiveIs
  <2>2. p.avail = e.avail - need
    BY <1>12 DEF a
  <2> QED BY <1>2, <1>7, <1>17, <2>1, <2>2
<1>19. /\ B \in SUBSET Live(p) /\ B \subseteq Reqs
       /\ \A r \in Live(p) \ B : /\ 1 <= p.output[r] /\ p.output[r] < max_new_tokens
                                 /\ p.branch[r] <= kv_committed_len(p, r)
       /\ \A r \in B : p.branch[r] <= fill_len(p, r)
  <2>1. B \subseteq Reqs
    BY <1>12, <1>13, LiveIs
  <2>2. ASSUME NEW r \in B PROVE p.branch[r] <= fill_len(p, r)
    <3>1. p.branch[r] \in Nat
      BY <1>12, <2>1 DEF Node
    <3>2. /\ fill_len(p, r) \in Nat /\ kv_committed_len(p, r) = fill_len(p, r) - 1
      BY <1>12, <1>13, <2>1, LiveIs
    <3>3. p.branch[r] <= kv_committed_len(p, r)
      BY <1>13 DEF Rows
    <3> QED BY <3>1, <3>2, <3>3
  <2> QED BY <1>13, <2>1, <2>2
<1>20. p.avail \in Nat
  BY <1>10, <1>12
<1>21. Rows(m) /\ Placed(m) /\ Books(m, size)
  BY <1>12, <1>13, <1>18, <1>19, <1>20, ResultKeeps
<1>22. Resulted(p, B, F, m)
  BY <1>12, <1>19, ResultIs
<1> HIDE DEF m
<1>23. /\ m \in Node /\ ~m.oom /\ m.running = p.running /\ m.waiting = p.waiting
       /\ m.aborted = p.aborted /\ m.done = p.done \cup F /\ F \subseteq B
       /\ \A r \in Reqs : m.output[r] = p.output[r] + (IF r \in B THEN 1 ELSE 0)
  <2>1. F \subseteq B
    BY Zenon DEF Finishing
  <2> HIDE DEF F
  <2> QED BY <1>7, <1>12, <1>22, <2>1 DEF Resulted
<1> HIDE DEF F
<1>24. Bounded(m)
  <2> SUFFICES ASSUME NEW r \in Reqs, r \notin m.done \/ r \in Range(m.running)
               PROVE  m.output[r] <= max_new_tokens
    BY DEF Bounded
  <2>1. p.output[r] \in Nat /\ max_new_tokens \in Nat
    BY <1>12, ParametersAssumption DEF Node
  <2>2. CASE r \in B
    <3>1. p.output[r] < max_new_tokens
      BY <1>13, <2>2 DEF Rows
    <3> QED BY <1>23, <2>1, <2>2, <3>1
  <2>3. CASE r \notin B
    <3>1. r \notin e.done \/ r \in Range(e.running)
      BY <1>12, <1>23
    <3>2. e.output[r] <= max_new_tokens
      BY <1>7, <3>1 DEF Bounded
    <3> QED BY <1>12, <1>23, <2>1, <2>3, <3>2
  <2> QED BY <2>2, <2>3
<1>25. Good(m, size)
  BY <1>21, <1>23, <1>24 DEF Good
<1>26. Known(m) \subseteq Known(n)
  BY <1>7, <1>12, <1>23, Zenon DEF Known, B
<1> QED BY <1>5, <1>11, <1>25, <1>26 DEF m, B

\* The batch b without the finished requests, and e, evicted for its next step.
Filtered(n, size, b, e) ==
    /\ Good(b, size) /\ Known(b) \subseteq Known(n) /\ b.avail = n.avail
    /\ new_tokens_required_next_decode(b, b.running) \in Nat
    /\ Good(e, size) /\ Alike(b, e) /\ b.avail <= e.avail /\ Known(e) = Known(b)
    /\ Range(e.running) \cap e.done = {}

\* filter_batch() and the eviction of check_decode_mem() keep a rank in order.
LEMMA FilterKeeps ==
    ASSUME NEW n, NEW size, Good(n, size), NEW u
    PROVE  LET b == filter_batch(n)
           IN  Filtered(n, size, b, evict_for_decode(b, u, b.running))
<1> DEFINE t == less(n.running, n.done)
           b == filter_batch(n)
           e == evict_for_decode(b, u, b.running)
<1>1. /\ n \in Node /\ ~n.oom /\ Placed(n) /\ NoRepeat(n.running)
  BY DEF Good, Placed
<1>2. NoRepeat(t) /\ Range(t) = Range(n.running) \ n.done
  BY <1>1, LessIs
<1>3. b = [n EXCEPT !.running = t]
  BY DEF filter_batch
<1> HIDE DEF t, b
<1>4. /\ b \in Node /\ b.running = t /\ b.avail = n.avail /\ b.branch = n.branch
      /\ b.waiting = n.waiting /\ b.output = n.output /\ b.done = n.done
      /\ b.aborted = n.aborted /\ b.oom = n.oom
  <2>1. t \in Seq(Reqs)
    BY <1>2 DEF NoRepeat
  <2> QED BY <1>1, <1>3, <2>1, Zenon DEF Node
<1>5. Good(b, size)
  <2>1. Placed(b)
    BY <1>1, <1>2, <1>4 DEF Placed
  <2>2. Live(b) = Live(n) /\ Range(b.running) \subseteq Range(n.running)
    BY <1>2, <1>4 DEF Live
  <2> QED BY <1>1, <1>4, <2>1, <2>2, SameGood
<1>6. Known(b) \subseteq Known(n) /\ Range(b.running) \cap b.done = {}
  BY <1>2, <1>4 DEF Known
<1>7. b.running \in Seq(Reqs) /\ Rows(b)
  BY <1>4, <1>5 DEF Node, Good
<1>8. new_tokens_required_next_decode(b, b.running) \in Nat
  BY <1>7, DemandIs, Zenon
<1>9. Evicted(b, e)
  <2>1. new_tokens_required_next_decode(b, b.running) \in Int
    BY <1>8
  <2> QED BY <1>4, <1>7, <2>1, EvictFromTree DEF evict_for_decode
<1> HIDE DEF e
<1>10. Good(e, size) /\ Alike(b, e) /\ b.avail <= e.avail
  BY <1>5, <1>9, EvictedGood DEF Evicted
<1>11. Known(e) = Known(b) /\ Range(e.running) \cap e.done = {}
  BY <1>6, <1>10 DEF Known, Alike
<1>12. Filtered(n, size, b, e)
  BY <1>4, <1>5, <1>6, <1>8, <1>10, <1>11 DEF Filtered
<1> QED BY <1>12 DEF b, e

\* update_running_batch() keeps a rank in order.
LEMMA UpdateKeeps ==
    ASSUME NEW n, NEW size, Good(n, size), NEW u, NEW eos,
           u.min_avail \in Nat, u.min_avail <= n.avail
    PROVE  LET m == update_running_batch(n, u, eos)
           IN  Good(m, size) /\ Known(m) \subseteq Known(n)
<1> DEFINE b == filter_batch(n)
           e == evict_for_decode(b, u, b.running)
           over == u.min_avail < new_tokens_required_next_decode(b, b.running)
           kept == IF over THEN retract_decode(e, u) ELSE e
           v == kept.full /\ Len(kept.running) = Len(n.running)
           s == [kept EXCEPT !.full = v]
           m == process_batch_result(prepare_for_decode(s, u), Range(s.running), eos)
           g == [b EXCEPT !.full = FALSE]
<1>1. update_running_batch(n, u, eos) =
         IF b.running = <<>> THEN g ELSE IF s.running = <<>> THEN s ELSE m
  BY DEF update_running_batch, shrunk, decode
<1>2. Filtered(n, size, b, e)
  BY FilterKeeps
<1> HIDE DEF b
<1>3. b \in Node /\ ~b.oom /\ Placed(b) /\ b.avail = n.avail
  BY <1>2, Zenon DEF Filtered, Good
<1>4. /\ g \in Node /\ g.running = b.running /\ g.avail = b.avail /\ g.branch = b.branch
      /\ g.waiting = b.waiting /\ g.output = b.output /\ g.done = b.done
      /\ g.aborted = b.aborted /\ g.oom = b.oom
  BY <1>3, Zenon DEF Node
<1> HIDE DEF g
<1>5. Good(g, size) /\ Known(g) = Known(b)
  <2>1. Placed(g) /\ Live(g) = Live(b) /\ Known(g) = Known(b)
    BY <1>3, <1>4 DEF Placed, Live, Known
  <2>2. Good(b, size)
    BY <1>2 DEF Filtered
  <2> QED BY <1>3, <1>4, <2>1, <2>2, SameGood
<1>6. Known(b) \subseteq Known(n)
  BY <1>2 DEF Filtered
<1>7. new_tokens_required_next_decode(b, b.running) \in Nat
  BY <1>2 DEF Filtered
<1> HIDE DEF e
<1>8. Good(e, size) /\ Alike(b, e) /\ b.avail <= e.avail
  BY <1>2 DEF Filtered
<1>9. Known(e) = Known(b) /\ Range(e.running) \cap e.done = {}
  BY <1>2 DEF Filtered
<1>10. CASE b.running = <<>>
  BY <1>1, <1>5, <1>6, <1>10
<1>11. CASE b.running # <<>>
  <2>1. /\ Good(kept, size) /\ e.avail <= kept.avail /\ Known(kept) \subseteq Known(e)
        /\ Range(kept.running) \cap kept.done = {}
        /\ kept.running = <<>> \/ check_decode_mem(kept, u, kept.running)
    <3>1. CASE over
      <4>1. e.running # <<>>
        BY <1>8, <1>11, Zenon DEF Alike
      <4>2. Good(retract_decode(e, u), size) /\ Retracted(e, retract_decode(e, u), u)
        BY <1>8, <1>9, <4>1, RetractKeeps
      <4>3. kept = retract_decode(e, u)
        BY <3>1
      <4> HIDE DEF kept
      <4> QED BY <1>9, <4>2, <4>3 DEF Retracted
    <3>2. CASE ~over
      <4>1. kept = e
        BY <3>2
      <4>2. e.output = b.output /\ e.running = b.running
        BY <1>8 DEF Alike
      <4>3. new_tokens_required_next_decode(e, b.running)
               = new_tokens_required_next_decode(b, b.running)
        BY <4>2, SameDemand
      <4>4. check_decode_mem(e, u, e.running)
        BY <1>7, <3>2, <4>2, <4>3 DEF check_decode_mem, decode_mem_avail
      <4>5. e.avail \in Nat
        BY <1>8 DEF Good, Books
      <4> HIDE DEF kept
      <4> QED BY <1>8, <1>9, <4>1, <4>4, <4>5
    <3> QED BY <3>1, <3>2
  <2> HIDE DEF kept, over
  <2>2. kept \in Node /\ ~kept.oom /\ Placed(kept) /\ v \in BOOLEAN
    BY <2>1 DEF Good
  <2> HIDE DEF v
  <2>3. /\ s \in Node /\ s.running = kept.running /\ s.avail = kept.avail
        /\ s.branch = kept.branch /\ s.waiting = kept.waiting /\ s.output = kept.output
        /\ s.done = kept.done /\ s.aborted = kept.aborted /\ s.oom = kept.oom
    BY <2>2, Zenon DEF Node
  <2> HIDE DEF s
  <2>4. Good(s, size)
    <3>1. Placed(s)
      BY <2>2, <2>3, Zenon DEF Placed
    <3>2. Live(s) = Live(kept) /\ Range(s.running) \subseteq Range(kept.running)
      BY <2>3 DEF Live
    <3> QED BY <2>1, <2>2, <2>3, <3>1, <3>2, SameGood, Zenon
  <2>5. Known(s) \subseteq Known(n) /\ Range(s.running) \cap s.done = {}
    BY <1>6, <1>9, <2>1, <2>3 DEF Known
  <2>6. CASE s.running = <<>>
    <3>1. update_running_batch(n, u, eos) = s
      BY <1>1, <1>11, <2>6
    <3> QED BY <2>4, <2>5, <3>1, Zenon
  <2>7. CASE s.running # <<>>
    <3>1. update_running_batch(n, u, eos) = m
      BY <1>1, <1>11, <2>7
    <3>2. new_tokens_required_next_decode(s, s.running) <= u.min_avail
      <4>1. s.running \in Seq(Reqs)
        BY <2>3 DEF Node
      <4>2. new_tokens_required_next_decode(s, s.running) \in Nat
        BY <4>1, DemandIs, Zenon
      <4>3. new_tokens_required_next_decode(s, s.running)
               = new_tokens_required_next_decode(kept, s.running)
        BY <2>3, SameDemand
      <4>4. check_decode_mem(kept, u, s.running)
        BY <2>1, <2>3, <2>7
      <4> QED BY <4>2, <4>3, <4>4 DEF check_decode_mem, decode_mem_avail
    <3>3. u.min_avail <= s.avail
      <4>1. n.avail \in Nat /\ e.avail \in Nat /\ s.avail \in Nat
        BY <1>8, <2>4 DEF Good, Books
      <4> QED BY <1>3, <1>8, <2>1, <2>3, <4>1
    <3>4. new_tokens_required_next_decode(s, s.running) <= s.avail
      <4>1. s.running \in Seq(Reqs) /\ s.avail \in Int
        BY <2>3 DEF Node
      <4>2. new_tokens_required_next_decode(s, s.running) \in Nat
        BY <4>1, DemandIs, Zenon
      <4> QED BY <3>2, <3>3, <4>1, <4>2
    <3>5. Good(m, size) /\ Known(m) \subseteq Known(s)
      BY <2>4, <2>5, <3>4, DecodeKeeps, Zenon
    <3> HIDE DEF m
    <3> QED BY <2>5, <3>1, <3>5
  <2> QED BY <2>6, <2>7
<1> QED BY <1>10, <1>11

-----------------------------------------------------------------------------
(* Prefill.                                                                *)

\* The head of the queue is a request that is nowhere else.
LEMMA HeadIs ==
    ASSUME NEW n, NEW size, Good(n, size), n.waiting # <<>>
    PROVE  LET r == Head(n.waiting)
           IN  /\ r \in Reqs /\ r \in Range(n.waiting)
               /\ r \notin Range(n.running) /\ r \notin n.done /\ r \notin n.aborted
               /\ NoRepeat(Tail(n.waiting)) /\ Range(Tail(n.waiting)) = Range(n.waiting) \ {r}
               /\ NoRepeat(Append(n.running, r))
               /\ Range(Append(n.running, r)) = Range(n.running) \cup {r}
<1> DEFINE w == n.waiting
           r == Head(w)
           one == <<r>>
<1>1. Placed(n) /\ n \in Node
  BY DEF Good
<1>2. /\ w \in Seq(Reqs) /\ n.running \in Seq(Reqs)
      /\ IsInjective(w) /\ IsInjective(n.running) /\ w # <<>>
  BY <1>1 DEF Placed, NoRepeat
<1> HIDE DEF w
<1>3. r \in Reqs /\ one \in Seq(Reqs) /\ Tail(w) \in Seq(Reqs) /\ w = one \o Tail(w)
  <2>1. /\ r \in Reqs /\ Tail(w) \in Seq(Reqs) /\ Len(w) \in Nat /\ Len(w) >= 1
        /\ Len(Tail(w)) = Len(w) - 1 /\ r = w[1]
        /\ \A i \in 1..(Len(w) - 1) : Tail(w)[i] = w[i + 1]
    BY <1>2
  <2>2. one \in Seq(Reqs) /\ Len(one) = 1 /\ one[1] = r
    BY <2>1
  <2> DEFINE v == Tail(w)
             c == one \o v
  <2>3. v \in Seq(Reqs) /\ Len(v) = Len(w) - 1
    BY <2>1
  <2> HIDE DEF one, r, v
  <2>4. /\ c \in Seq(Reqs) /\ Len(c) = Len(w)
        /\ \A i \in 1..Len(w) : c[i] = IF i <= 1 THEN one[i] ELSE v[i - 1]
    <3>1. /\ c \in Seq(Reqs) /\ Len(c) = Len(one) + Len(v)
          /\ \A i \in 1..(Len(one) + Len(v)) :
                c[i] = IF i <= Len(one) THEN one[i] ELSE v[i - Len(one)]
      <4>1. one \in Seq(Reqs) /\ v \in Seq(Reqs)
        BY <2>2, <2>3
      <4> QED BY <4>1
    <3>2. Len(one) + Len(v) = Len(w) /\ Len(one) = 1
      BY <2>1, <2>2, <2>3
    <3> HIDE DEF c
    <3> QED BY <3>1, <3>2
  <2> HIDE DEF c
  <2>5. \A i \in 1..Len(w) : c[i] = w[i]
    <3> SUFFICES ASSUME NEW i \in 1..Len(w) PROVE c[i] = w[i]
      OBVIOUS
    <3>1. CASE i = 1
      BY <2>1, <2>2, <2>4, <3>1
    <3>2. CASE i # 1
      <4>1. i - 1 \in 1..(Len(w) - 1) /\ (i - 1) + 1 = i /\ ~(i <= 1)
        BY <2>1, <3>2
      <4>2. v[i - 1] = w[(i - 1) + 1]
        BY <2>1, <4>1 DEF v
      <4> QED BY <2>4, <4>1, <4>2
    <3> QED BY <3>1, <3>2
  <2>6. c = w
    BY <1>2, <2>4, <2>5
  <2> QED BY <2>1, <2>2, <2>6 DEF c, v
<1>4. IsInjective(one) /\ Range(one) = {r}
  BY DEF IsInjective, Range
<1> HIDE DEF r, one
<1>5. IsInjective(one \o Tail(w))
  BY <1>2, <1>3, Zenon
<1>6. /\ Range(w) = {r} \cup Range(Tail(w)) /\ IsInjective(Tail(w))
      /\ {r} \cap Range(Tail(w)) = {}
  <2> DEFINE v == Tail(w)
  <2>1. one \in Seq(Reqs) /\ v \in Seq(Reqs) /\ w = one \o v /\ IsInjective(one \o v)
    BY <1>3, <1>5
  <2> HIDE DEF v
  <2>2. /\ Range(one \o v) = Range(one) \cup Range(v)
        /\ IsInjective(v) /\ Range(one) \cap Range(v) = {}
    BY <2>1, ConcatInjective
  <2>4. Range(w) = Range(one \o v)
    BY <2>1
  <2> QED BY <1>4, <2>2, <2>4 DEF v
<1>7. r \in Range(w) /\ Range(Tail(w)) = Range(w) \ {r}
  BY <1>6
<1>8. r \notin Range(n.running) /\ r \notin n.done /\ r \notin n.aborted
  BY <1>1, <1>7 DEF Placed, w
<1>9. Append(n.running, r) = n.running \o one
  BY <1>2, <1>3 DEF one
<1>10. Range(n.running) \cap Range(one) = {}
  BY <1>4, <1>8
<1>11. /\ NoRepeat(n.running \o one) /\ Range(n.running \o one) = Range(n.running) \cup {r}
  <2>1. /\ n.running \o one \in Seq(Reqs)
        /\ Range(n.running \o one) = Range(n.running) \cup Range(one)
        /\ IsInjective(n.running \o one)
    BY <1>2, <1>3, <1>4, <1>10, ConcatInjective
  <2> QED BY <1>4, <2>1 DEF NoRepeat
<1> QED BY <1>3, <1>6, <1>7, <1>8, <1>9, <1>11, Zenon DEF NoRepeat, r, w

\* A rank without the branch that the head of the queue left in the tree.
Aside(n, r) == [n EXCEPT !.branch[r] = 0]

\* Without it the rank has its slots less, in the tree and in what can be evicted.
LEMMA AsideIs ==
    ASSUME NEW n, NEW size, Good(n, size), NEW r \in Reqs, r \notin Live(n)
    PROVE  LET z == Aside(n, r)
           IN  /\ z \in Node /\ Rows(z) /\ Alike(n, z) /\ z.avail = n.avail
               /\ z.branch = [q \in Reqs |-> IF q = r THEN 0 ELSE n.branch[q]]
               /\ Sum(slots(z)) + n.branch[r] = Sum(slots(n))
               /\ Unlocked(z) = Unlocked(n) \ {r}
               /\ evictable_size(z) + n.branch[r] = evictable_size(n)
               /\ evictable_size(z) \in Nat
<1> DEFINE b == [n.branch EXCEPT ![r] = 0]
           z == [n EXCEPT !.branch = b]
<1>1. n \in Node /\ Rows(n) /\ n.branch \in [Reqs -> Nat]
  BY DEF Good, Node
<1>2. /\ b \in [Reqs -> Nat] /\ b[r] = 0 /\ \A q \in Reqs \ {r} : b[q] = n.branch[q]
      /\ b = [q \in Reqs |-> IF q = r THEN 0 ELSE n.branch[q]]
  BY <1>1
<1>3. Aside(n, r) = z
  BY DEF Aside
<1> HIDE DEF b
<1>4. z \in Node /\ Alike(n, z) /\ z.avail = n.avail /\ z.branch = b
  BY <1>1, <1>2, Zenon DEF Node, Alike
<1> HIDE DEF z
<1>5. Live(z) = Live(n) /\ \A q : kv_committed_len(z, q) = kv_committed_len(n, q)
  BY <1>4 DEF Live, Alike, kv_committed_len, fill_len
<1>6. Live(n) \subseteq Reqs
  BY <1>1, LiveIs
<1>7. Rows(z)
  <2>1. \A q \in Live(n) : z.branch[q] = n.branch[q]
    BY <1>2, <1>4, <1>6
  <2> QED BY <1>1, <1>4, <1>5, <2>1 DEF Rows, Alike
<1>8. /\ slots(n) \in [Reqs -> Nat] /\ Sum(slots(n)) \in Nat
      /\ slots(z) \in [Reqs -> Nat] /\ Sum(slots(z)) \in Nat
  BY <1>1, <1>4, <1>7, LiveIs
<1>9. Sum(slots(z)) + n.branch[r] = Sum(slots(n))
  <2>1. slots(n)[r] = n.branch[r] /\ slots(z)[r] = 0
    BY <1>2, <1>4, <1>5 DEF slots
  <2>2. \A q \in Reqs \ {r} : slots(z)[q] = slots(n)[q]
    BY <1>2, <1>4, <1>5 DEF slots
  <2>3. Sum(slots(z)) + slots(n)[r] = Sum(slots(n)) + slots(z)[r]
    <3>1. slots(n) \in [Reqs -> Nat] /\ slots(z) \in [Reqs -> Nat] /\ IsFiniteSet(Reqs)
      BY <1>8, ReqsAssumption
    <3> QED BY <2>2, <3>1, SumUpdate
  <2> QED BY <1>8, <2>1, <2>3
<1>10. Unlocked(z) = Unlocked(n) \ {r}
  <2>1. \A q \in Reqs : z.branch[q] > 0 <=> q # r /\ n.branch[q] > 0
    BY <1>2, <1>4
  <2> QED BY <1>5, <2>1 DEF Unlocked
<1> DEFINE f == [q \in Unlocked(z) |-> z.branch[q]]
           g == [q \in Unlocked(n) |-> n.branch[q]]
<1>11. evictable_size(z) = Sum(f) /\ evictable_size(n) = Sum(g)
  BY DEF evictable_size
<1>12. /\ Unlocked(n) \subseteq Reqs /\ IsFiniteSet(Unlocked(z))
       /\ f \in [Unlocked(z) -> Nat] /\ g \in [Unlocked(n) -> Nat]
  <2>1. Unlocked(n) \subseteq Reqs /\ Unlocked(z) \in SUBSET Reqs
    BY DEF Unlocked
  <2>2. IsFiniteSet(Unlocked(z))
    BY <2>1, ReqsAssumption, FS_Subset
  <2> QED BY <1>1, <1>2, <1>4, <2>1, <2>2
<1>13. \A q \in Unlocked(z) : q \in Unlocked(n) /\ g[q] = f[q]
  BY <1>2, <1>4, <1>10, <1>12
<1>14. Sum(f) \in Nat
  <2> HIDE DEF f
  <2> QED BY <1>12, SumType
<1>15. Sum(f) + n.branch[r] = Sum(g)
  <2>1. CASE r \in Unlocked(n)
    <3>1. g[r] = n.branch[r] /\ r \notin Unlocked(z) /\ Unlocked(n) = Unlocked(z) \cup {r}
      BY <1>10, <2>1
    <3>2. g \in [Unlocked(z) \cup {r} -> Nat]
      BY <1>12, <3>1
    <3>3. \A q \in Unlocked(z) : g[q] = f[q]
      BY <1>13
    <3>4. r \notin Unlocked(z) /\ f \in [Unlocked(z) -> Nat] /\ IsFiniteSet(Unlocked(z))
      BY <1>12, <3>1
    <3> HIDE DEF f, g
    <3>5. Sum(g) = Sum(f) + g[r]
      BY <3>2, <3>3, <3>4, SumAdd
    <3> QED BY <3>1, <3>5
  <2>2. CASE r \notin Unlocked(n)
    <3>1. n.branch[r] = 0 /\ Unlocked(n) = Unlocked(z)
      BY <1>1, <1>10, <2>2 DEF Unlocked
    <3>2. f = g
      BY <1>13, <3>1
    <3> QED BY <1>14, <3>1, <3>2
  <2> QED BY <2>1, <2>2
<1> HIDE DEF f, g
<1> QED BY <1>2, <1>3, <1>4, <1>7, <1>9, <1>10, <1>11, <1>14, <1>15

\* The rank when the head of its queue joins the batch.
Joined(n) ==
    [n EXCEPT !.waiting = Tail(@), !.running = Append(@, Head(n.waiting))]

\* e is y, with the head of the queue r in the batch and its branch in the tree.
JoinedTo(n, r, y, e) ==
    /\ e \in Node /\ e.avail = y.avail /\ y.branch[r] = 0
    /\ e.branch = [q \in Reqs |-> IF q = r THEN n.branch[r] ELSE y.branch[q]]
    /\ e.running = Append(n.running, r) /\ e.waiting = Tail(n.waiting)
    /\ e.full = n.full /\ e.output = n.output /\ e.solo = n.solo
    /\ e.done = n.done /\ e.aborted = n.aborted /\ e.oom = n.oom

\* An eviction for the admitted request takes the branches of the others.
LEMMA JoinedEvicts ==
    ASSUME NEW n, NEW size, Good(n, size), n.waiting # <<>>, NEW u, NEW num \in Int
    PROVE  LET r == Head(n.waiting)
           IN  JoinedTo(n, r, evict_from_tree_cache(Aside(n, r), u, num),
                        evict_from_tree_cache(Joined(n), u, num))
<1> DEFINE r == Head(n.waiting)
           w == Tail(n.waiting)
           s == Append(n.running, r)
           a == Joined(n)
           z == Aside(n, r)
           G == victims(z, num)
           lost == [q \in G |-> z.branch[q]]
           b == [q \in Reqs |-> IF q \in G THEN 0 ELSE n.branch[q]]
           x == n.avail + Sum(lost)
<1>1. /\ r \in Reqs /\ r \notin Range(n.running) /\ r \notin n.done
      /\ w \in Seq(Reqs) /\ s \in Seq(Reqs) /\ Range(s) = Range(n.running) \cup {r}
  BY HeadIs DEF NoRepeat
<1>2. a = [n EXCEPT !.waiting = w, !.running = s]
  BY DEF Joined
<1>3. n \in Node /\ n.branch \in [Reqs -> Nat] /\ n.avail \in Nat
  BY DEF Good, Books, Node
<1> HIDE DEF r, w, s, a
<1>4. /\ a \in Node /\ a.avail = n.avail /\ a.branch = n.branch /\ a.running = s
      /\ a.waiting = w /\ a.full = n.full /\ a.output = n.output /\ a.solo = n.solo
      /\ a.done = n.done /\ a.aborted = n.aborted /\ a.oom = n.oom
  BY <1>1, <1>2, <1>3, Zenon DEF Node
<1>5. r \notin Live(n)
  BY <1>1 DEF Live
<1>6. /\ z \in Node /\ Rows(z) /\ z.avail = n.avail /\ Unlocked(z) = Unlocked(n) \ {r}
      /\ z.branch = [q \in Reqs |-> IF q = r THEN 0 ELSE n.branch[q]]
  BY <1>1, <1>5, AsideIs
<1> HIDE DEF z
<1>7. Unlocked(a) = Unlocked(z)
  <2>1. Live(a) = Live(n) \cup {r}
    BY <1>1, <1>4 DEF Live
  <2>2. Unlocked(a) = Unlocked(n) \ {r}
    BY <1>4, <2>1 DEF Unlocked
  <2> QED BY <1>6, <2>2
<1>8. \A q \in Unlocked(z) : q \in Reqs /\ q # r /\ z.branch[q] = a.branch[q]
  <2>1. Unlocked(n) \subseteq Reqs
    BY DEF Unlocked
  <2> QED BY <1>4, <1>6, <2>1
<1>9. victims(a, num) = G
  <2> DEFINE U == Unlocked(z)
  <2>1. \A q : [p \in {p \in U : p < q} |-> a.branch[p]] = [p \in {p \in U : p < q} |-> z.branch[p]]
    BY <1>8
  <2> QED BY <1>7, <2>1 DEF victims
<1>10. G \subseteq Unlocked(z) /\ r \notin G /\ G \subseteq Reqs
  <2>1. G \subseteq Unlocked(z)
    BY DEF victims
  <2> QED BY <1>8, <2>1
<1> HIDE DEF G
<1>11. lost = [q \in G |-> a.branch[q]]
  BY <1>8, <1>10
<1>12. evict(a, num) = [a EXCEPT !.avail = x, !.branch = b]
  <2>1. evict(a, num) = [a EXCEPT !.avail = a.avail + Sum([q \in G |-> a.branch[q]]),
                                  !.branch = [q \in Reqs |-> IF q \in G THEN 0 ELSE a.branch[q]]]
    BY <1>9 DEF evict
  <2> HIDE DEF lost
  <2> QED BY <1>4, <1>11, <2>1
<1>13. /\ evict(z, num).avail = x
       /\ evict(z, num).branch = [q \in Reqs |-> IF q \in G THEN 0 ELSE z.branch[q]]
  <2>1. evict(z, num) = [z EXCEPT !.avail = z.avail + Sum(lost),
                                  !.branch = [q \in Reqs |-> IF q \in G THEN 0 ELSE z.branch[q]]]
    BY DEF evict, G
  <2> HIDE DEF lost
  <2> QED BY <1>6, <2>1 DEF Node
<1>14. x \in Int /\ b \in [Reqs -> Nat]
  <2>1. Sum(lost) \in Nat
    <3>1. IsFiniteSet(G)
      BY <1>10, ReqsAssumption, FS_Subset, Zenon
    <3>2. lost \in [G -> Nat]
      BY <1>3, <1>4, <1>8, <1>10
    <3> HIDE DEF lost
    <3> QED BY <3>1, <3>2, SumType
  <2> HIDE DEF lost
  <2> QED BY <1>3, <2>1
<1> HIDE DEF lost, x
<1>15. CASE uniform_avail_for_evict(a, u) < num
  <2> DEFINE e == evict(a, num)
             y == evict(z, num)
  <2>1. evict_from_tree_cache(a, u, num) = e /\ evict_from_tree_cache(z, u, num) = y
    <3>1. uniform_avail_for_evict(a, u) = uniform_avail_for_evict(z, u)
      BY <1>4, <1>6 DEF uniform_avail_for_evict
    <3> QED BY <1>15, <3>1 DEF evict_from_tree_cache
  <2>2. y.branch[r] = 0
    BY <1>1, <1>6, <1>13
  <2>3. b = [q \in Reqs |-> IF q = r THEN n.branch[r] ELSE y.branch[q]]
    <3> HIDE DEF y
    <3>1. y.branch = [q \in Reqs |-> IF q \in G THEN 0 ELSE z.branch[q]]
      BY <1>13 DEF y
    <3>2. \A q \in Reqs : b[q] = IF q = r THEN n.branch[r] ELSE y.branch[q]
      BY <1>6, <1>10, <3>1
    <3> QED BY <3>2
  <2> HIDE DEF b, y
  <2>4. /\ e \in Node /\ e.avail = x /\ e.branch = b /\ e.running = a.running
        /\ e.waiting = a.waiting /\ e.full = a.full /\ e.output = a.output /\ e.solo = a.solo
        /\ e.done = a.done /\ e.aborted = a.aborted /\ e.oom = a.oom
    <3>1. a \in Node
      BY <1>4
    <3> QED BY <1>12, <1>14, <3>1, Zenon DEF Node
  <2>5. y.avail = x
    BY <1>13 DEF y
  <2> HIDE DEF e
  <2> QED BY <1>4, <2>1, <2>2, <2>3, <2>4, <2>5 DEF JoinedTo, r, w, s, a, z
<1>16. CASE ~(uniform_avail_for_evict(a, u) < num)
  <2>1. evict_from_tree_cache(a, u, num) = a /\ evict_from_tree_cache(z, u, num) = z
    <3>1. uniform_avail_for_evict(a, u) = uniform_avail_for_evict(z, u)
      BY <1>4, <1>6 DEF uniform_avail_for_evict
    <3> QED BY <1>16, <3>1 DEF evict_from_tree_cache
  <2>2. z.branch[r] = 0
    BY <1>1, <1>6
  <2>3. a.branch = [q \in Reqs |-> IF q = r THEN n.branch[r] ELSE z.branch[q]]
    BY <1>3, <1>4, <1>6
  <2> QED BY <1>4, <1>6, <2>1, <2>2, <2>3, Zenon DEF JoinedTo, r, w, s, a, z
<1> QED BY <1>15, <1>16

\* What is known of the reduced budget of a rank.
Budget(n, u) ==
    /\ u.min_avail \in Nat /\ u.min_avail <= n.avail
    /\ u.deficit \in Nat

\* Admission counts on no slots but the free and the evictable ones, the request's
\* own branch excepted.
LEMMA AdmitsFunds ==
    ASSUME NEW n, NEW size, Good(n, size), NEW u, Budget(n, u),
           NEW ratio \in Nat, Admits(n, u, ratio)
    PROVE  LET r == Head(n.waiting)
           IN  extend_len(n, r) + page_size <= n.avail + evictable_size(n) - n.branch[r]
<1> DEFINE r == Head(n.waiting)
           B == Range(n.running)
           f == [q \in B |-> max_new(n, q)]
           offset == Sum(f)
           ev == evictable_size(n)
           local == n.avail + ev - n.branch[r] - u.deficit
           fundable == u.min_avail + ev
           rem == IF u.published THEN Min({local, fundable}) ELSE local
           x == extend_len(n, r)
           mn == max_new(n, r)
<1>1. n.waiting # <<>> /\ 100 * (x + mn + page_size) < 100 * rem - ratio * offset
  BY DEF Admits, rem_total_tokens
<1>2. r \in Reqs /\ r \notin n.done /\ r \notin Live(n)
  BY <1>1, HeadIs DEF Live
<1>3. n \in Node /\ Rows(n) /\ Bounded(n) /\ n.avail \in Nat
  BY DEF Good, Books
<1> HIDE DEF r
<1>4. /\ n.branch[r] \in Nat /\ n.output[r] \in Nat /\ fill_len(n, r) \in Nat
  BY <1>2, <1>3, LiveIs, Zenon DEF Node
<1>5. ev \in Nat
  <2>1. 0 \in Int
    OBVIOUS
  <2> QED BY <1>3, <2>1, EvictIs
<1>6. max_new_tokens \in Nat /\ page_size \in Nat
  BY ParametersAssumption
<1>7. x \in Int /\ mn \in Nat
  <2>1. n.output[r] <= max_new_tokens
    BY <1>2, <1>3 DEF Bounded
  <2> QED BY <1>4, <1>6, <2>1 DEF extend_len, max_new
<1>8. offset \in Nat
  <2>1. B \in SUBSET Reqs
    BY <1>3 DEF Node, Range
  <2>2. IsFiniteSet(B)
    BY <2>1, ReqsAssumption, FS_Subset
  <2>3. ASSUME NEW q \in B PROVE max_new(n, q) \in Nat
    <3>1. q \in Reqs
      BY <2>1
    <3>2. n.output[q] \in Nat /\ n.output[q] <= max_new_tokens
      BY <1>3, <3>1 DEF Node, Bounded
    <3> QED BY <1>6, <3>2 DEF max_new
  <2>4. f \in [B -> Nat]
    BY <2>3
  <2> HIDE DEF f, B
  <2> QED BY <2>2, <2>4, SumType
<1> HIDE DEF ev, x, mn, offset
<1>9. local \in Int /\ fundable \in Int /\ local <= n.avail + ev - n.branch[r]
  BY <1>3, <1>4, <1>5 DEF Budget
<1>10. rem \in Int /\ rem <= local
  <2> HIDE DEF local, fundable
  <2>1. Min({local, fundable}) \in {local, fundable} /\ Min({local, fundable}) <= local
    <3>1. \E m \in {local, fundable} : \A y \in {local, fundable} : m <= y
      BY <1>9
    <3> QED BY <3>1 DEF Min
  <2> QED BY <1>9, <2>1
<1> HIDE DEF rem
<1>11. ratio * offset \in Nat
  BY <1>8
<1>12. x + mn + page_size < rem
  <2> DEFINE k == ratio * offset
  <2>1. k \in Nat
    BY <1>11
  <2>2. 100 * (x + mn + page_size) < 100 * rem - k
    BY <1>1
  <2> HIDE DEF k
  <2> QED BY <1>6, <1>7, <1>10, <2>1, <2>2
<1>13. x + page_size <= n.avail + ev - n.branch[r]
  <2> HIDE DEF local
  <2> QED BY <1>3, <1>4, <1>5, <1>6, <1>7, <1>9, <1>10, <1>12
<1> QED BY <1>13 DEF x, ev, r

\* After the eviction for it, an admitted request's pages are free.
LEMMA PrefillFunded ==
    ASSUME NEW n, NEW size, Good(n, size), NEW u, Budget(n, u),
           NEW ratio \in Nat, Admits(n, u, ratio)
    PROVE  LET r == Head(n.waiting)
               y == evict_from_tree_cache(Aside(n, r), u, extend_need(n, r))
           IN  /\ extend_need(n, r) \in Int
               /\ Evicted(Aside(n, r), y)
               /\ ceil_align(fill_len(n, r)) - n.branch[r] <= y.avail
<1> DEFINE r == Head(n.waiting)
           z == Aside(n, r)
           x == fill_len(n, r)
           need == extend_need(n, r)
           y == evict_from_tree_cache(z, u, need)
           cost == ceil_align(x) - n.branch[r]
<1>1. n.waiting # <<>>
  BY DEF Admits
<1>2. r \in Reqs /\ r \notin Live(n)
  BY <1>1, HeadIs DEF Live
<1>3. extend_len(n, r) + page_size <= n.avail + evictable_size(n) - n.branch[r]
  BY AdmitsFunds
<1> HIDE DEF r
<1>4. n \in Node /\ Rows(n) /\ n.avail \in Nat
  BY DEF Good, Books
<1>5. n.branch[r] \in Nat /\ x \in Nat
  BY <1>2, <1>4, LiveIs, Zenon DEF Node
<1>6. /\ z \in Node /\ Rows(z) /\ z.avail = n.avail
      /\ evictable_size(z) + n.branch[r] = evictable_size(n) /\ evictable_size(z) \in Nat
  BY <1>2, AsideIs, Zenon
<1>7. page_size \in Nat /\ page_size # 0
  BY ParametersAssumption
<1> HIDE DEF z, x
<1>8. ceil_align(x) \in Nat /\ ceil_align(x) < x + page_size
  BY <1>5, Pages
<1>9. extend_len(n, r) = x - n.branch[r]
  BY DEF extend_len, x
<1>10. need \in Int /\ cost <= need
  <2>1. CASE page_size = 1
    <3>1. need = x - n.branch[r]
      BY <1>9, <2>1 DEF extend_need
    <3> HIDE DEF need
    <3> QED BY <1>5, <1>8, <2>1, <3>1
  <2>2. CASE page_size # 1
    <3>1. need = x - n.branch[r] + page_size
      BY <1>9, <2>2 DEF extend_need
    <3> HIDE DEF need
    <3> QED BY <1>5, <1>7, <1>8, <3>1
  <2> QED BY <2>1, <2>2
<1> HIDE DEF need
<1>11. Evicted(z, y)
  BY <1>6, <1>10, EvictFromTree
<1>12. CASE uniform_avail_for_evict(z, u) < need
  <2>1. y = evict(z, need)
    BY <1>12 DEF evict_from_tree_cache
  <2>2. \/ y.avail >= z.avail + need
        \/ y.avail = z.avail + evictable_size(z)
    BY <1>6, <1>10, <2>1, EvictIs
  <2>3. y.avail \in Int
    BY <1>11 DEF Evicted, Node
  <2> HIDE DEF y
  <2>4. ASSUME y.avail >= z.avail + need PROVE cost <= y.avail
    BY <1>4, <1>5, <1>6, <1>8, <1>10, <2>3, <2>4
  <2>5. ASSUME y.avail = z.avail + evictable_size(z) PROVE cost <= y.avail
    BY <1>3, <1>4, <1>5, <1>6, <1>7, <1>8, <1>9, <2>3, <2>5
  <2>6. cost <= y.avail
    BY <2>2, <2>4, <2>5
  <2> QED BY <1>10, <1>11, <2>6 DEF y, z, r, x, need
<1>13. CASE ~(uniform_avail_for_evict(z, u) < need)
  <2>1. y = z
    BY <1>13 DEF evict_from_tree_cache
  <2>2. uniform_avail_for_evict(z, u) \in Nat /\ uniform_avail_for_evict(z, u) <= n.avail
    BY <1>4, <1>6 DEF uniform_avail_for_evict, Budget
  <2>3. need <= n.avail
    BY <1>4, <1>10, <1>13, <2>2
  <2>4. cost <= y.avail
    <3> HIDE DEF y
    <3> QED BY <1>4, <1>5, <1>6, <1>8, <1>10, <2>1, <2>3
  <2> QED BY <1>10, <1>11, <2>4 DEF z, r, x, need
<1> QED BY <1>12, <1>13

\* The state a prefill computes its results in: r is live, with its pages.
Prefilled(n, r, c) ==
    /\ c \in Node /\ ~c.oom
    /\ c.running = Append(n.running, r) /\ c.waiting = Tail(n.waiting)
    /\ c.full = n.full /\ c.output = n.output /\ c.solo = n.solo
    /\ c.done = n.done /\ c.aborted = n.aborted

\* The prefill of an admitted request allocates, and has its slots accounted for.
LEMMA PrefillPays ==
    ASSUME NEW n, NEW size, Good(n, size), NEW u, Budget(n, u),
           NEW ratio \in Nat, Admits(n, u, ratio)
    PROVE  LET r == Head(n.waiting)
               funded == take(evict_from_tree_cache(Joined(n), u, extend_need(n, r)),
                              ceil_align(fill_len(n, r)) - n.branch[r])
               c == [funded EXCEPT !.branch[r] = floor_align(fill_len(n, r))]
           IN  /\ Prefilled(n, r, c)
               /\ c.avail \in Nat /\ c.avail + Sum(charged(c, {r})) = size
               /\ c.branch[r] <= fill_len(c, r)
               /\ \A q \in Live(n) : c.branch[q] = n.branch[q]
<1> DEFINE r == Head(n.waiting)
           x == fill_len(n, r)
           z == Aside(n, r)
           num == extend_need(n, r)
           e == evict_from_tree_cache(Joined(n), u, num)
           y == evict_from_tree_cache(z, u, num)
           cost == ceil_align(x) - n.branch[r]
           a == e.avail - cost
           b == [e.branch EXCEPT ![r] = floor_align(x)]
           c == [e EXCEPT !.avail = a, !.branch = b]
<1>1. n.waiting # <<>>
  BY DEF Admits
<1>2. /\ r \in Reqs /\ r \notin Range(n.running) /\ r \notin n.done /\ r \notin Live(n)
      /\ Range(Append(n.running, r)) = Range(n.running) \cup {r}
  BY <1>1, HeadIs DEF Live
<1>3. num \in Int /\ Evicted(z, y) /\ cost <= y.avail
  BY PrefillFunded
<1>4. /\ e \in Node /\ e.avail = y.avail /\ y.branch[r] = 0
      /\ e.branch = [q \in Reqs |-> IF q = r THEN n.branch[r] ELSE y.branch[q]]
      /\ e.running = Append(n.running, r) /\ e.waiting = Tail(n.waiting)
      /\ e.full = n.full /\ e.output = n.output /\ e.solo = n.solo
      /\ e.done = n.done /\ e.aborted = n.aborted /\ e.oom = n.oom
  <2>1. JoinedTo(n, r, y, e)
    BY <1>1, <1>3, JoinedEvicts
  <2> HIDE DEF e, y, r
  <2> QED BY <2>1 DEF JoinedTo
<1>5. /\ n \in Node /\ ~n.oom /\ Rows(n) /\ n.avail \in Nat
      /\ n.avail + Sum(slots(n)) = size
  BY DEF Good, Books
<1> HIDE DEF r, e
<1>6. n.branch[r] \in Nat /\ x \in Nat /\ Live(n) \subseteq Reqs /\ Sum(slots(n)) \in Nat
  BY <1>2, <1>5, LiveIs, Zenon DEF Node
<1>7. /\ z \in Node /\ Rows(z) /\ Alike(n, z) /\ z.avail = n.avail
      /\ z.branch = [q \in Reqs |-> IF q = r THEN 0 ELSE n.branch[q]]
      /\ Sum(slots(z)) + n.branch[r] = Sum(slots(n))
  BY <1>2, AsideIs
<1> HIDE DEF z, y, x
<1>8. ceil_align(x) \in Nat /\ floor_align(x) \in Nat /\ floor_align(x) <= x
  BY <1>6, Pages
<1>9. /\ y \in Node /\ Alike(z, y) /\ z.avail <= y.avail
      /\ \A q \in Live(z) : y.branch[q] = z.branch[q]
      /\ y.avail + Sum(slots(y)) = z.avail + Sum(slots(z))
  BY <1>3 DEF Evicted
<1>10. y.avail \in Nat
  <2>1. y.avail \in Int
    BY <1>9 DEF Node
  <2> QED BY <1>5, <1>7, <1>9, <2>1
<1>11. a \in Nat /\ ~(cost > e.avail)
  <2>1. e.avail = y.avail /\ cost <= y.avail /\ y.avail \in Nat
    BY <1>3, <1>4, <1>10
  <2>2. cost \in Int
    BY <1>6, <1>8
  <2> HIDE DEF cost
  <2> QED BY <2>1, <2>2
<1>12. take(e, cost) = [e EXCEPT !.avail = a]
  BY <1>11 DEF take
<1>13. [take(e, cost) EXCEPT !.branch[r] = floor_align(x)] = c
  <2> HIDE DEF a, cost
  <2>1. e \in Node
    BY <1>4
  <2>2. [e EXCEPT !.avail = a].branch = e.branch
    BY <2>1 DEF Node
  <2> QED BY <1>12, <2>2
<1>14. /\ b \in [Reqs -> Nat] /\ b[r] = floor_align(x)
       /\ \A q \in Reqs \ {r} : b[q] = y.branch[q]
  <2>1. e.branch \in [Reqs -> Nat]
    BY <1>4 DEF Node
  <2> QED BY <1>2, <1>4, <1>8, <2>1
<1> HIDE DEF a, b, cost
<1>15. /\ c \in Node /\ c.avail = a /\ c.branch = b /\ c.running = e.running
       /\ c.waiting = e.waiting /\ c.full = e.full /\ c.output = e.output
       /\ c.solo = e.solo /\ c.done = e.done /\ c.aborted = e.aborted /\ c.oom = e.oom
  <2>1. e \in Node /\ a \in Int /\ b \in [Reqs -> Nat]
    BY <1>4, <1>11, <1>14
  <2> QED BY <2>1, Zenon DEF Node
<1> HIDE DEF c
<1>16. Prefilled(n, r, c)
  BY <1>4, <1>5, <1>15 DEF Prefilled
<1>17. fill_len(c, r) = x /\ \A q : kv_committed_len(c, q) = kv_committed_len(y, q)
  BY <1>4, <1>7, <1>9, <1>15 DEF fill_len, kv_committed_len, Alike, x
<1>18. Live(y) = Live(n) /\ Live(z) = Live(n) /\ Live(c) = Live(n) \cup {r}
  <2>1. /\ z.running = n.running /\ z.done = n.done /\ y.running = n.running
        /\ y.done = n.done
    BY <1>7, <1>9 DEF Alike
  <2>2. c.running = Append(n.running, r) /\ c.done = n.done
    BY <1>4, <1>15
  <2> QED BY <1>2, <2>1, <2>2 DEF Live
<1>19. \A q \in Live(n) : c.branch[q] = n.branch[q]
  <2> SUFFICES ASSUME NEW q \in Live(n) PROVE c.branch[q] = n.branch[q]
    OBVIOUS
  <2>1. q \in Reqs /\ q # r
    BY <1>2, <1>6
  <2> QED BY <1>7, <1>9, <1>14, <1>15, <1>18, <2>1
<1>20. Rows(y)
  <2>1. \A q : kv_committed_len(y, q) = kv_committed_len(n, q)
    BY <1>7, <1>9 DEF kv_committed_len, fill_len, Alike
  <2>2. \A q \in Live(n) : y.branch[q] = n.branch[q]
    BY <1>2, <1>6, <1>7, <1>9, <1>18
  <2>3. y.output = n.output
    BY <1>7, <1>9 DEF Alike
  <2> QED BY <1>5, <1>18, <2>1, <2>2, <2>3 DEF Rows
<1>21. slots(y) \in [Reqs -> Nat] /\ Sum(slots(y)) \in Nat
  BY <1>9, <1>20, LiveIs
<1> DEFINE d == charged(c, {r})
<1>22. d[r] = ceil_align(x) /\ slots(y)[r] = 0
  BY <1>2, <1>4, <1>17, <1>18 DEF charged, slots
<1>23. \A q \in Reqs \ {r} : d[q] = slots(y)[q]
  <2> SUFFICES ASSUME NEW q \in Reqs \ {r} PROVE d[q] = slots(y)[q]
    OBVIOUS
  <2>1. d[q] = slots(c)[q]
    BY DEF charged
  <2>2. /\ q \in Live(c) <=> q \in Live(y)
        /\ c.branch[q] = y.branch[q] /\ kv_committed_len(c, q) = kv_committed_len(y, q)
    BY <1>14, <1>15, <1>17, <1>18
  <2>3. slots(c)[q] = slots(y)[q]
    BY <2>2 DEF slots
  <2> QED BY <2>1, <2>3
<1>24. d \in [Reqs -> Nat]
  <2>1. \A q \in Reqs : d[q] \in Nat
    <3> HIDE DEF d
    <3> QED BY <1>8, <1>21, <1>22, <1>23
  <2> QED BY <2>1 DEF charged
<1> HIDE DEF d
<1>25. Sum(d) = Sum(slots(y)) + ceil_align(x) /\ Sum(d) \in Nat
  <2>1. IsFiniteSet(Reqs) /\ slots(y) \in [Reqs -> Nat]
    BY <1>21, ReqsAssumption
  <2>2. Sum(d) + slots(y)[r] = Sum(slots(y)) + d[r]
    BY <1>2, <1>23, <1>24, <2>1, SumUpdate
  <2>3. Sum(d) \in Nat
    BY <1>24, <2>1, SumType
  <2> QED BY <1>8, <1>21, <1>22, <2>2, <2>3
<1>26. c.avail + Sum(d) = size
  <2>1. c.avail = y.avail - (ceil_align(x) - n.branch[r])
    BY <1>4, <1>15 DEF a, cost
  <2>2. Sum(slots(z)) \in Nat
    BY <1>7, LiveIs
  <2> QED BY <1>5, <1>6, <1>7, <1>8, <1>9, <1>10, <1>21, <1>25, <2>1, <2>2
<1>27. c.branch[r] <= fill_len(c, r)
  BY <1>8, <1>14, <1>15, <1>17
<1>28. c.avail \in Nat
  BY <1>11, <1>15
<1> QED BY <1>13, <1>16, <1>19, <1>26, <1>27, <1>28, Zenon DEF c, d, e, r, x, cost

\* prefill() keeps a rank in order.
LEMMA PrefillKeeps ==
    ASSUME NEW n, NEW size, Good(n, size), NEW u, Budget(n, u),
           NEW ratio \in Nat, Admits(n, u, ratio), NEW eos
    PROVE  LET m == prefill(n, u, ratio, eos)
           IN  Good(m, size) /\ Known(m) \subseteq Known(n)
<1> DEFINE r == Head(n.waiting)
           x == fill_len(n, r)
           funded == take(evict_from_tree_cache(Joined(n), u, extend_need(n, r)),
                          ceil_align(x) - n.branch[r])
           c == [funded EXCEPT !.branch[r] = floor_align(x)]
           m == process_batch_result(c, {r}, eos)
           F == Finishing(c, {r}, eos)
           spent == ceil_align(extend_len(n, r)) + max_new_tokens + page_size
           v == n.running # <<>> /\ rem_total_tokens(n, u, r, ratio) - 100 * spent <= 0
           g == [m EXCEPT !.running = n.running, !.full = FALSE]
           h == [m EXCEPT !.full = v]
<1>1. n.waiting # <<>>
  BY DEF Admits
<1>2. /\ r \in Reqs /\ r \in Range(n.waiting)
      /\ r \notin Range(n.running) /\ r \notin n.done /\ r \notin n.aborted
      /\ NoRepeat(Tail(n.waiting)) /\ Range(Tail(n.waiting)) = Range(n.waiting) \ {r}
      /\ NoRepeat(Append(n.running, r))
      /\ Range(Append(n.running, r)) = Range(n.running) \cup {r}
  BY <1>1, HeadIs
<1>3. /\ Prefilled(n, r, c)
      /\ c.avail \in Nat /\ c.avail + Sum(charged(c, {r})) = size
      /\ c.branch[r] <= fill_len(c, r)
      /\ \A q \in Live(n) : c.branch[q] = n.branch[q]
  BY PrefillPays, Zenon
<1>4. prefill(n, u, ratio, eos) = IF r \in m.done THEN g ELSE h
  BY DEF prefill, Joined
<1> HIDE DEF r, c, v
<1>5. n \in Node /\ Rows(n) /\ Bounded(n) /\ Placed(n)
  BY DEF Good
<1>6. /\ c \in Node /\ ~c.oom
      /\ c.running = Append(n.running, r) /\ c.waiting = Tail(n.waiting)
      /\ c.output = n.output /\ c.done = n.done /\ c.aborted = n.aborted
  BY <1>3 DEF Prefilled
<1>7. Placed(c)
  BY <1>2, <1>5, <1>6 DEF Placed
<1>8. Live(c) = Live(n) \cup {r} /\ r \notin Live(n)
  BY <1>2, <1>6 DEF Live
<1>9. \A q \in Live(c) \ {r} : /\ 1 <= c.output[q] /\ c.output[q] < max_new_tokens
                               /\ c.branch[q] <= kv_committed_len(c, q)
  <2>1. \A q : kv_committed_len(c, q) = kv_committed_len(n, q)
    BY <1>6 DEF kv_committed_len, fill_len
  <2> QED BY <1>3, <1>5, <1>6, <1>8, <2>1 DEF Rows
<1>10. {r} \in SUBSET Live(c) /\ {r} \in SUBSET Reqs /\ \A q \in {r} : c.branch[q] <= fill_len(c, q)
  BY <1>2, <1>3, <1>8
<1>11. Rows(m) /\ Placed(m) /\ Books(m, size)
  <2>1. c.avail \in Nat /\ c.avail + Sum(charged(c, {r})) = size
    BY <1>3
  <2> QED BY <1>6, <1>7, <1>9, <1>10, <2>1, ResultKeeps, Zenon
<1>12. Resulted(c, {r}, F, m)
  BY <1>6, <1>10, ResultIs
<1> HIDE DEF m
<1>13. F \subseteq {r}
  BY DEF Finishing
<1> HIDE DEF F
<1>14. /\ m \in Node /\ ~m.oom /\ m.running = c.running /\ m.waiting = c.waiting
       /\ m.aborted = c.aborted /\ m.done = n.done \cup F
       /\ \A q \in Reqs \ {r} : m.output[q] = n.output[q]
  <2>1. \A q \in Reqs \ {r} : m.output[q] = n.output[q] + 0 /\ n.output[q] \in Nat
    BY <1>5, <1>6, <1>12 DEF Resulted, Node
  <2> QED BY <1>6, <1>12, <2>1 DEF Resulted
<1>15. CASE r \in m.done
  <2>1. prefill(n, u, ratio, eos) = g
    BY <1>4, <1>15
  <2>2. /\ g \in Node /\ g.running = n.running /\ g.waiting = m.waiting
        /\ g.aborted = m.aborted /\ g.done = m.done /\ g.output = m.output
        /\ g.branch = m.branch /\ g.avail = m.avail /\ g.oom = m.oom
    <3>1. n.running \in Seq(Reqs)
      BY <1>5 DEF Node
    <3> QED BY <1>14, <3>1, Zenon DEF Node
  <2> HIDE DEF g
  <2>3. Live(g) = Live(m)
    BY <1>2, <1>6, <1>14, <1>15, <2>2 DEF Live
  <2>4. \A q : kv_committed_len(g, q) = kv_committed_len(m, q)
    BY <2>2 DEF kv_committed_len, fill_len
  <2>5. Rows(g)
    BY <1>11, <2>2, <2>3, <2>4 DEF Rows
  <2>6. slots(g) = slots(m)
    BY <2>2, <2>3, <2>4 DEF slots
  <2>7. Books(g, size)
    BY <1>11, <2>2, <2>6 DEF Books
  <2>8. Placed(g)
    BY <1>2, <1>5, <1>6, <1>13, <1>14, <2>2 DEF Placed
  <2>9. Bounded(g)
    BY <1>2, <1>5, <1>14, <1>15, <2>2 DEF Bounded
  <2>10. Known(g) \subseteq Known(n)
    BY <1>2, <1>6, <1>13, <1>14, <2>2 DEF Known
  <2> QED BY <1>14, <2>1, <2>2, <2>5, <2>7, <2>8, <2>9, <2>10 DEF Good
<1>16. CASE r \notin m.done
  <2>1. prefill(n, u, ratio, eos) = h
    BY <1>4, <1>16
  <2>2. /\ h \in Node /\ h.running = m.running /\ h.waiting = m.waiting
        /\ h.aborted = m.aborted /\ h.done = m.done /\ h.output = m.output
        /\ h.branch = m.branch /\ h.avail = m.avail /\ h.oom = m.oom
    <3>1. v \in BOOLEAN
      BY DEF v
    <3> QED BY <1>14, <3>1, Zenon DEF Node
  <2>3. Bounded(m)
    <3> SUFFICES ASSUME NEW q \in Reqs, q \notin m.done \/ q \in Range(m.running)
                 PROVE  m.output[q] <= max_new_tokens
      BY DEF Bounded
    <3>1. CASE q = r
      <4>1. r \in Live(m)
        BY <1>2, <1>6, <1>14, <1>16 DEF Live
      <4>2. m.output[r] \in Nat /\ max_new_tokens \in Nat
        BY <1>2, <1>14, ParametersAssumption DEF Node
      <4> QED BY <1>11, <3>1, <4>1, <4>2 DEF Rows
    <3>2. CASE q # r
      <4>1. q \notin n.done \/ q \in Range(n.running)
        BY <1>2, <1>6, <1>14, <3>2
      <4> QED BY <1>5, <1>14, <3>2, <4>1 DEF Bounded
    <3> QED BY <3>1, <3>2
  <2> HIDE DEF h
  <2>4. Good(m, size)
    BY <1>11, <1>14, <2>3 DEF Good
  <2>5. Placed(h)
    BY <1>11, <2>2 DEF Placed
  <2>6. Live(h) = Live(m) /\ Range(h.running) \subseteq Range(m.running) /\ ~h.oom
    BY <1>14, <2>2 DEF Live
  <2>7. Good(h, size)
    BY <2>2, <2>4, <2>5, <2>6, SameGood
  <2>8. Known(h) \subseteq Known(n)
    BY <1>2, <1>6, <1>13, <1>14, <2>2 DEF Known
  <2> QED BY <2>1, <2>7, <2>8
<1> QED BY <1>15, <1>16

\* Closing or reopening the batch to admission leaves a rank in order.
LEMMA FullKeeps ==
    ASSUME NEW n, NEW size, Good(n, size), NEW w \in BOOLEAN
    PROVE  LET m == [n EXCEPT !.full = w]
           IN  Good(m, size) /\ Known(m) = Known(n) /\ m.avail = n.avail
<1> DEFINE m == [n EXCEPT !.full = w]
<1>1. n \in Node /\ ~n.oom /\ Placed(n)
  BY DEF Good
<1>2. /\ m \in Node /\ m.running = n.running /\ m.waiting = n.waiting
      /\ m.aborted = n.aborted /\ m.done = n.done /\ m.output = n.output
      /\ m.branch = n.branch /\ m.avail = n.avail /\ m.oom = n.oom
  BY <1>1, Zenon DEF Node
<1> HIDE DEF m
<1>3. Live(m) = Live(n) /\ Range(m.running) \subseteq Range(n.running) /\ Placed(m)
  BY <1>1, <1>2 DEF Live, Placed
<1>4. Good(m, size)
  BY <1>1, <1>2, <1>3, SameGood
<1>5. Known(m) = Known(n)
  BY <1>2 DEF Known
<1> QED BY <1>2, <1>4, <1>5 DEF m

\* An iteration keeps a rank in order, and runs no request it has not been given.
LEMMA BatchKeeps ==
    ASSUME NEW n, NEW size, Good(n, size), NEW u, Budget(n, u), NEW ratio \in Nat, NEW eos
    PROVE  LET m == get_next_batch_to_run(n, u, ratio, eos)
           IN  Good(m, size) /\ Known(m) \subseteq Known(n)
<1> DEFINE v == n.full \/ n.waiting # <<>>
           m == [n EXCEPT !.full = v]
<1>1. CASE Admits(n, u, ratio)
  <2>1. get_next_batch_to_run(n, u, ratio, eos) = prefill(n, u, ratio, eos)
    BY <1>1 DEF get_next_batch_to_run
  <2> QED BY <1>1, <2>1, PrefillKeeps
<1>2. CASE ~Admits(n, u, ratio)
  <2>1. get_next_batch_to_run(n, u, ratio, eos)
            = IF m.running = <<>> THEN m ELSE update_running_batch(m, u, eos)
    BY <1>2 DEF get_next_batch_to_run
  <2>2. v \in BOOLEAN
    OBVIOUS
  <2> HIDE DEF v
  <2>3. Good(m, size) /\ Known(m) = Known(n) /\ m.avail = n.avail
    BY <2>2, FullKeeps
  <2> HIDE DEF m
  <2>4. u.min_avail \in Nat /\ u.min_avail <= m.avail
    BY <2>3 DEF Budget
  <2>5. Good(update_running_batch(m, u, eos), size)
           /\ Known(update_running_batch(m, u, eos)) \subseteq Known(m)
    BY <2>3, <2>4, UpdateKeeps
  <2> QED BY <2>1, <2>3, <2>5
<1> QED BY <1>1, <1>2
=============================================================================
