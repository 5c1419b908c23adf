------------------------ MODULE TokenAllocatorProofs ------------------------
(***************************************************************************)
(* Proofs about TokenAllocator for every pool size, every owner class and  *)
(* both values of need_sort.                                               *)
(***************************************************************************)
EXTENDS TokenAllocator, CollectionTheorems, SequenceTheorems, TLAPS

-----------------------------------------------------------------------------
(* Lists of ids.                                                           *)

\* A rearrangement (a sort, a stable partition) has the same ids, each as often.
LEMMA RearrangedProperties ==
    ASSUME NEW S, NEW s \in Seq(S), NEW p \in Rearrangements(s)
    PROVE  /\ Rearranged(s, p) \in Seq(S)
           /\ Len(Rearranged(s, p)) = Len(s)
           /\ Range(Rearranged(s, p)) = Range(s)
           /\ IsInjective(s) => IsInjective(Rearranged(s, p))
<1>1. /\ DOMAIN s = 1..Len(s)
      /\ Len(s) \in Nat
      /\ \A i \in 1..Len(s) : s[i] \in S
  BY LenProperties, ElementOfSeq
<1>2. /\ p \in [1..Len(s) -> 1..Len(s)]
      /\ \A w \in 1..Len(s) : \E v \in 1..Len(s) : p[v] = w
      /\ IsInjective(p)
  BY <1>1 DEF Rearrangements, Bijection, Injection, Surjection
<1>3. Rearranged(s, p) = [i \in 1..Len(s) |-> s[p[i]]]
  BY <1>1 DEF Rearranged
<1>4. Rearranged(s, p) \in Seq(S) /\ Len(Rearranged(s, p)) = Len(s)
  BY <1>1, <1>2, <1>3
<1>5. Range(Rearranged(s, p)) = Range(s)
  <2>1. Range(Rearranged(s, p)) = {s[p[i]] : i \in 1..Len(s)}
    BY <1>3 DEF Range
  <2>2. Range(s) = {s[i] : i \in 1..Len(s)}
    BY <1>1 DEF Range
  <2>3. \A i \in 1..Len(s) : p[i] \in 1..Len(s)
    BY <1>2
  <2>4. Range(Rearranged(s, p)) \subseteq Range(s)
    BY <2>1, <2>2, <2>3
  <2>5. ASSUME NEW w \in 1..Len(s)
        PROVE  s[w] \in Range(Rearranged(s, p))
    <3>1. PICK v \in 1..Len(s) : p[v] = w
      BY <1>2
    <3> QED
      BY <2>1, <3>1
  <2> QED
    BY <2>2, <2>4, <2>5
<1>6. ASSUME IsInjective(s) PROVE IsInjective(Rearranged(s, p))
  <2>1. DOMAIN Rearranged(s, p) = 1..Len(s) /\ DOMAIN p = 1..Len(s)
    BY <1>2, <1>3
  <2>2. ASSUME NEW i \in 1..Len(s), NEW j \in 1..Len(s),
               Rearranged(s, p)[i] = Rearranged(s, p)[j]
        PROVE  i = j
    <3>1. p[i] \in DOMAIN s /\ p[j] \in DOMAIN s /\ s[p[i]] = s[p[j]]
      BY <1>1, <1>2, <1>3, <2>2
    <3>2. p[i] = p[j]
      BY <1>6, <3>1 DEF IsInjective
    <3> QED
      BY <1>2, <2>1, <3>2 DEF IsInjective
  <2> QED
    BY <2>1, <2>2 DEF IsInjective
<1> QED
  BY <1>4, <1>5, <1>6

\* alloc() cuts the list in two: what it returns and what it keeps.
LEMMA SplitProperties ==
    ASSUME NEW S, NEW s \in Seq(S), NEW n \in Nat, n <= Len(s)
    PROVE  LET h == SubSeq(s, 1, n)
               r == SubSeq(s, n + 1, Len(s))
           IN  /\ h \in Seq(S) /\ r \in Seq(S)
               /\ s = h \o r
<1>1. Len(s) \in Nat /\ \A i \in 1..Len(s) : s[i] \in S
  BY LenProperties, ElementOfSeq
<1>2. SubSeq(s, 1, n) \in Seq(S)
  BY <1>1, SubSeqProperties
<1>3. SubSeq(s, n + 1, Len(s)) \in Seq(S)
  BY <1>1, SubSeqProperties
<1>4. SubSeq(s, 1, n) \o SubSeq(s, n + 1, Len(s)) = SubSeq(s, 1, Len(s))
  <2>1. n \in 1 - 1 .. Len(s) /\ 1 \in 1..(Len(s) + 1) /\ Len(s) \in n..Len(s)
    BY <1>1
  <2> QED
    BY <2>1, ConcatAdjacentSubSeq
<1> QED
  BY <1>2, <1>3, <1>4, SubSeqFull

-----------------------------------------------------------------------------
(* What the allocator owns.                                                *)

Ids == 1..MaxSize

Pool == [size : 0..MaxSize,
         free_pages : Seq(Ids),
         release_pages : Seq(Ids),
         free_group : Seq(Ids),
         is_not_in_free_group : BOOLEAN,
         owner_bias : Biases \cup {NoBias}]

\* Three lists without repetition and without a common id, S their ids together.
Apart(f, r, g, S) ==
    /\ IsInjective(f) /\ IsInjective(r) /\ IsInjective(g)
    /\ Range(f) \cap Range(r) = {}
    /\ Range(f) \cap Range(g) = {}
    /\ Range(r) \cap Range(g) = {}
    /\ S = Range(f) \cup Range(r) \cup Range(g)

Owns(a, S) == /\ a \in Pool
              /\ Apart(a.free_pages, a.release_pages, a.free_group, S)

\* Release lists are in use only with need_sort: free() picks the list by it.
ReleaseOnlyIfSorting(a) == ~need_sort => a.release_pages = <<>>

\* Three lists are apart exactly when no id occurs twice in their concatenation.
LEMMA ApartIsListsInjective ==
    ASSUME NEW f \in Seq(Ids), NEW r \in Seq(Ids), NEW g \in Seq(Ids), NEW S
    PROVE  Apart(f, r, g, S) <=> /\ IsInjective(f \o r \o g)
                                 /\ Range(f \o r \o g) = S
<1>1. /\ f \o r \in Seq(Ids)
      /\ Range(f \o r) = Range(f) \cup Range(r)
      /\ IsInjective(f \o r) <=> /\ IsInjective(f)
                                 /\ IsInjective(r)
                                 /\ Range(f) \cap Range(r) = {}
  BY ConcatInjective
<1> DEFINE h == f \o r
<1>h. h \in Seq(Ids)
  BY <1>1
<1> HIDE DEF h
<1>c. /\ Range(h \o g) = Range(h) \cup Range(g)
      /\ IsInjective(h \o g) <=> /\ IsInjective(h)
                                 /\ IsInjective(g)
                                 /\ Range(h) \cap Range(g) = {}
  BY <1>h, ConcatInjective
<1>2. /\ Range((f \o r) \o g) = Range(f \o r) \cup Range(g)
      /\ IsInjective((f \o r) \o g) <=> /\ IsInjective(f \o r)
                                        /\ IsInjective(g)
                                        /\ Range(f \o r) \cap Range(g) = {}
  BY <1>c DEF h
<1>3. Range(f \o r) \cap Range(g) = {} <=> /\ Range(f) \cap Range(g) = {}
                                           /\ Range(r) \cap Range(g) = {}
  BY <1>1
<1> QED
  BY <1>1, <1>2, <1>3 DEF Apart

\* The list a cleared pool has in release_pages and free_group.
LEMMA EmptyList ==
    /\ <<>> \in Seq(Ids)
    /\ IsInjective(<<>>)
    /\ Range(<<>>) = {}
BY DEF IsInjective, Range

\* free() adds the ids it is given to what the allocator owns.
LEMMA FreeOwns ==
    ASSUME NEW a, NEW S, Owns(a, S), ReleaseOnlyIfSorting(a),
           NEW idx \in Seq(Ids), IsInjective(idx), Range(idx) \cap S = {}
    PROVE  /\ Owns(free(a, idx), S \cup Range(idx))
           /\ ReleaseOnlyIfSorting(free(a, idx))
           /\ free(a, idx).size = a.size
           /\ free(a, idx).is_not_in_free_group = a.is_not_in_free_group
           /\ a.is_not_in_free_group => free(a, idx).free_group = a.free_group
<1> DEFINE f == a.free_pages
           r == a.release_pages
           g == a.free_group
<1>1. /\ a \in Pool
      /\ f \in Seq(Ids) /\ r \in Seq(Ids) /\ g \in Seq(Ids)
      /\ Apart(f, r, g, S)
  BY DEF Owns, Pool
<1>2. /\ Range(idx) \cap Range(f) = {}
      /\ Range(idx) \cap Range(r) = {}
      /\ Range(idx) \cap Range(g) = {}
  BY <1>1 DEF Apart
<1>3. CASE idx = <<>>
  <2>1. Range(idx) = {}
    BY <1>3, EmptyList
  <2> QED
    BY <1>3, <2>1 DEF free, Owns
<1>4. CASE idx # <<>> /\ ~a.is_not_in_free_group
  <2>1. /\ g \o idx \in Seq(Ids)
        /\ Range(g \o idx) = Range(g) \cup Range(idx)
        /\ IsInjective(g \o idx)
    BY <1>1, <1>2, ConcatInjective DEF Apart
  <2>2. free(a, idx) = [a EXCEPT !.free_group = g \o idx]
    BY <1>4 DEF free
  <2>3. Apart(f, r, g \o idx, S \cup Range(idx))
    BY <1>1, <1>2, <2>1 DEF Apart
  <2> QED
    BY <1>1, <1>4, <2>1, <2>2, <2>3 DEF Owns, Pool, ReleaseOnlyIfSorting
<1>5. CASE idx # <<>> /\ a.is_not_in_free_group /\ need_sort
  <2>1. /\ r \o idx \in Seq(Ids)
        /\ Range(r \o idx) = Range(r) \cup Range(idx)
        /\ IsInjective(r \o idx)
    BY <1>1, <1>2, ConcatInjective DEF Apart
  <2>2. free(a, idx) = [a EXCEPT !.release_pages = r \o idx]
    BY <1>5 DEF free
  <2>3. Apart(f, r \o idx, g, S \cup Range(idx))
    BY <1>1, <1>2, <2>1 DEF Apart
  <2> QED
    BY <1>1, <1>5, <2>1, <2>2, <2>3 DEF Owns, Pool, ReleaseOnlyIfSorting
<1>6. CASE idx # <<>> /\ a.is_not_in_free_group /\ ~need_sort
  <2>1. /\ f \o idx \in Seq(Ids)
        /\ Range(f \o idx) = Range(f) \cup Range(idx)
        /\ IsInjective(f \o idx)
    BY <1>1, <1>2, ConcatInjective DEF Apart
  <2>2. free(a, idx) = [a EXCEPT !.free_pages = f \o idx]
    BY <1>6 DEF free
  <2>3. Apart(f \o idx, r, g, S \cup Range(idx))
    BY <1>1, <1>2, <2>1 DEF Apart
  <2> QED
    BY <1>1, <1>6, <2>1, <2>2, <2>3 DEF Owns, Pool, ReleaseOnlyIfSorting
<1> QED
  BY <1>3, <1>4, <1>5, <1>6
-----------------------------------------------------------------------------
(* The methods keep what the allocator owns.                               *)

\* The ids of S on the three lists, and frees staged only inside a window.
Sound(a, S) == /\ Owns(a, S)
               /\ ReleaseOnlyIfSorting(a)
               /\ a.free_group # <<>> => ~a.is_not_in_free_group

\* Closing a window applies each staged free once: the staged list is emptied
\* before it is freed.
LEMMA FreeGroupEndSound ==
    ASSUME NEW a, NEW S, Owns(a, S), ReleaseOnlyIfSorting(a)
    PROVE  /\ Sound(free_group_end(a), S)
           /\ free_group_end(a).is_not_in_free_group
           /\ free_group_end(a).free_group = <<>>
           /\ free_group_end(a).size = a.size
<1> DEFINE g == a.free_group
           b == [a EXCEPT !.is_not_in_free_group = TRUE, !.free_group = <<>>]
           T == Range(a.free_pages) \cup Range(a.release_pages)
<1>1. a \in Pool /\ g \in Seq(Ids) /\ Apart(a.free_pages, a.release_pages, g, S)
  BY DEF Owns, Pool
<1>2. Owns(b, T) /\ ReleaseOnlyIfSorting(b)
  <2>1. b \in Pool
    BY <1>1, EmptyList DEF Pool
  <2>2. Apart(a.free_pages, a.release_pages, <<>>, T)
    BY <1>1, EmptyList DEF Apart
  <2>3. /\ b.free_pages = a.free_pages
        /\ b.release_pages = a.release_pages
        /\ b.free_group = <<>>
    BY <1>1 DEF Pool
  <2> QED
    BY <2>1, <2>2, <2>3 DEF Owns, ReleaseOnlyIfSorting
<1>3. IsInjective(g) /\ Range(g) \cap T = {} /\ S = T \cup Range(g)
  BY <1>1 DEF Apart
<1>4. free_group_end(a) = free(b, g)
  BY <1>1 DEF free_group_end, apply_free_group, Pool
<1>5. b.is_not_in_free_group /\ b.free_group = <<>> /\ b.size = a.size
  BY <1>1 DEF Pool
<1> HIDE DEF b, g, T
<1>6. /\ Owns(free(b, g), T \cup Range(g))
      /\ ReleaseOnlyIfSorting(free(b, g))
      /\ free(b, g).size = b.size
      /\ free(b, g).is_not_in_free_group = b.is_not_in_free_group
      /\ b.is_not_in_free_group => free(b, g).free_group = b.free_group
  BY <1>1, <1>2, <1>3, FreeOwns
<1> QED
  BY <1>3, <1>4, <1>5, <1>6 DEF Sound

\* Recovering an abandoned window, opening one over it and flushing one early
\* neither lose nor repeat an id.
LEMMA WindowsSound ==
    ASSUME NEW a, NEW S, Sound(a, S)
    PROVE  /\ Sound(reclaim_abandoned_free_group(a), S)
           /\ reclaim_abandoned_free_group(a).size = a.size
           /\ Sound(free_group_begin(a), S)
           /\ free_group_begin(a).size = a.size
           /\ Sound(flush_free_group(a), S)
           /\ flush_free_group(a).size = a.size
<1> DEFINE e == free_group_end(a)
           c == reclaim_abandoned_free_group(a)
<1>1. Sound(e, S) /\ e.is_not_in_free_group /\ e.free_group = <<>> /\ e.size = a.size
  BY FreeGroupEndSound DEF Sound
<1>2. c = a \/ c = e
  BY DEF reclaim_abandoned_free_group
<1>3. c.free_group = <<>>
  BY <1>1 DEF reclaim_abandoned_free_group, Sound
<1>4. Sound(c, S) /\ c.size = a.size
  BY <1>1, <1>2
<1>5. ASSUME NEW x, Sound(x, S), x.free_group = <<>>
      PROVE  /\ Sound([x EXCEPT !.is_not_in_free_group = FALSE], S)
             /\ [x EXCEPT !.is_not_in_free_group = FALSE, !.free_group = <<>>]
                    = [x EXCEPT !.is_not_in_free_group = FALSE]
             /\ [x EXCEPT !.is_not_in_free_group = FALSE].size = x.size
  BY <1>5 DEF Sound, Owns, Pool, ReleaseOnlyIfSorting
<1>6. Sound(free_group_begin(a), S) /\ free_group_begin(a).size = a.size
  BY <1>3, <1>4, <1>5 DEF free_group_begin
<1>7. Sound(flush_free_group(a), S) /\ flush_free_group(a).size = a.size
  BY <1>1, <1>5 DEF flush_free_group
<1> QED
  BY <1>4, <1>6, <1>7

\* Replacing the free list by a list with the same ids.
LEMMA SameIdsSound ==
    ASSUME NEW a, NEW S, Sound(a, S),
           NEW s \in Seq(Ids), IsInjective(s), Range(s) = Range(a.free_pages)
    PROVE  Sound([a EXCEPT !.free_pages = s], S)
BY DEF Sound, Owns, Pool, Apart, ReleaseOnlyIfSorting

\* The refill moves every released id to the free list and sorts it.
LEMMA MergeUnbiasedSound ==
    ASSUME NEW a, NEW S, Sound(a, S), NEW m \in merge_and_sort_free_unbiased(a)
    PROVE  /\ Sound(m, S)
           /\ m.size = a.size
           /\ m.release_pages = <<>>
           /\ Len(m.free_pages) = available_size(a)
<1> DEFINE f == a.free_pages
           r == a.release_pages
<1>1. /\ a \in Pool /\ f \in Seq(Ids) /\ r \in Seq(Ids)
      /\ Apart(f, r, a.free_group, S)
  BY DEF Sound, Owns, Pool
<1>2. CASE r = <<>>
  <2>1. m = a
    BY <1>2 DEF merge_and_sort_free_unbiased
  <2>2. Len(f) + Len(r) = Len(f)
    BY <1>1, <1>2
  <2> QED
    BY <1>2, <2>1, <2>2 DEF available_size
<1>3. CASE r # <<>>
  <2>1. PICK s \in torch_sort(f \o r) :
               m = [a EXCEPT !.free_pages = s, !.release_pages = <<>>]
    BY <1>3 DEF merge_and_sort_free_unbiased
  <2>2. PICK p \in Rearrangements(f \o r) : s = Rearranged(f \o r, p)
    BY <2>1 DEF torch_sort
  <2>3. /\ f \o r \in Seq(Ids)
        /\ Range(f \o r) = Range(f) \cup Range(r)
        /\ IsInjective(f \o r)
    BY <1>1, ConcatInjective DEF Apart
  <2>4. /\ s \in Seq(Ids)
        /\ Len(s) = Len(f \o r)
        /\ Range(s) = Range(f \o r)
        /\ IsInjective(s)
    BY <2>2, <2>3, RearrangedProperties
  <2>5. Len(f \o r) = Len(f) + Len(r)
    BY <1>1
  <2>6. /\ m \in Pool /\ m.free_pages = s /\ m.release_pages = <<>>
        /\ m.free_group = a.free_group /\ m.size = a.size
        /\ m.is_not_in_free_group = a.is_not_in_free_group
    BY <1>1, <2>1, <2>4, EmptyList DEF Pool
  <2>7. Apart(s, <<>>, a.free_group, S)
    BY <1>1, <2>3, <2>4, EmptyList DEF Apart
  <2> QED
    BY <2>4, <2>5, <2>6, <2>7 DEF Sound, Owns, ReleaseOnlyIfSorting, available_size
<1> QED
  BY <1>2, <1>3

\* Steering reorders the free list and changes nothing else.
LEMMA ApplyOwnerBiasSound ==
    ASSUME NEW a, NEW S, Sound(a, S), NEW m \in apply_owner_bias(a)
    PROVE  /\ Sound(m, S)
           /\ m.size = a.size
           /\ a.release_pages = <<>> => /\ m.release_pages = <<>>
                                        /\ Len(m.free_pages) = Len(a.free_pages)
<1>1. CASE m = a
  BY <1>1
<1>2. CASE m # a
  <2>1. PICK x \in merge_and_sort_free_unbiased(a) :
           \E s \in ClassFirst(x.free_pages, a.owner_bias) : m = [x EXCEPT !.free_pages = s]
    BY <1>2 DEF apply_owner_bias
  <2>2. PICK s \in ClassFirst(x.free_pages, a.owner_bias) : m = [x EXCEPT !.free_pages = s]
    BY <2>1
  <2>3. /\ Sound(x, S) /\ x.size = a.size /\ x.release_pages = <<>>
        /\ Len(x.free_pages) = available_size(a)
    BY MergeUnbiasedSound
  <2>4. /\ x \in Pool /\ x.free_pages \in Seq(Ids) /\ IsInjective(x.free_pages)
    BY <2>3 DEF Sound, Owns, Pool, Apart
  <2>5. PICK p \in Rearrangements(x.free_pages) : s = Rearranged(x.free_pages, p)
    BY <2>2 DEF ClassFirst
  <2>6. /\ s \in Seq(Ids) /\ Len(s) = Len(x.free_pages)
        /\ Range(s) = Range(x.free_pages) /\ IsInjective(s)
    BY <2>4, <2>5, RearrangedProperties
  <2>7. Sound(m, S)
    BY <2>2, <2>3, <2>6, SameIdsSound
  <2>8. /\ m.size = x.size /\ m.release_pages = x.release_pages /\ m.free_pages = s
    BY <2>2, <2>4 DEF Pool
  <2>9. a.release_pages = <<>> => available_size(a) = Len(a.free_pages)
    BY DEF available_size, Sound, Owns, Pool
  <2> QED
    BY <2>3, <2>6, <2>7, <2>8, <2>9
<1> QED
  BY <1>1, <1>2

\* Before it answers, alloc(n) has every available id in the free list unless
\* the list was long enough already.
LEMMA RefilledSound ==
    ASSUME NEW a, NEW S, Sound(a, S), NEW n \in Nat, NEW m \in refilled(a, n)
    PROVE  /\ Sound(m, S)
           /\ m.size = a.size
           /\ n > Len(m.free_pages) <=> n > available_size(a)
<1>1. /\ a.free_pages \in Seq(Ids) /\ a.release_pages \in Seq(Ids)
      /\ Len(a.free_pages) \in Nat /\ Len(a.release_pages) \in Nat
  BY LenProperties DEF Sound, Owns, Pool
<1>2. CASE need_sort /\ n > Len(a.free_pages)
  <2>1. PICK x \in merge_and_sort_free_unbiased(a) : m \in apply_owner_bias(x)
    BY <1>2 DEF refilled, merge_and_sort_free
  <2>2. /\ Sound(x, S) /\ x.size = a.size /\ x.release_pages = <<>>
        /\ Len(x.free_pages) = available_size(a)
    BY MergeUnbiasedSound
  <2>3. /\ Sound(m, S) /\ m.size = x.size
        /\ x.release_pages = <<>> => Len(m.free_pages) = Len(x.free_pages)
    BY <2>1, <2>2, ApplyOwnerBiasSound
  <2> QED
    BY <2>2, <2>3
<1>3. CASE ~(need_sort /\ n > Len(a.free_pages))
  <2>1. m = a
    BY <1>3 DEF refilled
  <2> DEFINE x == Len(a.free_pages)
             y == Len(a.release_pages)
  <2>2. ~need_sort => y = 0
    BY EmptySeq DEF Sound, ReleaseOnlyIfSorting
  <2>3. available_size(a) = x + y /\ x \in Nat /\ y \in Nat
    BY <1>1 DEF available_size
  <2> HIDE DEF x, y
  <2>4. ~need_sort => available_size(a) = x
    BY <2>2, <2>3
  <2>5. available_size(a) >= x /\ available_size(a) \in Nat
    BY <2>3
  <2> USE DEF x, y
  <2> QED
    BY <1>1, <1>3, <2>1, <2>4, <2>5
<1> QED
  BY <1>2, <1>3
-----------------------------------------------------------------------------
(* The inductive invariant: the allocator owns the ids nobody holds.       *)

\* The ids on the allocator's lists are exactly those of the pool that no caller
\* holds, nothing is staged outside a window, and only a sorting allocator releases.
IInv == /\ Sound(pool, 1..pool.size \ held)
        /\ held \subseteq 1..pool.size

\* A pool as clear() builds it owns every id.
LEMMA FreshSound ==
    ASSUME NEW n \in 0..MaxSize, NEW b \in Biases \cup {NoBias}
    PROVE  /\ Sound(Fresh(n, b), 1..n)
           /\ Fresh(n, b).size = n
<1> DEFINE s == [i \in 1..n |-> i]
<1>1. s \in Seq(Ids) /\ IsInjective(s) /\ Range(s) = 1..n
  <2>1. n \in Nat /\ 1..n \subseteq Ids
    BY SizeAssumption DEF Ids
  <2> QED
    BY <2>1 DEF IsInjective, Range
<1>2. Apart(s, <<>>, <<>>, 1..n)
  BY <1>1, EmptyList DEF Apart
<1> QED
  BY <1>1, <1>2, EmptyList DEF Fresh, Sound, Owns, Pool, ReleaseOnlyIfSorting

\* Initially all ids are idle.
LEMMA InitIInv == Init => IInv
<1> SUFFICES ASSUME Init PROVE IInv
  OBVIOUS
<1>1. InitSize \in 0..MaxSize /\ NoBias \in Biases \cup {NoBias}
  BY SizeAssumption
<1>2. Sound(pool, 1..InitSize) /\ pool.size = InitSize
  BY <1>1, FreshSound DEF Init
<1>3. held = {} /\ 1..InitSize \ {} = 1..InitSize
  BY DEF Init
<1> QED
  BY <1>2, <1>3 DEF IInv

\* alloc(): what it hands out was idle.
LEMMA AllocIInv == ASSUME IInv, NEW n \in Nat, Alloc(n) PROVE IInv' /\ pool'.size = pool.size
<1> DEFINE S == 1..pool.size \ held
<1>1. PICK m \in refilled(pool, n) :
         IF n > Len(m.free_pages)
         THEN pool' = m /\ held' = held
         ELSE /\ pool' = take_head(m, n)
              /\ held' = held \cup Range(SubSeq(m.free_pages, 1, n))
  BY DEF Alloc
<1>2. Sound(m, S) /\ m.size = pool.size
  BY RefilledSound DEF IInv
<1>3. CASE n > Len(m.free_pages)
  BY <1>1, <1>2, <1>3 DEF IInv
<1>4. CASE ~(n > Len(m.free_pages))
  <2> DEFINE f == m.free_pages
             h == SubSeq(f, 1, n)
             t == SubSeq(f, n + 1, Len(f))
  <2>1. /\ m \in Pool /\ f \in Seq(Ids) /\ Len(f) \in Nat
        /\ Apart(f, m.release_pages, m.free_group, S)
    BY <1>2, LenProperties DEF Sound, Owns, Pool
  <2>3. n <= Len(f)
    BY <1>4, <2>1
  <2>4. pool' = [m EXCEPT !.free_pages = t] /\ held' = held \cup Range(h)
    BY <1>1, <1>4 DEF take_head
  <2>5. h \in Seq(Ids) /\ t \in Seq(Ids) /\ f = h \o t
    <3> HIDE DEF f
    <3> QED
      BY <2>3, <2>1, SplitProperties
  <2> HIDE DEF h, t, f
  <2>6. IsInjective(h) /\ IsInjective(t) /\ Range(h) \cap Range(t) = {}
        /\ Range(f) = Range(h) \cup Range(t)
    BY <2>1, <2>5, ConcatInjective DEF Apart
  <2>7. Apart(t, m.release_pages, m.free_group, S \ Range(h)) /\ Range(h) \subseteq S
    BY <2>1, <2>6 DEF Apart
  <2>8. /\ pool' \in Pool /\ pool'.size = pool.size /\ pool'.free_pages = t
        /\ pool'.release_pages = m.release_pages /\ pool'.free_group = m.free_group
        /\ pool'.is_not_in_free_group = m.is_not_in_free_group
    BY <1>2, <2>1, <2>5, <2>4 DEF Pool
  <2>9. S \ Range(h) = 1..pool'.size \ held' /\ held' \subseteq 1..pool'.size
    BY <2>7, <2>4, <2>8 DEF IInv
  <2> QED
    BY <1>2, <2>7, <2>8, <2>9 DEF IInv, Sound, Owns, ReleaseOnlyIfSorting
<1> QED
  BY <1>3, <1>4

\* free(): a caller's ids become idle, or staged.
LEMMA FreeIInv == ASSUME IInv, Free PROVE IInv' /\ pool'.size = pool.size
<1> DEFINE S == 1..pool.size \ held
<1>1. PICK k \in 1..MaxChunk : \E idx \in [1..k -> held] :
             IsInjective(idx) /\ pool' = free(pool, idx) /\ held' = held \ Range(idx)
  BY DEF Free
<1>2. PICK idx \in [1..k -> held] :
             IsInjective(idx) /\ pool' = free(pool, idx) /\ held' = held \ Range(idx)
  BY <1>1
<1>3. k \in Nat /\ held \subseteq Ids
  BY MaxChunkAssumption, SizeAssumption DEF IInv, Sound, Owns, Pool, Ids
<1>4. idx \in Seq(Ids) /\ Range(idx) \subseteq held
  BY <1>3 DEF Range
<1>5. Range(idx) \cap S = {} /\ S \cup Range(idx) = 1..pool.size \ held'
  BY <1>2, <1>4 DEF IInv
<1>6. /\ Owns(pool', S \cup Range(idx)) /\ ReleaseOnlyIfSorting(pool')
      /\ pool'.size = pool.size
      /\ pool'.is_not_in_free_group = pool.is_not_in_free_group
      /\ pool.is_not_in_free_group => pool'.free_group = pool.free_group
  BY <1>2, <1>4, <1>5, FreeOwns DEF IInv, Sound
<1>7. held' \subseteq 1..pool'.size
  BY <1>2, <1>6 DEF IInv
<1> QED
  BY <1>5, <1>6, <1>7 DEF IInv, Sound

\* set_owner_bias(): the same ids in another order.
LEMMA SetOwnerBiasIInv == ASSUME IInv, SetOwnerBias PROVE IInv' /\ pool'.size = pool.size
<1>1. PICK bias \in Biases \cup {NoBias} :
             /\ pool' \in apply_owner_bias([pool EXCEPT !.owner_bias = bias])
             /\ held' = held
  BY DEF SetOwnerBias
<1> DEFINE b == [pool EXCEPT !.owner_bias = bias]
           S == 1..pool.size \ held
<1>2. Sound(b, S) /\ b.size = pool.size /\ pool' \in apply_owner_bias(b)
  BY <1>1 DEF IInv, Sound, Owns, Pool, ReleaseOnlyIfSorting
<1> HIDE DEF b, S
<1>3. Sound(pool', S) /\ pool'.size = pool.size
  BY <1>2, ApplyOwnerBiasSound
<1> QED
  BY <1>1, <1>3 DEF IInv, S

\* grow_size(): the new ids are idle, every id handed out stays handed out.
LEMMA GrowSizeIInv ==
    ASSUME IInv, GrowSize
    PROVE  IInv' /\ held' = held /\ pool'.size \in Nat /\ pool'.size > pool.size
<1> DEFINE f == pool.free_pages
           S == 1..pool.size \ held
<1>1. PICK n \in (pool.size + 1)..MaxSize : pool' = grow_size(pool, n) /\ held' = held
  BY DEF GrowSize
<1> DEFINE g == [i \in 1..(n - pool.size) |-> pool.size + i]
           N == (pool.size + 1)..n
<1>2. /\ pool \in Pool /\ f \in Seq(Ids) /\ pool.size \in 0..MaxSize
      /\ Apart(f, pool.release_pages, pool.free_group, S)
  BY DEF IInv, Sound, Owns, Pool
<1>3. n \in 0..MaxSize /\ n > pool.size /\ N \subseteq Ids /\ n - pool.size \in Nat
  BY <1>2, SizeAssumption DEF Ids
<1>4. g \in Seq(Ids) /\ IsInjective(g) /\ Range(g) = N
  <2>1. \A i \in 1..(n - pool.size) : pool.size + i \in N
    BY <1>2, <1>3
  <2>2. g \in Seq(Ids) /\ DOMAIN g = 1..(n - pool.size)
    BY <1>3, <2>1
  <2>3. IsInjective(g)
    BY <1>2, <1>3 DEF IsInjective
  <2>4. ASSUME NEW x \in N PROVE x \in Range(g)
    <3>1. x - pool.size \in 1..(n - pool.size) /\ pool.size + (x - pool.size) = x
      BY <1>2, <1>3
    <3>2. g[x - pool.size] = x
      BY <3>1
    <3> QED
      BY <2>2, <3>1, <3>2 DEF Range
  <2> QED
    BY <2>1, <2>2, <2>3, <2>4 DEF Range
<1>5. N \cap S = {} /\ S \cup N = 1..n \ held
  BY <1>2, <1>3 DEF IInv
<1>6. /\ f \o g \in Seq(Ids) /\ IsInjective(f \o g)
      /\ Range(f \o g) = Range(f) \cup N
  <2> HIDE DEF f, g, N, S
  <2> QED
    BY <1>2, <1>4, <1>5, ConcatInjective DEF Apart
<1>7. Apart(f \o g, pool.release_pages, pool.free_group, S \cup N)
  BY <1>2, <1>5, <1>6 DEF Apart
<1>8. pool' = [pool EXCEPT !.size = n, !.free_pages = f \o g]
  BY <1>1, <1>2 DEF grow_size, Pool
<1>9. /\ pool' \in Pool /\ pool'.size = n /\ pool'.free_pages = f \o g
      /\ pool'.release_pages = pool.release_pages /\ pool'.free_group = pool.free_group
      /\ pool'.is_not_in_free_group = pool.is_not_in_free_group
  BY <1>2, <1>3, <1>6, <1>8 DEF Pool
<1>10. Sound(pool', 1..n \ held)
  BY <1>5, <1>7, <1>9 DEF IInv, Sound, Owns, ReleaseOnlyIfSorting
<1>11. held' \subseteq 1..n
  BY <1>1, <1>2, <1>3 DEF IInv
<1> QED
  BY <1>1, <1>3, <1>9, <1>10, <1>11 DEF IInv

\* clear() and resize(): a fresh pool, and nobody holds an id of the old one.
LEMMA ResetIInv ==
    ASSUME IInv, Clear \/ Resize
    PROVE  IInv' /\ held' = {} /\ pool'.size \in Nat
<1>1. pool \in Pool /\ pool.size \in 0..MaxSize /\ pool.owner_bias \in Biases \cup {NoBias}
  BY DEF IInv, Sound, Owns, Pool
<1>2. ASSUME NEW n \in 0..MaxSize, pool' = Fresh(n, pool.owner_bias), held' = {}
      PROVE  IInv' /\ pool'.size \in Nat
  <2>1. Sound(pool', 1..n) /\ pool'.size = n
    BY <1>1, <1>2, FreshSound
  <2>2. 1..n \ {} = 1..n
    OBVIOUS
  <2> QED
    BY <1>2, <2>1, <2>2 DEF IInv
<1>3. CASE Clear
  BY <1>1, <1>2, <1>3 DEF Clear, clear
<1>4. CASE Resize
  <2>1. PICK n \in 1..MaxSize : pool' = clear([pool EXCEPT !.size = n]) /\ held' = {}
    BY <1>4 DEF Resize
  <2>2. pool' = Fresh(n, pool.owner_bias) /\ n \in 0..MaxSize
    BY <1>1, <2>1 DEF clear, Pool
  <2> QED
    BY <1>2, <2>1, <2>2
<1> QED
  BY <1>3, <1>4
\* A method call on the windows leaves the callers' side and the size alone.
LEMMA WindowStepIInv ==
    ASSUME IInv, FreeGroupBegin \/ FreeGroupEnd \/ FlushFreeGroup \/ Reclaim
    PROVE  IInv' /\ held' = held /\ pool'.size = pool.size
<1> DEFINE S == 1..pool.size \ held
<1>1. held' = held
  BY DEF FreeGroupBegin, FreeGroupEnd, FlushFreeGroup, Reclaim
<1>2. Sound(pool, S) /\ Owns(pool, S) /\ ReleaseOnlyIfSorting(pool)
  BY DEF IInv, Sound
<1> HIDE DEF S
<1>3. Sound(pool', S) /\ pool'.size = pool.size
  BY <1>2, WindowsSound, FreeGroupEndSound
     DEF FreeGroupBegin, FreeGroupEnd, FlushFreeGroup, Reclaim
<1> QED
  BY <1>1, <1>3 DEF IInv, S

\* Every step keeps the invariant.
LEMMA NextIInv == IInv /\ [Next]_vars => IInv'
<1> SUFFICES ASSUME IInv, [Next]_vars PROVE IInv'
  OBVIOUS
<1>1. ASSUME NEW n \in 1..MaxSize, Alloc(n) PROVE IInv'
  <2>1. n \in Nat
    BY SizeAssumption
  <2> QED
    BY <1>1, <2>1, AllocIInv
<1>2. CASE Free
  BY <1>2, FreeIInv
<1>3. CASE FreeGroupBegin \/ FreeGroupEnd \/ FlushFreeGroup \/ Reclaim
  BY <1>3, WindowStepIInv
<1>4. CASE SetOwnerBias
  BY <1>4, SetOwnerBiasIInv
<1>5. CASE GrowSize
  BY <1>5, GrowSizeIInv
<1>6. CASE Clear \/ Resize
  BY <1>6, ResetIInv
<1>7. CASE UNCHANGED vars
  BY <1>7 DEF vars, IInv
<1> QED
  BY <1>1, <1>2, <1>3, <1>4, <1>5, <1>6, <1>7 DEF Next

\* The invariant holds after any sequence of calls of the allocator's methods.
THEOREM InductiveInvariant == Spec => []IInv
BY InitIInv, NextIInv, PTL DEF Spec

-----------------------------------------------------------------------------
(* The properties.                                                         *)

\* What the invariant says of the allocator's lists.
LEMMA IInvLists ==
    ASSUME IInv
    PROVE  /\ pool \in Pool
           /\ IsInjective(Lists(pool))
           /\ Range(Lists(pool)) = 1..pool.size \ held
           /\ held \subseteq 1..pool.size
<1>1. /\ pool \in Pool
      /\ Apart(pool.free_pages, pool.release_pages, pool.free_group, 1..pool.size \ held)
      /\ held \subseteq 1..pool.size
  BY DEF IInv, Sound, Owns
<1>2. /\ pool.free_pages \in Seq(Ids) /\ pool.release_pages \in Seq(Ids)
      /\ pool.free_group \in Seq(Ids)
  BY <1>1 DEF Pool
<1> QED
  BY <1>1, <1>2, ApartIsListsInjective DEF Lists

\* The allocator's fields keep their types: id lists over the ids of the pool.
THEOREM TypeCorrect == Spec => []TypeOK
<1>1. IInv => TypeOK
  <2> SUFFICES ASSUME IInv PROVE TypeOK
    OBVIOUS
  <2>1. pool \in Pool /\ held \subseteq 1..pool.size
    BY IInvLists
  <2>2. 1..pool.size \subseteq Ids
    BY <2>1, SizeAssumption DEF Pool, Ids
  <2> QED
    BY <2>1, <2>2 DEF TypeOK, Pool, Ids
<1> QED
  BY <1>1, InductiveInvariant, PTL

\* No id is ever in two places or in none: neither a double free nor a leak,
\* through any mix of windows, flushes, reclaims, refills, steers and growth.
THEOREM SlotsConserved == Spec => []EachSlotOnce
<1>1. IInv => EachSlotOnce
  <2> SUFFICES ASSUME IInv PROVE EachSlotOnce
    OBVIOUS
  <2>1. /\ IsInjective(Lists(pool))
        /\ Range(Lists(pool)) = 1..pool.size \ held
        /\ held \subseteq 1..pool.size
    BY IInvLists
  <2> QED
    BY <2>1 DEF EachSlotOnce
<1> QED
  BY <1>1, InductiveInvariant, PTL

\* Frees are staged only while a window is open, so that reclaim, flush and the
\* next window always see them.
THEOREM NothingStagedOutside == Spec => []StagedOnlyInWindow
<1>1. IInv => StagedOnlyInWindow
  BY DEF IInv, Sound, StagedOnlyInWindow
<1> QED
  BY <1>1, InductiveInvariant, PTL

\* alloc(n) fails exactly when fewer than n ids are available, with or without
\* sorting, steered or not, inside a window or outside.
THEOREM AllocExact == Spec => []FailsOnlyWhenShort
<1>1. IInv => FailsOnlyWhenShort
  <2> SUFFICES ASSUME IInv, NEW n \in 1..MaxSize, NEW m \in refilled(pool, n)
               PROVE  n > Len(m.free_pages) <=> n > available_size(pool)
    BY DEF FailsOnlyWhenShort
  <2>1. n \in Nat
    BY SizeAssumption
  <2> QED
    BY <2>1, RefilledSound DEF IInv
<1> QED
  BY <1>1, InductiveInvariant, PTL

\* The allocator implements the abstract pool: idle ids and held ids.
THEOREM Refinement == Spec => ImplementsSlotPool
<1>1. Init => Abstract!Init
  <2> SUFFICES ASSUME Init PROVE Abstract!Init
    OBVIOUS
  <2>1. pool.size = InitSize /\ held = {}
    BY DEF Init, Fresh
  <2>2. Range(Lists(pool)) = 1..pool.size \ held
    BY InitIInv, IInvLists
  <2> QED
    BY <2>1, <2>2 DEF Abstract!Init
<1>2. IInv /\ IInv' /\ [Next]_vars => [Abstract!Next]_(Abstract!vars)
  <2> SUFFICES ASSUME IInv, IInv', [Next]_vars
               PROVE  Abstract!Next \/ UNCHANGED Abstract!vars
    BY DEF Abstract!vars
  <2>1. Range(Lists(pool)) = 1..pool.size \ held /\ held \subseteq 1..pool.size
    BY IInvLists
  <2>2. (Range(Lists(pool)) = 1..pool.size \ held /\ held \subseteq 1..pool.size)'
    BY IInvLists, PTL
  <2>3. ASSUME pool'.size = pool.size, held \subseteq held'
        PROVE  Abstract!Take
    <3>1. held' \ held \in SUBSET Range(Lists(pool))
      BY <2>1, <2>2, <2>3
    <3>2. /\ Range(Lists(pool))' = Range(Lists(pool)) \ (held' \ held)
          /\ held' = held \cup (held' \ held)
      BY <2>1, <2>2, <2>3
    <3> QED
      BY <2>3, <3>1, <3>2 DEF Abstract!Take
  <2>4. ASSUME pool'.size = pool.size, held' \subseteq held
        PROVE  Abstract!GiveBack
    <3>1. held \ held' \in SUBSET held
      OBVIOUS
    <3>2. /\ Range(Lists(pool))' = Range(Lists(pool)) \cup (held \ held')
          /\ held' = held \ (held \ held')
      BY <2>1, <2>2, <2>4
    <3> QED
      BY <2>4, <3>1, <3>2 DEF Abstract!GiveBack
  <2>5. ASSUME NEW n \in 1..MaxSize, Alloc(n) PROVE Abstract!Next
    <3>1. n \in Nat
      BY SizeAssumption
    <3>2. pool'.size = pool.size /\ held \subseteq held'
      BY <2>5, <3>1, AllocIInv DEF Alloc
    <3> QED
      BY <2>3, <3>2 DEF Abstract!Next
  <2>6. CASE Free
    <3>1. pool'.size = pool.size /\ held' \subseteq held
      BY <2>6, FreeIInv DEF Free
    <3> QED
      BY <2>4, <3>1 DEF Abstract!Next
  <2>7. CASE FreeGroupBegin \/ FreeGroupEnd \/ FlushFreeGroup \/ Reclaim
    <3>1. pool'.size = pool.size /\ held' = held
      BY <2>7, WindowStepIInv
    <3> QED
      BY <2>3, <3>1 DEF Abstract!Next
  <2>8. CASE SetOwnerBias
    <3>1. pool'.size = pool.size /\ held' = held
      BY <2>8, SetOwnerBiasIInv DEF SetOwnerBias
    <3> QED
      BY <2>3, <3>1 DEF Abstract!Next
  <2>9. CASE GrowSize
    <3>1. held' = held /\ pool'.size \in Nat /\ pool'.size > pool.size /\ pool.size \in Nat
      BY <2>9, GrowSizeIInv, SizeAssumption DEF IInv, Sound, Owns, Pool
    <3>2. Range(Lists(pool))' = Range(Lists(pool)) \cup (pool.size + 1)..pool'.size
      BY <2>1, <2>2, <3>1
    <3> QED
      BY <3>1, <3>2 DEF Abstract!Next, Abstract!Grow
  <2>10. CASE Clear \/ Resize
    <3>1. held' = {} /\ pool'.size \in Nat
      BY <2>10, ResetIInv
    <3>2. Range(Lists(pool))' = 1..pool'.size
      BY <2>2, <3>1
    <3> QED
      BY <3>1, <3>2 DEF Abstract!Next, Abstract!Reset
  <2>11. CASE UNCHANGED vars
    BY <2>11 DEF vars, Abstract!vars, Lists
  <2> QED
    BY <2>5, <2>6, <2>7, <2>8, <2>9, <2>10, <2>11 DEF Next
<1> QED
  BY <1>1, <1>2, InductiveInvariant, PTL DEF Spec, ImplementsSlotPool, Abstract!Spec

-----------------------------------------------------------------------------
(* The steer through a refill.                                             *)

\* The ids of the class come before all others.
Steered(s, bias) ==
    \A i, j \in DOMAIN s : i < j /\ InClass(bias, s[j]) => InClass(bias, s[i])

\* The partition puts the class first.
LEMMA ClassFirstSteers ==
    ASSUME NEW f, NEW bias, NEW s \in ClassFirst(f, bias)
    PROVE  Steered(s, bias)
<1>1. PICK q \in Rearrangements(f) :
         /\ s = Rearranged(f, q)
         /\ \A i, j \in DOMAIN f : i < j =>
               (InClass(bias, f[q[j]]) => InClass(bias, f[q[i]]))
  BY DEF ClassFirst
<1>2. DOMAIN s = DOMAIN f /\ \A i \in DOMAIN f : s[i] = f[q[i]]
  BY <1>1 DEF Rearranged
<1> QED
  BY <1>1, <1>2 DEF Steered

\* A refill of a steered allocator outside a window leaves its list steered.
LEMMA RefillSteers ==
    ASSUME NEW a, NEW S, Sound(a, S), a.release_pages # <<>>,
           NEW m \in merge_and_sort_free(a)
    PROVE  /\ m.owner_bias = a.owner_bias
           /\ m.is_not_in_free_group = a.is_not_in_free_group
           /\ a.owner_bias # NoBias /\ a.is_not_in_free_group
                 => Steered(m.free_pages, a.owner_bias)
<1>1. PICK x \in merge_and_sort_free_unbiased(a) : m \in apply_owner_bias(x)
  BY DEF merge_and_sort_free
<1>2. Sound(x, S) /\ x.release_pages = <<>>
  BY MergeUnbiasedSound
<1>3. a \in Pool /\ x \in Pool
  BY <1>2 DEF Sound, Owns
<1>4. /\ x.owner_bias = a.owner_bias
      /\ x.is_not_in_free_group = a.is_not_in_free_group
  BY <1>3 DEF merge_and_sort_free_unbiased, Pool
<1>5. CASE x.owner_bias = NoBias \/ ~x.is_not_in_free_group
  BY <1>1, <1>4, <1>5 DEF apply_owner_bias
<1>6. CASE ~(x.owner_bias = NoBias \/ ~x.is_not_in_free_group)
  <2>1. merge_and_sort_free_unbiased(x) = {x}
    BY <1>2 DEF merge_and_sort_free_unbiased
  <2>2. PICK s \in ClassFirst(x.free_pages, x.owner_bias) : m = [x EXCEPT !.free_pages = s]
    BY <1>1, <1>6, <2>1 DEF apply_owner_bias
  <2>3. /\ m.free_pages = s /\ m.owner_bias = x.owner_bias
        /\ m.is_not_in_free_group = x.is_not_in_free_group
    BY <1>3, <2>2 DEF Pool
  <2>4. Steered(s, x.owner_bias)
    BY ClassFirstSteers
  <2> QED
    BY <1>4, <2>3, <2>4
<1> QED
  BY <1>5, <1>6

\* What is left of a steered list when its head is taken is steered.
LEMMA TailSteered ==
    ASSUME NEW f \in Seq(Ids), NEW n \in Nat, n <= Len(f), NEW bias, Steered(f, bias)
    PROVE  Steered(SubSeq(f, n + 1, Len(f)), bias)
<1> DEFINE t == SubSeq(f, n + 1, Len(f))
<1>1. DOMAIN f = 1..Len(f) /\ Len(f) \in Nat
  BY LenProperties
<1>2. DOMAIN t = 1..(Len(f) - n) /\ \A i \in 1..(Len(f) - n) : t[i] = f[i + n]
  BY <1>1
<1> HIDE DEF t
<1>3. \A i \in 1..(Len(f) - n) : i + n \in 1..Len(f)
  BY <1>1
<1>4. ASSUME NEW i \in 1..(Len(f) - n), NEW j \in 1..(Len(f) - n), i < j,
             InClass(bias, t[j])
      PROVE  InClass(bias, t[i])
  <2>1. i + n \in DOMAIN f /\ j + n \in DOMAIN f /\ i + n < j + n
    BY <1>1, <1>3, <1>4
  <2>2. InClass(bias, f[j + n])
    BY <1>2, <1>4
  <2>3. InClass(bias, f[i + n])
    BY <2>1, <2>2 DEF Steered
  <2> QED
    BY <1>2, <2>3
<1> QED
  BY <1>2, <1>4 DEF Steered, t

\* Only alloc() gives a caller more ids.
LEMMA OnlyAllocHandsOut ==
    ASSUME IInv, [Next]_vars, held \subseteq held', held # held'
    PROVE  \E n \in 1..MaxSize : Alloc(n)
<1>1. CASE Free
  BY <1>1 DEF Free
<1>2. CASE FreeGroupBegin \/ FreeGroupEnd \/ FlushFreeGroup \/ Reclaim
  BY <1>2, WindowStepIInv
<1>3. CASE SetOwnerBias \/ GrowSize
  BY <1>3 DEF SetOwnerBias, GrowSize
<1>4. CASE Clear \/ Resize
  BY <1>4 DEF Clear, Resize
<1>5. CASE UNCHANGED vars
  BY <1>5 DEF vars
<1> QED
  BY <1>1, <1>2, <1>3, <1>4, <1>5 DEF Next

\* The step relation of SteerSurvivesRefill.
LEMMA StepSteers ==
    ASSUME IInv, [Next]_vars, pool.release_pages # <<>>, pool'.release_pages = <<>>,
           held \subseteq held', held # held', pool'.is_not_in_free_group,
           pool'.owner_bias # NoBias
    PROVE  Steered(pool'.free_pages, pool'.owner_bias)
<1> DEFINE S == 1..pool.size \ held
<1>1. PICK n \in 1..MaxSize : Alloc(n)
  BY OnlyAllocHandsOut
<1>2. n \in Nat
  BY SizeAssumption
<1>3. PICK m \in refilled(pool, n) :
         IF n > Len(m.free_pages)
         THEN pool' = m /\ held' = held
         ELSE /\ pool' = take_head(m, n)
              /\ held' = held \cup Range(SubSeq(m.free_pages, 1, n))
  BY <1>1 DEF Alloc
<1>4. ~(n > Len(m.free_pages)) /\ pool' = take_head(m, n)
  BY <1>3
<1>5. Sound(pool, S) /\ Sound(m, S)
  BY <1>2, RefilledSound DEF IInv
<1> HIDE DEF S
<1>6. m \in Pool /\ m.free_pages \in Seq(Ids) /\ Len(m.free_pages) \in Nat
  BY <1>5, LenProperties DEF Sound, Owns, Pool
<1>7. /\ pool'.free_pages = SubSeq(m.free_pages, n + 1, Len(m.free_pages))
      /\ pool'.release_pages = m.release_pages /\ pool'.owner_bias = m.owner_bias
      /\ pool'.is_not_in_free_group = m.is_not_in_free_group
  BY <1>4, <1>6 DEF take_head, Pool
<1>8. m \in merge_and_sort_free(pool)
  BY <1>7 DEF refilled
<1>9. /\ m.owner_bias = pool.owner_bias
      /\ m.is_not_in_free_group = pool.is_not_in_free_group
      /\ pool.owner_bias # NoBias /\ pool.is_not_in_free_group
            => Steered(m.free_pages, pool.owner_bias)
  BY <1>5, <1>8, RefillSteers
<1>10. Steered(m.free_pages, m.owner_bias) /\ n <= Len(m.free_pages)
  BY <1>2, <1>4, <1>6, <1>7, <1>9
<1> QED
  BY <1>2, <1>6, <1>7, <1>10, TailSteered

\* merge_and_sort_free() undoes no steer: whatever was freed, steered and grown
\* before, the ids left by an alloc() that drained the release list outside a window
\* have the preferred class first.
THEOREM RefillKeepsSteer == Spec => SteerSurvivesRefill
<1>1. IInv /\ [Next]_vars =>
        [ /\ pool.release_pages # <<>>
          /\ pool'.release_pages = <<>>
          /\ held \subseteq held'
          /\ held # held'
          /\ pool'.is_not_in_free_group
          /\ pool'.owner_bias # NoBias
          => \A i, j \in DOMAIN pool'.free_pages :
                i < j /\ InClass(pool'.owner_bias, pool'.free_pages[j])
                => InClass(pool'.owner_bias, pool'.free_pages[i]) ]_vars
  BY StepSteers DEF Steered
<1> QED
  BY <1>1, InductiveInvariant, PTL DEF Spec, SteerSurvivesRefill
=============================================================================
