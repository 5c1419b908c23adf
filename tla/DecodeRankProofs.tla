-------------------------- MODULE DecodeRankProofs --------------------------
(***************************************************************************)
(* One rank of DecodeRetraction: lemmas about its lists of requests, about *)
(* retract_decode() and about the results of a forward pass. A rank is     *)
(* Good when its books balance and its requests are in one place each, and *)
(* every operator is shown to keep it so, on a floor that is not above its *)
(* own free slots. The loop of retract_decode() is followed turn by turn,  *)
(* by induction on the turns.                                              *)
(***************************************************************************)
EXTENDS DecodeRetraction, CollectionTheorems, TLAPS

-----------------------------------------------------------------------------
(* Numbers.                                                                *)

\* A set of naturals that is not empty has the minimum that Min() chooses.
LEMMA MinIs ==
    ASSUME NEW T \in SUBSET Nat, T # {}
    PROVE  Min(T) \in T /\ \A x \in T : Min(T) <= x
<1>1. \E m \in T : \A x \in T : m <= x
  BY LeastNatural
<1> QED BY <1>1, Zenon DEF Min

\* A finite set of naturals that is not empty has the maximum that Max() chooses.
LEMMA MaxIs ==
    ASSUME NEW T \in SUBSET Nat, IsFiniteSet(T), T # {}
    PROVE  Max(T) \in T /\ \A x \in T : x <= Max(T)
<1>1. \E m \in T : \A x \in T : m >= x
  BY GreatestNatural
<1> QED BY <1>1, Zenon DEF Max

\* Whole pages: at most, and at least, a number of tokens.
LEMMA Pages ==
    ASSUME NEW x \in Nat
    PROVE  /\ floor_align(x) \in Nat /\ ceil_align(x) \in Nat
           /\ floor_align(x) <= x /\ x <= ceil_align(x)
           /\ ceil_align(x) < x + page_size
<1> USE ParametersAssumption
<1> DEFINE y == x + page_size - 1
<1>1. y \in Nat
  OBVIOUS
<1>2. \A z \in Nat : /\ (z \div page_size) * page_size \in Nat
                     /\ (z \div page_size) * page_size <= z
                     /\ z < (z \div page_size) * page_size + page_size
  OBVIOUS
<1>3. ceil_align(x) = (y \div page_size) * page_size
  BY DEF ceil_align, floor_align
<1>4. floor_align(x) = (x \div page_size) * page_size
  BY DEF floor_align
<1> QED BY <1>1, <1>2, <1>3, <1>4

\* One more token needs a new page where the pages are full, and none elsewhere.
LEMMA NextToken ==
    ASSUME NEW x \in Nat
    PROVE  ceil_align(x + 1) =
              ceil_align(x) + (IF x % page_size = 0 THEN page_size ELSE 0)
<1> DEFINE p == page_size
           q == x \div p
           r == x % p
<1>1. p \in Nat \ {0}
  BY ParametersAssumption
<1>2. q \in Nat /\ r \in 0..(p - 1) /\ x = q * p + r
  BY <1>1
<1>3. ASSUME NEW z \in Nat, NEW a \in Nat, NEW b \in 0..(p - 1), z = a * p + b
      PROVE  z \div p = a
  <2> DEFINE c == z \div p
  <2>1. c \in Nat /\ c * p <= z /\ z < (c + 1) * p
    BY <1>1
  <2>2. a * p <= z /\ z < (a + 1) * p
    BY <1>1, <1>3
  <2> HIDE DEF c, p
  <2>3. ~(a + 1 <= c)
    BY <1>1, <2>1, <2>2
  <2>4. ~(c + 1 <= a)
    BY <1>1, <2>1, <2>2
  <2>5. c = a
    BY <2>1, <2>3, <2>4
  <2> QED BY <2>5 DEF c
<1>4. ceil_align(x) = ((x + p - 1) \div p) * p /\ ceil_align(x + 1) = ((x + p) \div p) * p
  <2>1. (x + 1) + page_size - 1 = x + page_size
    BY <1>1
  <2> QED BY <2>1 DEF ceil_align, floor_align
<1> HIDE DEF p, q, r
<1>5. (x + p) \div p = q + 1
  <2>1. x + p = (q + 1) * p + r
    BY <1>1, <1>2
  <2> QED BY <1>1, <1>2, <1>3, <2>1
<1>6. CASE r = 0
  <2>1. x + p - 1 = q * p + (p - 1)
    BY <1>1, <1>2, <1>6
  <2>2. (x + p - 1) \div p = q
    BY <1>1, <1>2, <1>3, <2>1
  <2>3. (q + 1) * p = q * p + p
    BY <1>1, <1>2
  <2> QED BY <1>4, <1>5, <1>6, <2>2, <2>3 DEF p, r
<1>7. CASE r # 0
  <2>1. x + p - 1 = (q + 1) * p + (r - 1)
    BY <1>1, <1>2, <1>7
  <2>2. (x + p - 1) \div p = q + 1
    BY <1>1, <1>2, <1>3, <1>7, <2>1
  <2>3. (q + 1) * p \in Nat
    BY <1>1, <1>2
  <2> QED BY <1>4, <1>5, <1>7, <2>2, <2>3 DEF p, r
<1> QED BY <1>6, <1>7

-----------------------------------------------------------------------------
(* Lists of requests.                                                      *)

\* A strict order in which any two places compare.
StrictTotal(I, R) ==
    /\ \A i \in I : <<i, i>> \notin R
    /\ \A i, j, k \in I : <<i, j>> \in R /\ <<j, k>> \in R => <<i, k>> \in R
    /\ \A i, j \in I : i # j => <<i, j>> \in R \/ <<j, i>> \in R

\* o lists the members of I, each once.
Enumerates(o, I) ==
    LET m == Cardinality(I)
    IN  /\ m \in Nat /\ o \in [1..m -> I]
        /\ \A a, b \in 1..m : o[a] = o[b] => a = b
        /\ \A i \in I : \E a \in 1..m : o[a] = i

\* In such an order, ordered() lists each place once.
LEMMA OrderedIs ==
    ASSUME NEW I, IsFiniteSet(I), NEW R, StrictTotal(I, R)
    PROVE  Enumerates(ordered(I, R), I)
<1> DEFINE n == Cardinality(I)
           before(i) == {j \in I : <<j, i>> \in R}
           place == [i \in I |-> Cardinality(before(i)) + 1]
<1>1. n \in Nat
  BY FS_CardinalityType
<1>2. \A i \in I : IsFiniteSet(before(i)) /\ Cardinality(before(i)) \in Nat
  BY FS_Subset, FS_CardinalityType, Zenon
<1>3. ASSUME NEW i \in I PROVE place[i] \in 1..n
  <2>1. IsFiniteSet(I \ {i}) /\ Cardinality(I \ {i}) = n - 1
    BY FS_RemoveElement
  <2>2. before(i) \in SUBSET (I \ {i})
    BY DEF StrictTotal
  <2>3. place[i] = Cardinality(before(i)) + 1
    OBVIOUS
  <2> HIDE DEF before, place, n
  <2>4. Cardinality(before(i)) <= n - 1
    BY <2>1, <2>2, FS_Subset
  <2> QED BY <1>1, <1>2, <2>3, <2>4
<1>4. ASSUME NEW i \in I, NEW j \in I, <<i, j>> \in R PROVE place[i] < place[j]
  <2>1. i \notin before(i) /\ before(i) \cup {i} \in SUBSET before(j)
    BY <1>4 DEF StrictTotal
  <2>2. Cardinality(before(i) \cup {i}) = Cardinality(before(i)) + 1
    <3> HIDE DEF before
    <3> QED BY <1>2, <2>1, FS_AddElement, Zenon
  <2>3. Cardinality(before(i) \cup {i}) <= Cardinality(before(j))
    <3> HIDE DEF before
    <3> QED BY <1>2, <2>1, FS_Subset
  <2>4. place[i] = Cardinality(before(i)) + 1 /\ place[j] = Cardinality(before(j)) + 1
    OBVIOUS
  <2> HIDE DEF before, place
  <2> QED BY <1>2, <2>2, <2>3, <2>4
<1>5. ASSUME NEW i \in I, NEW j \in I, place[i] = place[j] PROVE i = j
  <2> HIDE DEF place, n
  <2>1. place[i] \in 1..n /\ place[j] \in 1..n
    BY <1>3
  <2>2. ~(place[i] < place[j]) /\ ~(place[j] < place[i])
    BY <1>1, <1>5, <2>1
  <2>3. <<i, j>> \notin R /\ <<j, i>> \notin R
    BY <1>4, <2>2
  <2> QED BY <2>3 DEF StrictTotal
<1>6. place \in Injection(I, 1..n)
  <2>1. place \in [I -> 1..n]
    BY <1>3
  <2>2. DOMAIN place = I
    OBVIOUS
  <2> HIDE DEF place, n
  <2> QED BY <1>5, <2>1, <2>2 DEF Injection, IsInjective
<1>7. IsFiniteSet(1..n) /\ Cardinality(1..n) = n
  BY <1>1, FS_Interval
<1>8. place \in Surjection(I, 1..n)
  <2> HIDE DEF place
  <2> QED BY <1>6, <1>7, FS_Injection
<1>9. \A a \in 1..n : \E i \in I : place[i] = a
  <2> HIDE DEF place, n
  <2> QED BY <1>8 DEF Surjection
<1>10. \A a \in 1..n : \E i \in I : Cardinality(before(i)) = a - 1
  <2> SUFFICES ASSUME NEW a \in 1..n PROVE \E i \in I : Cardinality(before(i)) = a - 1
    OBVIOUS
  <2>1. PICK i \in I : place[i] = a
    BY <1>9
  <2>2. place[i] = Cardinality(before(i)) + 1
    OBVIOUS
  <2>3. Cardinality(before(i)) = a - 1
    <3> HIDE DEF before, place, n
    <3> QED BY <1>1, <1>2, <2>1, <2>2
  <2> QED BY <2>3, Zenon
<1> DEFINE o == ordered(I, R)
<1>11. o = [a \in 1..n |-> CHOOSE i \in I : Cardinality(before(i)) = a - 1]
  BY DEF ordered
<1> HIDE DEF o, n
<1>12. ASSUME NEW a \in 1..n PROVE o[a] \in I /\ place[o[a]] = a
  <2>1. o[a] \in I /\ Cardinality(before(o[a])) = a - 1
    <3> HIDE DEF before
    <3> QED BY <1>10, <1>11
  <2>2. place[o[a]] = Cardinality(before(o[a])) + 1
    BY <2>1
  <2> HIDE DEF before, place
  <2> QED BY <1>1, <2>1, <2>2
<1>13. o \in [1..n -> I]
  BY <1>11, <1>12, Zenon
<1> HIDE DEF place
<1>14. \A a, b \in 1..n : o[a] = o[b] => a = b
  BY <1>12
<1>15. ASSUME NEW i \in I PROVE \E a \in 1..n : o[a] = i
  <2>1. place[i] \in 1..n
    BY <1>3
  <2>2. o[place[i]] \in I /\ place[o[place[i]]] = place[i]
    BY <1>12, <2>1
  <2>3. o[place[i]] = i
    BY <1>5, <2>2
  <2> QED BY <2>1, <2>3
<1> QED BY <1>1, <1>13, <1>14, <1>15 DEF Enumerates, o, n

\* A list of requests that repeats none.
NoRepeat(s) == s \in Seq(Reqs) /\ IsInjective(s)

\* A list with nothing in it is the empty list.
LEMMA NoneListed ==
    ASSUME NEW s \in Seq(Reqs)
    PROVE  s = <<>> <=> Range(s) = {}
<1>1. DOMAIN s = 1..Len(s) /\ Len(s) \in Nat
  OBVIOUS
<1>2. Range(s) = {} <=> 1..Len(s) = {}
  BY <1>1, Zenon DEF Range
<1>3. 1..Len(s) = {} <=> Len(s) = 0
  <2>1. Len(s) # 0 => 1 \in 1..Len(s)
    BY <1>1
  <2>2. Len(s) = 0 => 1..Len(s) = {}
    OBVIOUS
  <2> QED BY <2>1, <2>2
<1>4. s = <<>> <=> Len(s) = 0
  OBVIOUS
<1> QED BY <1>2, <1>3, <1>4

\* The listing of some places of a list has the requests there, each once.
LEMMA ListingIs ==
    ASSUME NEW s, NoRepeat(s), NEW I \in SUBSET DOMAIN s, NEW o, Enumerates(o, I)
    PROVE  /\ NoRepeat(listing(s, o))
           /\ Len(listing(s, o)) = Cardinality(I)
           /\ Range(listing(s, o)) = {s[i] : i \in I}
<1> DEFINE t == listing(s, o)
           m == Cardinality(I)
<1>0. /\ m \in Nat /\ o \in [1..m -> I]
      /\ \A a, b \in 1..m : o[a] = o[b] => a = b
      /\ \A i \in I : \E a \in 1..m : o[a] = i
  BY DEF Enumerates
<1> HIDE DEF m
<1>1. s \in Seq(Reqs) /\ DOMAIN s = 1..Len(s) /\ \A i \in DOMAIN s : s[i] \in Reqs
  BY DEF NoRepeat
<1>2. DOMAIN t = 1..m /\ \A a \in 1..m : t[a] = s[o[a]]
  BY <1>0 DEF listing
<1>3. \A a \in 1..m : o[a] \in I /\ o[a] \in DOMAIN s
  BY <1>0
<1>4. t = [a \in 1..m |-> s[o[a]]]
  BY <1>0 DEF listing
<1>5. t \in Seq(Reqs) /\ Len(t) = m
  BY <1>0, <1>1, <1>3, <1>4
<1> HIDE DEF t
<1>6. IsInjective(t)
  BY <1>0, <1>2, <1>3 DEF IsInjective, NoRepeat
<1>7. Range(t) = {s[i] : i \in I}
  BY <1>0, <1>2, <1>3 DEF Range
<1> QED BY <1>5, <1>6, <1>7 DEF NoRepeat, t, m

\* less() takes the requests of a set out of a list.
LEMMA LessIs ==
    ASSUME NEW s, NoRepeat(s), NEW S
    PROVE  /\ NoRepeat(less(s, S))
           /\ Range(less(s, S)) = Range(s) \ S
<1> DEFINE I == {i \in DOMAIN s : s[i] \notin S}
           R == {p \in I \X I : p[1] < p[2]}
           o == ordered(I, R)
<1>1. DOMAIN s = 1..Len(s) /\ Len(s) \in Nat
  BY DEF NoRepeat
<1>2. IsFiniteSet(I) /\ I \in SUBSET DOMAIN s /\ I \subseteq Nat
  <2>1. IsFiniteSet(1..Len(s))
    BY <1>1, FS_Interval
  <2> QED BY <1>1, <2>1, FS_Subset
<1>3. less(s, S) = listing(s, o)
  BY DEF less
<1>4. \A i, j \in I : <<i, j>> \in R <=> i < j
  OBVIOUS
<1>5. {s[i] : i \in I} = Range(s) \ S
  BY DEF Range
<1> HIDE DEF I, R
<1>6. StrictTotal(I, R)
  BY <1>2, <1>4 DEF StrictTotal
<1>7. Enumerates(o, I)
  BY <1>2, <1>6, OrderedIs
<1> HIDE DEF o
<1>8. NoRepeat(listing(s, o)) /\ Range(listing(s, o)) = {s[i] : i \in I}
  BY <1>2, <1>7, ListingIs, Zenon
<1> QED BY <1>3, <1>5, <1>8

\* sorted_indices has the requests of the batch, each once.
LEMMA RetractionOrderIs ==
    ASSUME NEW n, NoRepeat(n.running), n.output \in [Reqs -> Nat]
    PROVE  LET s == get_decode_retraction_order(n)
           IN  NoRepeat(s) /\ Range(s) = Range(n.running) /\ Len(s) = Len(n.running)
<1> DEFINE s == n.running
           I == DOMAIN s
           Preferred(i, j) ==
              \/ n.output[s[i]] > n.output[s[j]]
              \/ n.output[s[i]] = n.output[s[j]] /\ Origin[s[i]] < Origin[s[j]]
              \/ n.output[s[i]] = n.output[s[j]] /\ Origin[s[i]] = Origin[s[j]] /\ i < j
           R == {p \in I \X I : Preferred(p[1], p[2])}
           o == ordered(I, R)
<1>1. I = 1..Len(s) /\ Len(s) \in Nat /\ \A i \in I : s[i] \in Reqs
  BY DEF NoRepeat
<1>2. IsFiniteSet(I) /\ Cardinality(I) = Len(s)
  BY <1>1, FS_Interval
<1>3. \A i \in I : i \in Nat /\ n.output[s[i]] \in Nat /\ Origin[s[i]] \in Nat
  <2>1. \A r \in Reqs : n.output[r] \in Nat /\ Origin[r] \in Nat
    BY ReqsAssumption
  <2>2. I \subseteq Nat
    BY <1>1
  <2> HIDE DEF s, I
  <2> QED BY <1>1, <2>1, <2>2
<1>4. \A i, j \in I : <<i, j>> \in R <=> Preferred(i, j)
  OBVIOUS
<1>5. get_decode_retraction_order(n) = listing(s, o)
  BY DEF get_decode_retraction_order
<1> HIDE DEF R, I, s
<1>6. StrictTotal(I, R)
  <2>1. \A i \in I : ~Preferred(i, i)
    BY <1>3
  <2>2. ASSUME NEW i \in I, NEW j \in I, NEW k \in I, Preferred(i, j), Preferred(j, k)
        PROVE  Preferred(i, k)
    BY <1>3, <2>2
  <2>3. \A i, j \in I : i # j => Preferred(i, j) \/ Preferred(j, i)
    BY <1>3
  <2> HIDE DEF Preferred
  <2> QED BY <1>4, <2>1, <2>2, <2>3 DEF StrictTotal
<1>7. Enumerates(o, I)
  BY <1>2, <1>6, OrderedIs
<1> HIDE DEF o
<1>8. /\ NoRepeat(listing(s, o)) /\ Len(listing(s, o)) = Len(s)
      /\ Range(listing(s, o)) = {s[i] : i \in I}
  <2>1. NoRepeat(s) /\ I \in SUBSET DOMAIN s
    BY DEF s, I
  <2> QED BY <1>2, <1>7, <2>1, ListingIs
<1>9. {s[i] : i \in I} = Range(s)
  BY DEF Range, I
<1> QED BY <1>5, <1>8, <1>9 DEF s

\* After i pops, what is left and what was popped share out the list.
LEMMA PopsAre ==
    ASSUME NEW s, NoRepeat(s), NEW i \in Nat, i <= Len(s)
    PROVE  LET back == [j \in 1..i |-> popped(s, j)]
           IN  /\ NoRepeat(left(s, i)) /\ Len(left(s, i)) = Len(s) - i
               /\ NoRepeat(back) /\ Len(back) = i
               /\ Range(left(s, i)) \cap Range(back) = {}
               /\ Range(left(s, i)) \cup Range(back) = Range(s)
<1> DEFINE N == Len(s)
           t == left(s, i)
           back == [j \in 1..i |-> popped(s, j)]
<1>1. /\ s \in Seq(Reqs) /\ DOMAIN s = 1..N /\ N \in Nat
      /\ \A a \in 1..N : s[a] \in Reqs
      /\ \A a, b \in 1..N : s[a] = s[b] => a = b
  BY DEF NoRepeat, IsInjective
<1>2. t \in Seq(Reqs) /\ Len(t) = N - i /\ \A a \in 1..(N - i) : t[a] = s[a]
  <2>1. N - i \in Nat /\ N - i <= N
    BY <1>1
  <2>2. t = SubSeq(s, 1, N - i)
    BY DEF left
  <2>3. \A a \in 1..(N - i) : a \in 1..N
    BY <1>1
  <2> HIDE DEF N, t
  <2>4. t = [a \in 1..(N - i) |-> s[a]]
    BY <1>1, <2>1, <2>2
  <2>5. t \in [1..(N - i) -> Reqs]
    BY <1>1, <2>3, <2>4
  <2> QED BY <2>1, <2>4, <2>5
<1>3. DOMAIN t = 1..(N - i)
  BY <1>1, <1>2
<1>4. \A j \in 1..i : N - j + 1 \in 1..N /\ back[j] = s[N - j + 1]
  BY <1>1 DEF popped
<1>5. back \in [1..i -> Reqs]
  BY <1>1, <1>4
<1>6. back \in Seq(Reqs) /\ Len(back) = i /\ DOMAIN back = 1..i
  BY <1>5
<1> HIDE DEF back, t, N
<1>7. IsInjective(t)
  BY <1>1, <1>2, <1>3 DEF IsInjective
<1>8. IsInjective(back)
  <2> SUFFICES ASSUME NEW a \in 1..i, NEW b \in 1..i, back[a] = back[b] PROVE a = b
    BY <1>6 DEF IsInjective
  <2>1. N - a + 1 = N - b + 1
    BY <1>1, <1>4
  <2> QED BY <1>1, <2>1
<1>9. Range(t) \cap Range(back) = {}
  <2> SUFFICES ASSUME NEW a \in 1..(N - i), NEW b \in 1..i, t[a] = back[b] PROVE FALSE
    BY <1>3, <1>6 DEF Range
  <2>1. a \in 1..N /\ a = N - b + 1
    BY <1>1, <1>2, <1>4
  <2> QED BY <1>1, <2>1
<1>10. Range(t) \cup Range(back) = Range(s)
  <2>1. \A a \in 1..(N - i) : a \in 1..N
    BY <1>1
  <2>2. Range(t) \subseteq Range(s)
    BY <1>1, <1>2, <1>3, <2>1 DEF Range
  <2>3. Range(back) \subseteq Range(s)
    BY <1>1, <1>4, <1>6 DEF Range
  <2>4. ASSUME NEW a \in 1..N PROVE s[a] \in Range(t) \cup Range(back)
    <3>1. CASE a <= N - i
      <4>1. a \in 1..(N - i)
        BY <1>1, <3>1
      <4> QED BY <1>2, <1>3, <4>1 DEF Range
    <3>2. CASE a > N - i
      <4>1. N - a + 1 \in 1..i /\ N - (N - a + 1) + 1 = a
        BY <1>1, <3>2
      <4>2. back[N - a + 1] = s[a]
        BY <1>4, <4>1
      <4> QED BY <1>6, <4>1, <4>2 DEF Range
    <3> QED BY <1>1, <3>1, <3>2
  <2>5. Range(s) \subseteq Range(t) \cup Range(back)
    BY <1>1, <2>4 DEF Range
  <2> QED BY <2>2, <2>3, <2>5
<1> QED BY <1>2, <1>6, <1>7, <1>8, <1>9, <1>10, Zenon DEF NoRepeat, t, back, N

\* A pop takes one request more.
LEMMA NextPop ==
    ASSUME NEW s, NoRepeat(s), NEW i \in Nat, i < Len(s)
    PROVE  /\ popped(s, i + 1) \in Range(left(s, i))
           /\ Range(left(s, i + 1)) = Range(left(s, i)) \ {popped(s, i + 1)}
<1> DEFINE N == Len(s)
           t == left(s, i)
           v == left(s, i + 1)
<1>1. /\ s \in Seq(Reqs) /\ N \in Nat
      /\ \A a, b \in 1..N : s[a] = s[b] => a = b
  BY DEF NoRepeat, IsInjective
<1>2. /\ DOMAIN t = 1..(N - i) /\ \A a \in 1..(N - i) : t[a] = s[a]
      /\ DOMAIN v = 1..(N - (i + 1)) /\ \A a \in 1..(N - (i + 1)) : v[a] = s[a]
  BY <1>1 DEF left
<1>3. popped(s, i + 1) = s[N - i] /\ N - i \in 1..(N - i)
  BY <1>1 DEF popped
<1>4. \A a \in 1..(N - i) : a # N - i <=> a \in 1..(N - (i + 1))
  BY <1>1
<1>5. \A a \in 1..(N - (i + 1)) : a \in 1..(N - i)
  BY <1>1
<1>6. \A a \in 1..(N - i) : a \in 1..N
  BY <1>1
<1> HIDE DEF N, t, v
<1>7. s[N - i] \in Range(t)
  BY <1>2, <1>3 DEF Range
<1>8. Range(v) = Range(t) \ {s[N - i]}
  <2>1. \A a \in 1..(N - (i + 1)) : v[a] = t[a] /\ a \in DOMAIN t /\ v[a] # s[N - i]
    BY <1>1, <1>2, <1>3, <1>4, <1>5, <1>6
  <2>2. Range(v) \subseteq Range(t) \ {s[N - i]}
    BY <1>2, <2>1 DEF Range
  <2>3. \A a \in DOMAIN t : t[a] # s[N - i] => a \in DOMAIN v /\ v[a] = t[a]
    BY <1>2, <1>4
  <2>4. Range(t) \ {s[N - i]} \subseteq Range(v)
    BY <2>3 DEF Range
  <2> QED BY <2>2, <2>4
<1> QED BY <1>3, <1>7, <1>8 DEF t, v

-----------------------------------------------------------------------------
(* The state of one rank.                                                  *)

Node == [avail : Int, branch : [Reqs -> Nat], running : Seq(Reqs),
         waiting : Seq(Reqs), full : BOOLEAN, output : [Reqs -> Nat],
         solo : [Reqs -> Nat], done : SUBSET Reqs, aborted : SUBSET Reqs,
         oom : BOOLEAN]

\* The slots of each request, as SlotsBalance counts them.
slots(n) == [r \in Reqs |-> IF r \in Live(n) THEN ceil_align(kv_committed_len(n, r))
                                             ELSE n.branch[r]]

\* A live request has a token of output and more to come, and its protected prefix
\* is a part of its row.
Rows(n) ==
    \A r \in Live(n) : /\ 1 <= n.output[r] /\ n.output[r] < max_new_tokens
                       /\ n.branch[r] <= kv_committed_len(n, r)

\* What add_one_req() reserves for a request is never negative.
Bounded(n) ==
    \A r \in Reqs : r \notin n.done \/ r \in Range(n.running)
                        => n.output[r] <= max_new_tokens

\* A request is in one place.
Placed(n) ==
    /\ NoRepeat(n.waiting) /\ NoRepeat(n.running)
    /\ Range(n.running) \cap Range(n.waiting) = {}
    /\ Range(n.waiting) \cap (n.done \cup n.aborted) = {}
    /\ Range(n.running) \cap n.aborted = {}

Books(n, size) == n.avail \in Nat /\ n.avail + Sum(slots(n)) = size

Good(n, size) ==
    n \in Node /\ ~n.oom /\ Rows(n) /\ Bounded(n) /\ Placed(n) /\ Books(n, size)

\* All of two ranks' states but the free slots and the trees.
Alike(n, m) ==
    /\ m.running = n.running /\ m.waiting = n.waiting /\ m.full = n.full
    /\ m.output = n.output /\ m.solo = n.solo /\ m.done = n.done
    /\ m.aborted = n.aborted /\ m.oom = n.oom

\* What an eviction may do to a rank: slots of unlocked branches become free.
Evicted(n, m) ==
    /\ m \in Node /\ Alike(n, m)
    /\ n.avail <= m.avail
    /\ \A r \in Live(n) : m.branch[r] = n.branch[r]
    /\ m.avail + Sum(slots(m)) = n.avail + Sum(slots(n))

\* Live requests are requests, and their committed length is a number of tokens.
LEMMA LiveIs ==
    ASSUME NEW n \in Node, Rows(n)
    PROVE  /\ Live(n) \subseteq Reqs
           /\ \A r \in Live(n) : kv_committed_len(n, r) \in Nat
           /\ \A r \in Reqs : fill_len(n, r) \in Nat /\ kv_committed_len(n, r) = fill_len(n, r) - 1
           /\ slots(n) \in [Reqs -> Nat]
           /\ Sum(slots(n)) \in Nat
<1>1. n.running \in Seq(Reqs) /\ n.output \in [Reqs -> Nat] /\ n.branch \in [Reqs -> Nat]
  BY DEF Node
<1>2. Range(n.running) \subseteq Reqs
  BY <1>1 DEF Range
<1>3. Live(n) \subseteq Reqs
  BY <1>2 DEF Live
<1>4. \A r \in Reqs : n.output[r] \in Nat /\ Origin[r] \in Nat
  BY <1>1, ReqsAssumption
<1>5. \A r \in Reqs : fill_len(n, r) \in Nat /\ kv_committed_len(n, r) = fill_len(n, r) - 1
  BY <1>4 DEF fill_len, kv_committed_len
<1>6. ASSUME NEW r \in Live(n) PROVE kv_committed_len(n, r) \in Nat
  <2>1. n.output[r] \in Nat /\ Origin[r] \in Nat /\ 1 <= n.output[r]
    BY <1>3, <1>4 DEF Rows
  <2> QED BY <2>1 DEF fill_len, kv_committed_len
<1>7. \A r \in Live(n) : ceil_align(kv_committed_len(n, r)) \in Nat
  BY <1>6, Pages
<1>8. slots(n) \in [Reqs -> Nat]
  BY <1>1, <1>7 DEF slots
<1>9. Sum(slots(n)) \in Nat
  BY <1>8, ReqsAssumption, SumType, Zenon
<1> QED BY <1>3, <1>5, <1>6, <1>8, <1>9

\* evict() moves the slots of its victims to the free list. It stops short of what
\* it was asked for only when nothing is left to evict.
LEMMA EvictIs ==
    ASSUME NEW n \in Node, Rows(n), NEW num \in Int
    PROVE  /\ Evicted(n, evict(n, num))
           /\ evictable_size(n) \in Nat
           /\ \/ evict(n, num).avail >= n.avail + num
              \/ evict(n, num).avail = n.avail + evictable_size(n)
<1> DEFINE U == Unlocked(n)
           G == victims(n, num)
           m == evict(n, num)
           lost == [r \in G |-> n.branch[r]]
           all == [r \in U |-> n.branch[r]]
           rest == [r \in Reqs \ G |-> slots(n)[r]]
<1>1. /\ n.avail \in Int /\ n.branch \in [Reqs -> Nat]
      /\ U \subseteq Reqs /\ U \cap Live(n) = {} /\ G \subseteq U
  BY DEF Node, Unlocked, victims
<1>2. IsFiniteSet(Reqs) /\ Reqs \subseteq Nat
  BY ReqsAssumption
<1>3. IsFiniteSet(U) /\ IsFiniteSet(G) /\ IsFiniteSet(Reqs \ G)
  <2>1. U \in SUBSET Reqs /\ G \in SUBSET Reqs /\ Reqs \ G \in SUBSET Reqs
    BY <1>1
  <2> QED BY <1>2, <2>1, FS_Subset
<1>4. slots(n) \in [Reqs -> Nat] /\ Sum(slots(n)) \in Nat /\ Live(n) \subseteq Reqs
  BY LiveIs
<1>5. /\ lost \in [G -> Nat] /\ all \in [U -> Nat] /\ rest \in [Reqs \ G -> Nat]
  BY <1>1, <1>4
<1>6. Sum(lost) \in Nat /\ Sum(all) \in Nat /\ Sum(rest) \in Nat
  BY <1>3, <1>5, SumType
<1>7. /\ m = [n EXCEPT !.avail = n.avail + Sum(lost),
                       !.branch = [r \in Reqs |-> IF r \in G THEN 0 ELSE n.branch[r]]]
      /\ evictable_size(n) = Sum(all)
  BY DEF evict, evictable_size
<1> HIDE DEF m, G, U, lost, all, rest
<1>8. /\ m \in Node /\ Alike(n, m) /\ m.avail = n.avail + Sum(lost)
      /\ m.branch = [r \in Reqs |-> IF r \in G THEN 0 ELSE n.branch[r]]
  <2> DEFINE b == [r \in Reqs |-> IF r \in G THEN 0 ELSE n.branch[r]]
             a == n.avail + Sum(lost)
  <2>1. b \in [Reqs -> Nat] /\ a \in Int
    BY <1>1, <1>6
  <2>2. m = [n EXCEPT !.avail = a, !.branch = b]
    BY <1>7
  <2> HIDE DEF a, b
  <2>3. m \in Node /\ Alike(n, m) /\ m.avail = a /\ m.branch = b
    BY <2>1, <2>2, Zenon DEF Node, Alike
  <2> QED BY <2>3 DEF a, b
<1>9. /\ Live(m) = Live(n)
      /\ \A r \in Reqs : kv_committed_len(m, r) = kv_committed_len(n, r)
  BY <1>8 DEF Live, Alike, kv_committed_len, fill_len
<1>10. \A r \in Live(n) : m.branch[r] = n.branch[r]
  BY <1>1, <1>4, <1>8
<1>11. Sum(slots(n)) = Sum(lost) + Sum(rest)
  <2>1. /\ G \cap (Reqs \ G) = {} /\ G \cup (Reqs \ G) = Reqs
        /\ \A r \in G : slots(n)[r] = lost[r]
        /\ \A r \in Reqs \ G : slots(n)[r] = rest[r]
    BY <1>1 DEF slots, lost, rest
  <2> DEFINE B == Reqs \ G
             f == slots(n)
  <2>2. f \in [G \cup B -> Nat]
    BY <1>4, <2>1
  <2>3. G \cap B = {} /\ IsFiniteSet(B) /\ rest \in [B -> Nat]
    BY <1>3, <1>5, <2>1
  <2>4. \A r \in B : f[r] = rest[r]
    BY <2>1
  <2>5. \A r \in G : f[r] = lost[r]
    BY <2>1
  <2>6. IsFiniteSet(G) /\ lost \in [G -> Nat]
    BY <1>3, <1>5
  <2> HIDE DEF B, f
  <2>7. Sum(f) = Sum(lost) + Sum(rest)
    BY <2>2, <2>3, <2>4, <2>5, <2>6, SumSplit
  <2> QED BY <2>7 DEF f
<1>12. Sum(slots(m)) = Sum(rest)
  <2>1. ASSUME NEW r \in Reqs \ G PROVE slots(m)[r] = slots(n)[r]
    <3>1. m.branch[r] = n.branch[r] /\ kv_committed_len(m, r) = kv_committed_len(n, r)
      BY <1>8, <1>9
    <3> QED BY <1>9, <3>1 DEF slots
  <2>2. \A r \in G : slots(m)[r] = 0
    BY <1>1, <1>8, <1>9 DEF slots
  <2>3. slots(m) \in [Reqs -> Nat]
    <3>1. \A r \in Reqs : slots(m)[r] \in Nat
      BY <1>4, <2>1, <2>2
    <3> QED BY <3>1 DEF slots
  <2>4. /\ \A r \in Reqs \ G : slots(m)[r] = rest[r]
        /\ \A r \in Reqs \ (Reqs \ G) : slots(m)[r] = 0
    BY <2>1, <2>2 DEF rest
  <2>5. Sum(rest) = Sum(slots(m))
    BY <1>5, <2>3, <2>4, SumZeros
  <2> QED BY <2>5
<1>13. Evicted(n, m)
  <2>1. n.avail <= m.avail
    BY <1>1, <1>6, <1>8
  <2>2. m.avail + Sum(slots(m)) = n.avail + Sum(slots(n))
    BY <1>1, <1>6, <1>8, <1>11, <1>12
  <2> QED BY <1>8, <1>10, <2>1, <2>2 DEF Evicted
<1>14. CASE G = U
  <2>1. lost = all
    BY <1>14 DEF lost, all
  <2> QED BY <1>6, <1>7, <1>8, <1>13, <2>1 DEF m
<1>15. CASE G # U
  <2>1. U \ G # {} /\ U \ G \in SUBSET Nat
    BY <1>1, <1>2, <1>15, Zenon
  <2>2. PICK q \in U \ G : \A r \in U \ G : q <= r
    BY <2>1, LeastNatural, Zenon
  <2> DEFINE P == {r \in U : r < q}
             early == [r \in P |-> n.branch[r]]
  <2>3. ~(Sum(early) < num)
    BY <2>2 DEF G, U, victims
  <2>4. P \subseteq G
    <3> SUFFICES ASSUME NEW r \in U, r < q, r \notin G PROVE FALSE
      OBVIOUS
    <3>1. q <= r
      BY <2>2
    <3>2. q \in Nat /\ r \in Nat
      BY <1>1, <1>2, <2>2
    <3> QED BY <3>1, <3>2
  <2>5. early \in [P -> Nat] /\ \A r \in P : early[r] <= lost[r]
    BY <1>1, <2>4 DEF lost
  <2> HIDE DEF P, early
  <2>6. Sum(early) <= Sum(lost)
    BY <1>3, <1>5, <2>4, <2>5, SumMonotone
  <2>7. Sum(early) \in Nat
    <3>1. IsFiniteSet(P)
      BY <1>3, <2>4, FS_Subset
    <3> QED BY <2>5, <3>1, SumType
  <2>8. m.avail >= n.avail + num
    BY <1>1, <1>6, <1>8, <2>3, <2>6, <2>7
  <2> QED BY <1>6, <1>7, <1>13, <2>8 DEF m
<1> QED BY <1>14, <1>15

\* An eviction keeps a rank in order.
LEMMA EvictedGood ==
    ASSUME NEW n, NEW m, NEW size, Good(n, size), Evicted(n, m)
    PROVE  Good(m, size) /\ Live(m) = Live(n)
<1>1. /\ n \in Node /\ ~n.oom /\ Rows(n) /\ Bounded(n) /\ Placed(n) /\ Books(n, size)
      /\ m \in Node /\ Alike(n, m) /\ n.avail <= m.avail
      /\ \A r \in Live(n) : m.branch[r] = n.branch[r]
      /\ m.avail + Sum(slots(m)) = n.avail + Sum(slots(n))
  BY DEF Good, Evicted
<1>2. /\ Live(m) = Live(n)
      /\ \A r : kv_committed_len(m, r) = kv_committed_len(n, r)
  BY <1>1 DEF Live, Alike, kv_committed_len, fill_len
<1>3. ~m.oom /\ Bounded(m) /\ Placed(m)
  BY <1>1 DEF Alike, Bounded, Placed
<1>4. Rows(m)
  BY <1>1, <1>2 DEF Rows, Alike
<1>5. m.avail \in Nat
  <2>1. n.avail \in Nat /\ m.avail \in Int
    BY <1>1 DEF Books, Node
  <2> QED BY <1>1, <2>1
<1>6. Books(m, size)
  BY <1>1, <1>5 DEF Books
<1> QED BY <1>1, <1>2, <1>3, <1>4, <1>6 DEF Good

\* evict_from_tree_cache() evicts or leaves the rank as it is.
LEMMA EvictFromTree ==
    ASSUME NEW n \in Node, Rows(n), NEW num \in Int, NEW u
    PROVE  Evicted(n, evict_from_tree_cache(n, u, num))
<1>1. Evicted(n, evict(n, num))
  BY EvictIs
<1>2. Evicted(n, n)
  <2>1. n.avail \in Int
    BY DEF Node
  <2> QED BY <2>1 DEF Evicted, Alike
<1> QED BY <1>1, <1>2 DEF evict_from_tree_cache

\* The demand of the next decode step is a number of tokens.
LEMMA DemandIs ==
    ASSUME NEW n, NEW s \in Seq(Reqs)
    PROVE  /\ new_tokens_required_next_decode(n, s) \in Nat
           /\ IsFiniteSet({r \in Range(s) : kv_committed_len(n, r) % page_size = 0})
<1> DEFINE D == {r \in Range(s) : kv_committed_len(n, r) % page_size = 0}
<1>1. D \in SUBSET Reqs
  BY DEF Range
<1>2. IsFiniteSet(D)
  BY <1>1, ReqsAssumption, FS_Subset
<1>3. Cardinality(D) \in Nat
  BY <1>2, FS_CardinalityType
<1>4. page_size \in Nat
  BY ParametersAssumption
<1>5. new_tokens_required_next_decode(n, s) = page_size * Cardinality(D)
  BY DEF new_tokens_required_next_decode
<1> HIDE DEF D
<1>6. new_tokens_required_next_decode(n, s) \in Nat
  BY <1>3, <1>4, <1>5
<1> QED BY <1>2, <1>6 DEF D

\* What release_req() leaves: r is out of the batch, its row is free but for the
\* prefix that the tree keeps, and other branches may have been evicted.
Released(n, m, r) ==
    /\ Range(m.running) = Range(n.running) \ {r}
    /\ n.avail <= m.avail
    /\ m.waiting = n.waiting /\ m.full = n.full /\ m.output = n.output
    /\ m.solo = n.solo /\ m.done = n.done /\ m.aborted = n.aborted

\* release_req() keeps a rank in order.
LEMMA ReleaseKeeps ==
    ASSUME NEW n, NEW size, Good(n, size), NEW r \in Live(n), NEW u, NEW c \in Nat
    PROVE  LET m == release_req(n, u, r, c)
           IN  Good(m, size) /\ Released(n, m, r)
<1> DEFINE row == ceil_align(kv_committed_len(n, r))
           a == n.avail + row - n.branch[r]
           s == less(n.running, {r})
           f == [n EXCEPT !.avail = a, !.running = s]
           m == release_req(n, u, r, c)
<1>1. /\ n \in Node /\ ~n.oom /\ Rows(n) /\ Bounded(n) /\ Placed(n)
      /\ n.avail \in Nat /\ n.avail + Sum(slots(n)) = size
  BY DEF Good, Books
<1>2. /\ r \in Reqs /\ kv_committed_len(n, r) \in Nat
      /\ slots(n) \in [Reqs -> Nat] /\ Sum(slots(n)) \in Nat
  BY <1>1, LiveIs
<1>3. n.branch[r] \in Nat /\ n.branch[r] <= kv_committed_len(n, r)
  BY <1>1, <1>2 DEF Node, Rows
<1>4. row \in Nat /\ n.branch[r] <= row
  BY <1>2, <1>3, Pages
<1>5. a \in Nat /\ n.avail <= a
  BY <1>1, <1>3, <1>4
<1>6. NoRepeat(s) /\ Range(s) = Range(n.running) \ {r}
  BY <1>1, LessIs DEF Placed
<1>7. m = evict_from_tree_cache(f, u, c * RetractDecodeSteps)
  BY DEF release_req
<1>8. slots(n)[r] = row
  BY <1>2 DEF slots
<1> HIDE DEF row, a, s, m
<1>9. /\ f \in Node /\ f.avail = a /\ f.running = s /\ f.branch = n.branch
      /\ f.waiting = n.waiting /\ f.full = n.full /\ f.output = n.output
      /\ f.solo = n.solo /\ f.done = n.done /\ f.aborted = n.aborted /\ f.oom = n.oom
  <2>1. a \in Int /\ s \in Seq(Reqs) /\ n \in Node
    BY <1>1, <1>5, <1>6 DEF NoRepeat
  <2> QED BY <2>1, Zenon DEF Node
<1> HIDE DEF f
<1>10. Live(f) = Live(n) \ {r}
  BY <1>6, <1>9 DEF Live
<1>11. \A q : kv_committed_len(f, q) = kv_committed_len(n, q)
  BY <1>9 DEF kv_committed_len, fill_len
<1>12. Rows(f)
  BY <1>1, <1>9, <1>10, <1>11 DEF Rows
<1>13. Bounded(f) /\ Placed(f)
  <2>1. Range(f.running) \subseteq Range(n.running)
    BY <1>6, <1>9
  <2>2. Bounded(f)
    BY <1>1, <1>9, <2>1 DEF Bounded
  <2>3. Placed(f)
    BY <1>1, <1>6, <1>9, <2>1 DEF Placed
  <2> QED BY <2>2, <2>3
<1>14. Books(f, size)
  <2>1. slots(f) \in [Reqs -> Nat] /\ Sum(slots(f)) \in Nat
    BY <1>9, <1>12, LiveIs
  <2>2. slots(f)[r] = n.branch[r]
    BY <1>2, <1>9, <1>10 DEF slots
  <2>3. \A q \in Reqs \ {r} : slots(f)[q] = slots(n)[q]
    BY <1>9, <1>10, <1>11 DEF slots
  <2>4. Sum(slots(f)) + slots(n)[r] = Sum(slots(n)) + slots(f)[r]
    <3>1. IsFiniteSet(Reqs)
      BY ReqsAssumption, Zenon
    <3>2. slots(f) \in [Reqs -> Nat]
      BY <2>1, Zenon
    <3>3. slots(n) \in [Reqs -> Nat]
      BY <1>2, Zenon
    <3>4. r \in Reqs
      BY <1>2, Zenon
    <3> QED BY <2>3, <3>1, <3>2, <3>3, <3>4, SumUpdate
  <2>5. Sum(slots(f)) + row = Sum(slots(n)) + n.branch[r]
    BY <1>8, <2>2, <2>4
  <2>6. f.avail = n.avail + row - n.branch[r]
    BY <1>9 DEF a
  <2> QED BY <1>1, <1>2, <1>3, <1>4, <1>5, <1>9, <2>1, <2>5, <2>6 DEF Books
<1>15. Good(f, size)
  BY <1>1, <1>9, <1>12, <1>13, <1>14 DEF Good
<1>16. c * RetractDecodeSteps \in Int
  BY ParametersAssumption
<1>17. Evicted(f, m)
  BY <1>7, <1>9, <1>12, <1>16, EvictFromTree
<1>18. Good(m, size)
  BY <1>15, <1>17, EvictedGood
<1>19. m.avail \in Nat /\ f.avail <= m.avail /\ Alike(f, m)
  BY <1>17, <1>18 DEF Evicted, Good, Books
<1>20. n.avail <= m.avail
  BY <1>1, <1>5, <1>9, <1>19
<1>21. Released(n, m, r)
  BY <1>6, <1>9, <1>19, <1>20 DEF Released, Alike
<1> QED BY <1>18, <1>21 DEF m

-----------------------------------------------------------------------------
(* Retraction.                                                             *)

\* One turn of the loop, the i-th, on the state m that the turns before it left.
turn(m, u, s, i) ==
    release_req(looked(m, u, s, i - 1), u, popped(s, i), Len(s) - i)

\* The loop is called on a batch with nothing finished in it.
Retracting(n, size, s) ==
    /\ Good(n, size)
    /\ NoRepeat(s) /\ Len(s) >= 1 /\ Range(s) = Range(n.running)
    /\ Range(s) \cap n.done = {}

\* After i turns, the batch is what is left of sorted_indices.
Turned(n, size, s, i, m) ==
    /\ Good(m, size)
    /\ Range(m.running) = Range(left(s, i))
    /\ n.avail <= m.avail
    /\ m.waiting = n.waiting /\ m.full = n.full /\ m.output = n.output
    /\ m.solo = n.solo /\ m.done = n.done /\ m.aborted = n.aborted

\* Eviction between two turns changes nothing of that.
LEMMA TurnedEvicted ==
    ASSUME NEW n, NEW size, NEW s, Retracting(n, size, s), NEW i \in Nat,
           NEW m, NEW e, Turned(n, size, s, i, m), Evicted(m, e)
    PROVE  Turned(n, size, s, i, e)
<1>1. Good(e, size)
  BY EvictedGood DEF Turned
<1>2. n.avail \in Nat /\ m.avail \in Nat /\ e.avail \in Nat
  BY <1>1 DEF Turned, Retracting, Good, Books
<1>3. n.avail <= m.avail /\ m.avail <= e.avail
  BY DEF Turned, Evicted
<1>4. n.avail <= e.avail
  BY <1>2, <1>3
<1> QED BY <1>1, <1>4 DEF Turned, Evicted, Alike

\* looked() evicts or leaves the rank as it is.
LEMMA LookedIs ==
    ASSUME NEW n, NEW size, NEW s, Retracting(n, size, s), NEW u, NEW i \in Nat, i <= Len(s),
           NEW m, Turned(n, size, s, i, m)
    PROVE  /\ Turned(n, size, s, i, looked(m, u, s, i))
           /\ Turned(n, size, s, i, evict_for_decode(m, u, left(s, i)))
<1>1. m \in Node /\ Rows(m)
  BY DEF Turned, Good
<1>2. left(s, i) \in Seq(Reqs)
  <2>1. NoRepeat(s)
    BY DEF Retracting
  <2>2. NoRepeat(left(s, i))
    BY <2>1, PopsAre, Zenon
  <2> QED BY <2>2 DEF NoRepeat
<1>3. new_tokens_required_next_decode(m, left(s, i)) \in Int
  <2>1. new_tokens_required_next_decode(m, left(s, i)) \in Nat
    BY <1>2, DemandIs, Zenon
  <2> QED BY <2>1
<1>4. Evicted(m, evict_for_decode(m, u, left(s, i)))
  BY <1>1, <1>3, EvictFromTree DEF evict_for_decode
<1>5. Turned(n, size, s, i, evict_for_decode(m, u, left(s, i)))
  BY <1>4, TurnedEvicted
<1> QED BY <1>5 DEF looked

\* A turn takes one request out of the batch and keeps the rank in order.
LEMMA TurnKeeps ==
    ASSUME NEW n, NEW size, NEW s, Retracting(n, size, s), NEW u,
           NEW i \in 1..(Len(s) - 1), NEW m, Turned(n, size, s, i - 1, m)
    PROVE  Turned(n, size, s, i, turn(m, u, s, i))
<1> DEFINE j == i - 1
           l == looked(m, u, s, j)
           r == popped(s, i)
           e == turn(m, u, s, i)
<1>1. /\ Len(s) \in Nat /\ NoRepeat(s) /\ j \in Nat /\ j < Len(s) /\ j <= Len(s)
      /\ j + 1 = i /\ Len(s) - i \in Nat /\ i \in Nat
  BY DEF Retracting, NoRepeat
<1>2. e = release_req(l, u, r, Len(s) - i)
  BY DEF turn
<1> HIDE DEF j, l, e
<1>3. Turned(n, size, s, j, l)
  <2>1. Turned(n, size, s, j, m)
    BY DEF j
  <2> QED BY <1>1, <2>1, LookedIs DEF l
<1>4. r \in Range(left(s, j)) /\ Range(left(s, i)) = Range(left(s, j)) \ {r}
  BY <1>1, NextPop
<1> HIDE DEF r
<1>5. Range(left(s, j)) \subseteq Range(s)
  <2> DEFINE back == [k \in 1..j |-> popped(s, k)]
  <2>1. Range(left(s, j)) \cup Range(back) = Range(s)
    BY <1>1, PopsAre
  <2> HIDE DEF back
  <2> QED BY <2>1
<1>6. Good(l, size) /\ r \in Live(l)
  BY <1>3, <1>4, <1>5 DEF Turned, Live, Retracting
<1>7. Good(e, size) /\ Released(l, e, r)
  BY <1>1, <1>2, <1>6, ReleaseKeeps
<1>8. n.avail <= e.avail
  <2>1. n.avail \in Nat /\ l.avail \in Nat /\ e.avail \in Nat
    BY <1>6, <1>7 DEF Retracting, Good, Books
  <2>2. n.avail <= l.avail /\ l.avail <= e.avail
    BY <1>3, <1>7 DEF Turned, Released
  <2> QED BY <2>1, <2>2
<1>9. Turned(n, size, s, i, e)
  BY <1>3, <1>4, <1>7, <1>8 DEF Turned, Released
<1> QED BY <1>9 DEF e

\* The rank is in order after every turn of a loop.
LEMMA LoopKeeps ==
    ASSUME NEW n, NEW size, NEW s, Retracting(n, size, s), NEW u, NEW h,
           h[0] = n,
           \A i \in 1..(Len(s) - 1) :
              Turned(n, size, s, i - 1, h[i - 1]) => h[i] = turn(h[i - 1], u, s, i)
    PROVE  \A i \in 0..(Len(s) - 1) : Turned(n, size, s, i, h[i])
<1> DEFINE T == {i \in Nat : i <= Len(s) - 1 => Turned(n, size, s, i, h[i])}
<1>0. Len(s) \in Nat /\ NoRepeat(s)
  BY DEF Retracting, NoRepeat
<1>1. 0 \in T
  <2>1. left(s, 0) = s
    BY <1>0 DEF left, NoRepeat
  <2>2. n.avail <= n.avail
    BY DEF Retracting, Good, Books
  <2>3. Turned(n, size, s, 0, n)
    BY <2>1, <2>2 DEF Turned, Retracting
  <2> QED BY <2>3
<1>2. ASSUME NEW i \in Nat, i \in T PROVE i + 1 \in T
  <2> SUFFICES ASSUME i + 1 <= Len(s) - 1 PROVE Turned(n, size, s, i + 1, h[i + 1])
    OBVIOUS
  <2> DEFINE k == i + 1
  <2>1. k \in 1..(Len(s) - 1) /\ k - 1 = i
    BY <1>0
  <2>2. Turned(n, size, s, i, h[i])
    BY <1>0, <1>2
  <2> HIDE DEF k
  <2>3. Turned(n, size, s, k - 1, h[k - 1])
    BY <2>1, <2>2
  <2>4. h[k] = turn(h[k - 1], u, s, k)
    BY <2>1, <2>3
  <2>5. Turned(n, size, s, k, turn(h[k - 1], u, s, k))
    BY <2>1, <2>3, TurnKeeps
  <2> QED BY <2>4, <2>5 DEF k
<1>3. Nat \subseteq T
  <2> HIDE DEF T
  <2> QED BY <1>1, <1>2, SetInduction
<1> QED BY <1>0, <1>3

\* The turns of the loop are defined, each from the one before it.
LEMMA AfterIs ==
    ASSUME NEW n, NEW size, NEW s, Retracting(n, size, s), NEW u
    PROVE  LET h == after_turns(n, u, s)
           IN  /\ h = [i \in 0..(Len(s) - 1) |-> IF i = 0 THEN n ELSE turn(h[i - 1], u, s, i)]
               /\ \A i \in 0..(Len(s) - 1) : Turned(n, size, s, i, h[i])
<1> DEFINE N == Len(s) - 1
           g == [i \in 1..N |-> [m \in Node |->
                    IF Turned(n, size, s, i - 1, m) THEN turn(m, u, s, i) ELSE m]]
<1>1. N \in Nat /\ n \in Node
  BY DEF Retracting, NoRepeat, Good
<1>2. ASSUME NEW i \in 1..N, NEW m \in Node
      PROVE  /\ g[i][m] \in Node
             /\ Turned(n, size, s, i - 1, m) => g[i][m] = turn(m, u, s, i)
  <2>1. g[i][m] = IF Turned(n, size, s, i - 1, m) THEN turn(m, u, s, i) ELSE m
    OBVIOUS
  <2>2. CASE Turned(n, size, s, i - 1, m)
    <3>1. Turned(n, size, s, i, turn(m, u, s, i))
      BY <2>2, TurnKeeps
    <3>2. turn(m, u, s, i) \in Node
      BY <3>1 DEF Turned, Good
    <3> HIDE DEF g
    <3> QED BY <2>1, <2>2, <3>2
  <2>3. CASE ~Turned(n, size, s, i - 1, m)
    <3> HIDE DEF g
    <3> QED BY <2>1, <2>3
  <2> QED BY <2>2, <2>3
<1>3. g \in [1..N -> [Node -> Node]]
  <2>1. \A i \in 1..N : g[i] = [m \in Node |-> g[i][m]]
    OBVIOUS
  <2>2. g = [i \in 1..N |-> g[i]]
    OBVIOUS
  <2> HIDE DEF g, N
  <2>3. \A i \in 1..N : g[i] \in [Node -> Node]
    BY <1>2, <2>1, Zenon
  <2> QED BY <2>2, <2>3
<1> HIDE DEF g
<1>4. PICK f : Follows(f, n, g, N, Node)
  <2> HIDE DEF N
  <2>1. N \in Nat
    BY <1>1
  <2>2. n \in Node
    BY <1>1
  <2>3. g \in Steps(N, Node)
    BY <1>3, Zenon DEF Steps
  <2> QED BY <2>1, <2>2, <2>3, Recursion, Zenon
<1>5. \A i \in 1..N : f[i - 1] \in Node
  <2>1. \A i \in 1..N : i - 1 \in 0..N
    BY <1>1
  <2>2. f \in [0..N -> Node]
    BY <1>4 DEF Follows
  <2> HIDE DEF N
  <2> QED BY <2>1, <2>2
<1>6. \A i \in 1..N : Turned(n, size, s, i - 1, f[i - 1]) => f[i] = turn(f[i - 1], u, s, i)
  <2> HIDE DEF N
  <2>1. \A i \in 1..N : f[i] = g[i][f[i - 1]]
    BY <1>4, Zenon DEF Follows
  <2> QED BY <1>2, <1>5, <2>1
<1>7. \A i \in 0..N : Turned(n, size, s, i, f[i])
  <2>1. f[0] = n
    BY <1>4, Zenon DEF Follows
  <2> QED BY <1>6, <2>1, LoopKeeps, Zenon
<1>8. \A i \in 1..N : i - 1 \in 0..N
  BY <1>1
<1>9. \A i \in 1..N : f[i] = turn(f[i - 1], u, s, i)
  <2> HIDE DEF N
  <2> QED BY <1>6, <1>7, <1>8
<1>10. f = [i \in 0..N |-> IF i = 0 THEN n ELSE turn(f[i - 1], u, s, i)]
  <2>1. \A i \in 0..N : i # 0 => i \in 1..N
    BY <1>1
  <2> HIDE DEF N
  <2>2. \A i \in 0..N : f[i] = IF i = 0 THEN n ELSE turn(f[i - 1], u, s, i)
    BY <1>4, <1>9, <2>1 DEF Follows
  <2>3. f \in [0..N -> Node]
    BY <1>4, Zenon DEF Follows
  <2> QED BY <2>2, <2>3
<1> DEFINE h == after_turns(n, u, s)
<1>11. h = CHOOSE e : e = [i \in 0..N |-> IF i = 0 THEN n ELSE turn(e[i - 1], u, s, i)]
  BY DEF after_turns, turn
<1>12. h = [i \in 0..N |-> IF i = 0 THEN n ELSE turn(h[i - 1], u, s, i)]
  <2> HIDE DEF N, h
  <2> QED BY <1>10, <1>11, Zenon
<1> HIDE DEF h
<1>13. h[0] = n /\ \A i \in 1..N : h[i] = turn(h[i - 1], u, s, i)
  <2>1. 0 \in 0..N /\ \A i \in 1..N : i \in 0..N /\ i # 0
    BY <1>1
  <2> HIDE DEF N
  <2> QED BY <1>12, <2>1, Zenon
<1>14. \A i \in 0..N : Turned(n, size, s, i, h[i])
  BY <1>13, LoopKeeps, Zenon
<1> QED BY <1>12, <1>14 DEF h

\* The demand of a list of requests depends on their output only.
LEMMA SameDemand ==
    ASSUME NEW n, NEW m, m.output = n.output, NEW s
    PROVE  new_tokens_required_next_decode(m, s) = new_tokens_required_next_decode(n, s)
BY DEF new_tokens_required_next_decode, kv_committed_len, fill_len

\* Where the loop ends: after i turns, with one request left or with what is left
\* fitting the group's floor.
Looped(n, size, u, s, i, l) ==
    /\ Turned(n, size, s, i, l.node)
    /\ l.sorted = left(s, i)
    /\ l.retracted = [j \in 1..i |-> popped(s, j)]
    /\ Len(s) - i = 1 \/ check_decode_mem(l.node, u, l.sorted)

\* The loop of retract_decode() stops so, after one of its turns.
LEMMA LoopIs ==
    ASSUME NEW n, NEW size, NEW s, Retracting(n, size, s), NEW u
    PROVE  \E i \in 0..(Len(s) - 1) : Looped(n, size, u, s, i, retract_loop(n, u, s))
<1> DEFINE N == Len(s) - 1
           h == after_turns(n, u, s)
           Ends == {i \in 0..N : \/ Len(s) - i = 1
                                 \/ i > 0 /\ check_decode_mem(h[i], u, left(s, i))}
           t == Min(Ends)
           l == retract_loop(n, u, s)
<1>1. N \in Nat /\ Len(s) \in Nat
  BY DEF Retracting, NoRepeat
<1>2. \A i \in 0..N : Turned(n, size, s, i, h[i])
  BY AfterIs
<1>3. l = [node |-> looked(h[t], u, s, t), sorted |-> left(s, t),
           retracted |-> [i \in 1..t |-> popped(s, i)]]
  BY DEF retract_loop
<1> HIDE DEF h, l
<1>4. N \in Ends /\ Ends \in SUBSET Nat
  BY <1>1
<1>5. t \in Ends
  <2> HIDE DEF Ends
  <2> QED BY <1>4, MinIs
<1>6. /\ t \in 0..N /\ t \in Nat /\ t <= Len(s)
      /\ Len(s) - t = 1 \/ check_decode_mem(h[t], u, left(s, t))
  <2> HIDE DEF t
  <2> QED BY <1>1, <1>5
<1> HIDE DEF t
<1>7. /\ l.node = looked(h[t], u, s, t) /\ l.sorted = left(s, t)
      /\ l.retracted = [i \in 1..t |-> popped(s, i)]
  BY <1>3
<1>8. Turned(n, size, s, t, h[t])
  <2> HIDE DEF N
  <2> QED BY <1>2, <1>6
<1>9. Turned(n, size, s, t, l.node)
  BY <1>6, <1>7, <1>8, LookedIs
<1>10. h[t].output = l.node.output
  BY <1>8, <1>9 DEF Turned
<1>11. check_decode_mem(h[t], u, left(s, t)) <=> check_decode_mem(l.node, u, left(s, t))
  <2>1. new_tokens_required_next_decode(h[t], left(s, t))
            = new_tokens_required_next_decode(l.node, left(s, t))
    BY <1>10, SameDemand
  <2> QED BY <2>1 DEF check_decode_mem, decode_mem_avail
<1>12. Looped(n, size, u, s, t, l)
  BY <1>6, <1>7, <1>9, <1>11 DEF Looped
<1> QED BY <1>6, <1>12 DEF l

\* What leaves the tokens and the live requests alone keeps a rank in order.
LEMMA SameGood ==
    ASSUME NEW n, NEW size, Good(n, size), NEW m \in Node, ~m.oom,
           m.avail = n.avail, m.branch = n.branch, m.output = n.output, m.done = n.done,
           Live(m) = Live(n), Range(m.running) \subseteq Range(n.running), Placed(m)
    PROVE  Good(m, size)
<1>1. /\ n \in Node /\ Rows(n) /\ Bounded(n)
      /\ n.avail \in Nat /\ n.avail + Sum(slots(n)) = size
  BY DEF Good, Books
<1>2. \A r : kv_committed_len(m, r) = kv_committed_len(n, r)
  BY DEF kv_committed_len, fill_len
<1>3. Rows(m)
  BY <1>1, <1>2 DEF Rows
<1>4. Bounded(m)
  BY <1>1 DEF Bounded
<1>5. slots(m) = slots(n)
  BY <1>2 DEF slots
<1>6. Books(m, size)
  BY <1>1, <1>5 DEF Books
<1> QED BY <1>3, <1>4, <1>6 DEF Good

\* Requests that are nowhere else join the queue.
LEMMA QueueKeeps ==
    ASSUME NEW n, NEW size, Good(n, size), NEW q, NoRepeat(q),
           Range(q) \cap (Range(n.running) \cup Range(n.waiting)
                            \cup n.done \cup n.aborted) = {}
    PROVE  LET m == add_requests_to_queue(n, q)
           IN  /\ Good(m, size) /\ m.running = n.running /\ m.full = n.full
               /\ m.output = n.output /\ m.solo = n.solo /\ m.done = n.done
               /\ m.aborted = n.aborted /\ m.avail = n.avail
               /\ Range(m.waiting) = Range(n.waiting) \cup Range(q)
<1> DEFINE w == n.waiting \o q
           m == add_requests_to_queue(n, q)
<1>1. n \in Node /\ ~n.oom /\ Placed(n)
  BY DEF Good
<1>2. n.waiting \in Seq(Reqs) /\ q \in Seq(Reqs) /\ IsInjective(n.waiting) /\ IsInjective(q)
  BY <1>1 DEF Placed, NoRepeat
<1>3. Range(n.waiting) \cap Range(q) = {}
  OBVIOUS
<1>4. w \in Seq(Reqs) /\ Range(w) = Range(n.waiting) \cup Range(q) /\ IsInjective(w)
  BY <1>2, <1>3, ConcatInjective
<1>5. m = [n EXCEPT !.waiting = w]
  BY DEF add_requests_to_queue
<1> HIDE DEF w, m
<1>6. /\ m \in Node /\ m.waiting = w /\ m.running = n.running /\ m.full = n.full
      /\ m.output = n.output /\ m.solo = n.solo /\ m.done = n.done
      /\ m.aborted = n.aborted /\ m.avail = n.avail /\ m.branch = n.branch /\ m.oom = n.oom
  BY <1>1, <1>4, <1>5, Zenon DEF Node
<1>7. Placed(m)
  BY <1>1, <1>4, <1>6 DEF Placed, NoRepeat
<1>8. Live(m) = Live(n) /\ Range(m.running) \subseteq Range(n.running)
  BY <1>6 DEF Live
<1>9. Good(m, size)
  BY <1>1, <1>6, <1>7, <1>8, SameGood
<1> QED BY <1>4, <1>6, <1>9 DEF m

\* The requests a rank has seen.
Known(n) == Range(n.waiting) \cup Range(n.running) \cup n.done \cup n.aborted

\* What retract_decode() leaves: a batch that fits the group's floor, or none.
Retracted(n, m, u) ==
    /\ n.avail <= m.avail
    /\ m.output = n.output /\ m.done = n.done
    /\ Range(m.running) \subseteq Range(n.running)
    /\ Known(m) \subseteq Known(n)
    /\ m.running = <<>> \/ check_decode_mem(m, u, m.running)

\* The loop's survivors go on, and its victims are queued.
LEMMA SurvivorsGoOn ==
    ASSUME NEW n, NEW size, NEW s, Retracting(n, size, s), NEW u,
           NEW i \in 0..(Len(s) - 1), NEW m, Turned(n, size, s, i, m),
           check_decode_mem(m, u, left(s, i))
    PROVE  LET e == add_requests_to_queue([m EXCEPT !.running = left(s, i)],
                                          [j \in 1..i |-> popped(s, j)])
           IN  Good(e, size) /\ Retracted(n, e, u)
<1> DEFINE t == left(s, i)
           back == [j \in 1..i |-> popped(s, j)]
           p == [m EXCEPT !.running = t]
           e == add_requests_to_queue(p, back)
<1>1. NoRepeat(s) /\ Len(s) \in Nat /\ i \in Nat /\ i <= Len(s)
  BY DEF Retracting, NoRepeat
<1>2. /\ NoRepeat(t) /\ NoRepeat(back)
      /\ Range(t) \cap Range(back) = {} /\ Range(t) \cup Range(back) = Range(s)
  BY <1>1, PopsAre
<1>3. /\ Good(m, size) /\ Range(m.running) = Range(t)
      /\ n.avail <= m.avail /\ m.waiting = n.waiting
      /\ m.output = n.output /\ m.done = n.done /\ m.aborted = n.aborted
  BY DEF Turned
<1>4. m \in Node /\ ~m.oom /\ Placed(m)
  BY <1>3 DEF Good
<1> HIDE DEF t, back
<1>5. /\ p \in Node /\ p.running = t /\ p.avail = m.avail /\ p.branch = m.branch
      /\ p.waiting = m.waiting /\ p.output = m.output /\ p.done = m.done
      /\ p.aborted = m.aborted /\ p.oom = m.oom
  BY <1>2, <1>4, Zenon DEF Node, NoRepeat
<1> HIDE DEF p
<1>6. Placed(p)
  BY <1>2, <1>3, <1>4, <1>5 DEF Placed
<1>7. Live(p) = Live(m) /\ Range(p.running) \subseteq Range(m.running)
  BY <1>3, <1>5 DEF Live
<1>8. Good(p, size)
  BY <1>3, <1>4, <1>5, <1>6, <1>7, SameGood
<1>9. Range(s) = Range(n.running) /\ Range(s) \cap n.done = {} /\ Placed(n)
  BY DEF Retracting, Good
<1>10. Range(back) \cap (Range(p.running) \cup Range(p.waiting)
                           \cup p.done \cup p.aborted) = {}
  BY <1>2, <1>3, <1>5, <1>9 DEF Placed
<1>11. /\ Good(e, size) /\ e.running = p.running /\ e.output = p.output
       /\ e.done = p.done /\ e.aborted = p.aborted /\ e.avail = p.avail
       /\ Range(e.waiting) = Range(p.waiting) \cup Range(back)
  BY <1>2, <1>8, <1>10, QueueKeeps
<1> HIDE DEF e
<1>12. Known(e) \subseteq Known(n) /\ Range(e.running) \subseteq Range(n.running)
  BY <1>2, <1>3, <1>5, <1>9, <1>11 DEF Known
<1>13. check_decode_mem(e, u, e.running)
  <2>1. e.output = m.output /\ e.running = t
    BY <1>5, <1>11
  <2>2. new_tokens_required_next_decode(e, t) = new_tokens_required_next_decode(m, t)
    BY <2>1, SameDemand
  <2> QED BY <2>1, <2>2 DEF check_decode_mem, decode_mem_avail, t
<1>14. n.avail <= e.avail /\ e.output = n.output /\ e.done = n.done
  BY <1>3, <1>5, <1>11
<1>15. Retracted(n, e, u)
  BY <1>12, <1>13, <1>14 DEF Retracted
<1> QED BY <1>11, <1>15 DEF e, p, t, back

\* The last survivor is retracted too: it is queued with the others, or aborted.
LEMMA SurvivorLeaves ==
    ASSUME NEW n, NEW size, NEW s, Retracting(n, size, s), NEW u,
           NEW i \in 0..(Len(s) - 1), Len(s) - i = 1, NEW m, Turned(n, size, s, i, m)
    PROVE  LET last == Head(left(s, i))
               back == [j \in 1..i |-> popped(s, j)]
               e == release_req([m EXCEPT !.solo[last] = @ + 1], u, last, 0)
               q == add_requests_to_queue(e, Append(back, last))
               a == add_requests_to_queue([e EXCEPT !.aborted = @ \cup {last}], back)
           IN  /\ e.solo[last] \in Nat
               /\ Good(q, size) /\ Retracted(n, q, u)
               /\ Good(a, size) /\ Retracted(n, a, u)
<1> DEFINE t == left(s, i)
           last == Head(t)
           back == [j \in 1..i |-> popped(s, j)]
           c == [m.solo EXCEPT ![last] = @ + 1]
           p == [m EXCEPT !.solo = c]
           e == release_req(p, u, last, 0)
           both == Append(back, last)
           q == add_requests_to_queue(e, both)
           f == [e EXCEPT !.aborted = e.aborted \cup {last}]
           a == add_requests_to_queue(f, back)
<1>1. NoRepeat(s) /\ Len(s) \in Nat /\ i \in Nat /\ i <= Len(s)
  BY DEF Retracting, NoRepeat
<1>2. /\ NoRepeat(t) /\ Len(t) = 1 /\ NoRepeat(back)
      /\ Range(t) \cap Range(back) = {} /\ Range(t) \cup Range(back) = Range(s)
  BY <1>1, PopsAre, Zenon
<1> HIDE DEF t, back
<1>3. last \in Reqs /\ Range(t) = {last}
  <2>1. t \in Seq(Reqs) /\ DOMAIN t = {1} /\ last = t[1]
    BY <1>2 DEF NoRepeat
  <2> HIDE DEF last
  <2>2. \A x : x \in Range(t) <=> x = last
    BY <2>1, Zenon DEF Range
  <2> QED BY <2>1, <2>2
<1> HIDE DEF last
<1>4. /\ Good(m, size) /\ Range(m.running) = {last}
      /\ n.avail <= m.avail /\ m.waiting = n.waiting
      /\ m.output = n.output /\ m.done = n.done /\ m.aborted = n.aborted
  BY <1>3 DEF Turned, t
<1>5. m \in Node /\ ~m.oom /\ Placed(m)
  BY <1>4 DEF Good
<1>6. c \in [Reqs -> Nat]
  BY <1>3, <1>5 DEF Node
<1> HIDE DEF c
<1>7. /\ p \in Node /\ p.solo = c /\ p.running = m.running /\ p.avail = m.avail
      /\ p.branch = m.branch /\ p.waiting = m.waiting /\ p.output = m.output
      /\ p.done = m.done /\ p.aborted = m.aborted /\ p.oom = m.oom
  BY <1>5, <1>6, Zenon DEF Node
<1>8. Good(p, size)
  <2> HIDE DEF p
  <2>1. Placed(p)
    BY <1>5, <1>7 DEF Placed
  <2>2. Live(p) = Live(m) /\ Range(p.running) \subseteq Range(m.running)
    BY <1>7 DEF Live
  <2> QED BY <1>4, <1>5, <1>7, <2>1, <2>2, SameGood
<1>9. p = [m EXCEPT !.solo[last] = @ + 1]
  BY DEF c
<1> HIDE DEF p
<1>10. Range(s) = Range(n.running) /\ Range(s) \cap n.done = {} /\ Placed(n)
  BY DEF Retracting, Good
<1>11. last \in Live(p)
  BY <1>2, <1>3, <1>4, <1>7, <1>10 DEF Live
<1>12. Good(e, size) /\ Released(p, e, last)
  BY <1>8, <1>11, ReleaseKeeps
<1> HIDE DEF e
<1>13. /\ Range(e.running) = {} /\ e.waiting = n.waiting /\ e.output = n.output
       /\ e.done = n.done /\ e.aborted = n.aborted /\ e.solo = c
  BY <1>4, <1>7, <1>12 DEF Released
<1>14. n.avail <= e.avail
  <2>1. n.avail \in Nat /\ m.avail \in Nat /\ e.avail \in Nat
    BY <1>4, <1>12 DEF Retracting, Good, Books
  <2>2. m.avail <= e.avail
    BY <1>7, <1>12 DEF Released
  <2> QED BY <1>4, <2>1, <2>2
<1>15. e \in Node /\ ~e.oom /\ Placed(e)
  BY <1>12 DEF Good
<1>16. e.running = <<>>
  <2>1. e.running \in Seq(Reqs)
    BY <1>15 DEF Node
  <2> QED BY <1>13, <2>1, NoneListed
<1>17. e.solo[last] \in Nat
  BY <1>3, <1>6, <1>13
<1>18. Good(q, size) /\ Retracted(n, q, u)
  <2>1. NoRepeat(both) /\ Range(both) = Range(back) \cup {last}
    <3> DEFINE one == <<last>>
    <3>1. one \in Seq(Reqs) /\ IsInjective(one) /\ Range(one) = {last}
      BY <1>3 DEF IsInjective, Range
    <3>2. back \in Seq(Reqs) /\ IsInjective(back) /\ Range(back) \cap {last} = {}
      BY <1>2, <1>3 DEF NoRepeat
    <3>3. both = back \o one
      BY <3>2
    <3> HIDE DEF one, both
    <3> QED BY <3>1, <3>2, <3>3, ConcatInjective DEF NoRepeat
  <2> HIDE DEF both
  <2>2. Range(both) \cap (Range(e.running) \cup Range(e.waiting)
                            \cup e.done \cup e.aborted) = {}
    BY <1>2, <1>3, <1>10, <1>13, <2>1 DEF Placed
  <2>3. /\ Good(q, size) /\ q.running = e.running /\ q.output = e.output
        /\ q.done = e.done /\ q.aborted = e.aborted /\ q.avail = e.avail
        /\ Range(q.waiting) = Range(e.waiting) \cup Range(both)
    BY <1>12, <2>1, <2>2, QueueKeeps
  <2> HIDE DEF q
  <2>4. Known(q) \subseteq Known(n)
    BY <1>2, <1>3, <1>10, <1>13, <2>1, <2>3 DEF Known
  <2> QED BY <1>13, <1>14, <1>16, <2>3, <2>4 DEF Retracted
<1>19. Good(a, size) /\ Retracted(n, a, u)
  <2>1. e.aborted \cup {last} \in SUBSET Reqs
    BY <1>3, <1>15 DEF Node
  <2>2. /\ f \in Node /\ f.aborted = e.aborted \cup {last} /\ f.running = e.running
        /\ f.avail = e.avail /\ f.branch = e.branch /\ f.waiting = e.waiting
        /\ f.output = e.output /\ f.done = e.done /\ f.oom = e.oom
    BY <1>15, <2>1, Zenon DEF Node
  <2> HIDE DEF f
  <2>3. Placed(f)
    BY <1>2, <1>3, <1>10, <1>13, <1>15, <2>2 DEF Placed
  <2>4. Live(f) = Live(e) /\ Range(f.running) \subseteq Range(e.running)
    BY <2>2 DEF Live
  <2>5. Good(f, size)
    BY <1>12, <1>15, <2>2, <2>3, <2>4, SameGood
  <2>6. Range(back) \cap (Range(f.running) \cup Range(f.waiting)
                            \cup f.done \cup f.aborted) = {}
    BY <1>2, <1>3, <1>10, <1>13, <2>2 DEF Placed
  <2>7. /\ Good(a, size) /\ a.running = f.running /\ a.output = f.output
        /\ a.done = f.done /\ a.aborted = f.aborted /\ a.avail = f.avail
        /\ Range(a.waiting) = Range(f.waiting) \cup Range(back)
    BY <1>2, <2>5, <2>6, QueueKeeps
  <2> HIDE DEF a
  <2>8. Known(a) \subseteq Known(n)
    BY <1>2, <1>3, <1>10, <1>13, <2>2, <2>7 DEF Known
  <2> QED BY <1>13, <1>14, <1>16, <2>2, <2>7, <2>8, Zenon DEF Retracted
<1> QED BY <1>9, <1>17, <1>18, <1>19, Zenon DEF a, f, q, both, e, last, back, t

\* retract_decode() keeps a rank in order, and leaves a batch that fits or none.
LEMMA RetractKeeps ==
    ASSUME NEW n, NEW size, Good(n, size), n.running # <<>>,
           Range(n.running) \cap n.done = {}, NEW u
    PROVE  Good(retract_decode(n, u), size) /\ Retracted(n, retract_decode(n, u), u)
<1> DEFINE s == get_decode_retraction_order(n)
           l == retract_loop(n, u, s)
<1>1. NoRepeat(n.running) /\ n.output \in [Reqs -> Nat]
  BY DEF Good, Placed, Node
<1>2. NoRepeat(s) /\ Range(s) = Range(n.running) /\ Len(s) = Len(n.running)
  BY <1>1, RetractionOrderIs
<1>3. Len(s) \in Nat /\ Len(s) >= 1
  BY <1>1, <1>2 DEF NoRepeat
<1> HIDE DEF s
<1>4. Retracting(n, size, s)
  BY <1>2, <1>3 DEF Retracting
<1>5. PICK i \in 0..(Len(s) - 1) : Looped(n, size, u, s, i, l)
  BY <1>4, LoopIs
<1>6. i \in Nat /\ i <= Len(s) /\ Len(s) - i \in Nat
  BY <1>3
<1> DEFINE t == left(s, i)
           back == [j \in 1..i |-> popped(s, j)]
<1>7. Len(t) = Len(s) - i
  BY <1>2, <1>6, PopsAre, Zenon
<1>8. /\ l.sorted = t /\ l.retracted = back /\ Turned(n, size, s, i, l.node)
      /\ Len(s) - i = 1 \/ check_decode_mem(l.node, u, t)
  BY <1>5 DEF Looped
<1> DEFINE m == IF Len(t) <= 1 THEN evict_for_decode(l.node, u, t) ELSE l.node
           solo_oom == Len(t) <= 1 /\ ~check_decode_mem(l.node, u, t)
           last == Head(t)
           e == release_req([m EXCEPT !.solo[last] = @ + 1], u, last, 0)
           kept == add_requests_to_queue([m EXCEPT !.running = t], back)
           queued == add_requests_to_queue(e, Append(back, last))
           failed == add_requests_to_queue([e EXCEPT !.aborted = @ \cup {last}], back)
<1>9. retract_decode(n, u) =
         CASE ~solo_oom -> kept
           [] solo_oom /\ e.solo[last] <= SoloOOMMaxRetries -> queued
           [] solo_oom /\ e.solo[last] > SoloOOMMaxRetries -> failed
  <2> HIDE DEF l
  <2>1. /\ l.sorted = t /\ l.retracted = back
    BY <1>8
  <2> QED BY <2>1 DEF retract_decode, after_loop, l, s
<1>10. Turned(n, size, s, i, m)
  BY <1>4, <1>6, <1>8, LookedIs
<1>11. check_decode_mem(m, u, t) <=> check_decode_mem(l.node, u, t)
  <2> HIDE DEF m, t
  <2>1. m.output = l.node.output
    BY <1>8, <1>10 DEF Turned
  <2>2. new_tokens_required_next_decode(m, t) = new_tokens_required_next_decode(l.node, t)
    BY <2>1, SameDemand
  <2> QED BY <2>2 DEF check_decode_mem, decode_mem_avail
<1>12. CASE ~solo_oom
  <2>1. check_decode_mem(m, u, t)
    <3> HIDE DEF m, t
    <3> QED BY <1>6, <1>7, <1>8, <1>11, <1>12
  <2>2. retract_decode(n, u) = kept
    <3> HIDE DEF kept, queued, failed, e, m
    <3> QED BY <1>9, <1>12
  <2> HIDE DEF m
  <2>3. Good(kept, size) /\ Retracted(n, kept, u)
    BY <1>4, <1>10, <2>1, SurvivorsGoOn
  <2> QED BY <2>2, <2>3
<1>13. CASE solo_oom
  <2>1. Len(s) - i = 1
    BY <1>3, <1>6, <1>7, <1>13
  <2> HIDE DEF m
  <2>2. /\ e.solo[last] \in Nat
        /\ Good(queued, size) /\ Retracted(n, queued, u)
        /\ Good(failed, size) /\ Retracted(n, failed, u)
    BY <1>4, <1>10, <2>1, SurvivorLeaves, Zenon
  <2> HIDE DEF solo_oom, kept, queued, failed, e
  <2>3. SoloOOMMaxRetries \in Nat
    BY ParametersAssumption
  <2>4. CASE e.solo[last] <= SoloOOMMaxRetries
    <3>1. retract_decode(n, u) = queued
      BY <1>9, <1>13, <2>2, <2>3, <2>4
    <3> QED BY <2>2, <3>1
  <2>5. CASE e.solo[last] > SoloOOMMaxRetries
    <3>1. retract_decode(n, u) = failed
      BY <1>9, <1>13, <2>2, <2>3, <2>5
    <3> QED BY <2>2, <3>1
  <2> QED BY <2>2, <2>3, <2>4, <2>5
<1> QED BY <1>12, <1>13

-----------------------------------------------------------------------------
(* The results of a forward pass.                                          *)

\* The slots of each request when those of a batch have the slots for one more token.
charged(n, reqs) ==
    [r \in Reqs |-> IF r \in reqs THEN ceil_align(fill_len(n, r)) ELSE slots(n)[r]]

\* The requests of a batch that finish on its results.
Finishing(n, reqs, eos) == {r \in reqs : r \in eos \/ n.output[r] + 1 >= max_new_tokens}

\* The slots of a request's last, partial page.
tails(n, F) == [r \in F |-> ceil_align(fill_len(n, r)) - floor_align(fill_len(n, r))]

\* The fields process_batch_result() writes.
Resulted(n, reqs, F, m) ==
    /\ m \in Node
    /\ m.output = [r \in Reqs |-> n.output[r] + (IF r \in reqs THEN 1 ELSE 0)]
    /\ m.branch = [r \in Reqs |-> IF r \in F THEN floor_align(fill_len(n, r))
                                             ELSE n.branch[r]]
    /\ m.avail = n.avail + Sum(tails(n, F))
    /\ m.done = n.done \cup F
    /\ m.running = n.running /\ m.waiting = n.waiting /\ m.full = n.full
    /\ m.solo = n.solo /\ m.aborted = n.aborted /\ m.oom = n.oom
    /\ tails(n, F) \in [F -> Nat] /\ Sum(tails(n, F)) \in Nat /\ F \in SUBSET Reqs
    /\ \A r \in Reqs : fill_len(n, r) \in Nat

\* process_batch_result() writes those fields, and no more.
LEMMA ResultIs ==
    ASSUME NEW n \in Node, NEW reqs \in SUBSET Reqs, NEW eos
    PROVE  Resulted(n, reqs, Finishing(n, reqs, eos), process_batch_result(n, reqs, eos))
<1> DEFINE m == process_batch_result(n, reqs, eos)
           F == Finishing(n, reqs, eos)
           o == [r \in Reqs |-> n.output[r] + (IF r \in reqs THEN 1 ELSE 0)]
           p == [n EXCEPT !.output = o]
           tail == [r \in F |-> ceil_align(fill_len(n, r)) - floor_align(fill_len(n, r))]
           b == [r \in Reqs |-> IF r \in F THEN floor_align(fill_len(n, r)) ELSE n.branch[r]]
           d == n.done \cup F
<1>1. /\ n.output \in [Reqs -> Nat] /\ n.branch \in [Reqs -> Nat] /\ n.avail \in Int
      /\ n.done \in SUBSET Reqs
  BY DEF Node
<1>2. \A r \in Reqs : n.output[r] \in Nat /\ Origin[r] \in Nat
  BY <1>1, ReqsAssumption
<1>3. \A r \in Reqs : fill_len(n, r) \in Nat
  BY <1>2 DEF fill_len
<1>4. F \in SUBSET Reqs /\ F \subseteq reqs
  BY DEF Finishing
<1>5. \A r \in Reqs : /\ floor_align(fill_len(n, r)) \in Nat
                      /\ ceil_align(fill_len(n, r)) - floor_align(fill_len(n, r)) \in Nat
  <2> SUFFICES ASSUME NEW r \in Reqs
               PROVE  /\ floor_align(fill_len(n, r)) \in Nat
                      /\ ceil_align(fill_len(n, r)) - floor_align(fill_len(n, r)) \in Nat
    OBVIOUS
  <2> DEFINE x == fill_len(n, r)
  <2>1. x \in Nat
    BY <1>3
  <2> HIDE DEF x
  <2>2. /\ floor_align(x) \in Nat /\ ceil_align(x) \in Nat
        /\ floor_align(x) <= x /\ x <= ceil_align(x)
    BY <2>1, Pages
  <2>3. ceil_align(x) - floor_align(x) \in Nat
    BY <2>1, <2>2
  <2> QED BY <2>2, <2>3 DEF x
<1>6. o \in [Reqs -> Nat] /\ \A r \in reqs : o[r] = n.output[r] + 1
  BY <1>2
<1>7. tail \in [F -> Nat] /\ b \in [Reqs -> Nat] /\ d \in SUBSET Reqs
  <2> HIDE DEF F
  <2>1. tail \in [F -> Nat]
    BY <1>4, <1>5
  <2>2. b \in [Reqs -> Nat]
    BY <1>1, <1>4, <1>5
  <2> QED BY <1>1, <1>4, <2>1, <2>2
<1>8. Sum(tail) \in Nat
  <2>1. IsFiniteSet(F)
    BY <1>4, ReqsAssumption, FS_Subset
  <2> HIDE DEF tail, F
  <2> QED BY <1>7, <2>1, SumType
<1> HIDE DEF o
<1>9. p.output = o /\ p.branch = n.branch /\ p.done = n.done /\ p.avail = n.avail
  BY DEF Node
<1>10. {r \in reqs : r \in eos \/ p.output[r] >= max_new_tokens} = F
  BY <1>6, <1>9 DEF Finishing
<1>11. \A r \in F : kv_committed_len(p, r) = fill_len(n, r)
  <2> SUFFICES ASSUME NEW r \in reqs, r \in Reqs
               PROVE  kv_committed_len(p, r) = fill_len(n, r)
    BY <1>4
  <2> HIDE DEF p
  <2> QED BY <1>2, <1>6, <1>9 DEF kv_committed_len, fill_len
<1>12. m = release_finished(p, F)
  <2>1. m = release_finished(p, {r \in reqs : r \in eos \/ p.output[r] >= max_new_tokens})
    BY DEF process_batch_result, o
  <2> QED BY <1>10, <2>1
<1> HIDE DEF F, m
<1>13. m = [p EXCEPT !.avail = n.avail + Sum(tail), !.branch = b, !.done = d]
  <2>1. tail = [r \in F |-> ceil_align(kv_committed_len(p, r)) - floor_align(kv_committed_len(p, r))]
    BY <1>11
  <2>2. b = [r \in Reqs |-> IF r \in F THEN floor_align(kv_committed_len(p, r)) ELSE n.branch[r]]
    BY <1>11
  <2> HIDE DEF tail, b, p
  <2> QED BY <1>9, <1>12, <2>1, <2>2 DEF release_finished
<1> HIDE DEF tail, b, d
<1>14. m = [n EXCEPT !.output = o, !.avail = n.avail + Sum(tail), !.branch = b, !.done = d]
  BY <1>13
<1>15. n.avail + Sum(tail) \in Int
  BY <1>1, <1>8
<1>16. /\ m \in Node /\ m.output = o /\ m.avail = n.avail + Sum(tail) /\ m.branch = b
       /\ m.done = d /\ m.running = n.running /\ m.waiting = n.waiting /\ m.full = n.full
       /\ m.solo = n.solo /\ m.aborted = n.aborted /\ m.oom = n.oom
  <2> DEFINE a == n.avail + Sum(tail)
  <2>1. a \in Int /\ m = [n EXCEPT !.output = o, !.avail = a, !.branch = b, !.done = d]
    BY <1>14, <1>15
  <2> HIDE DEF a
  <2>2. /\ m \in Node /\ m.output = o /\ m.avail = a /\ m.branch = b
        /\ m.done = d /\ m.running = n.running /\ m.waiting = n.waiting /\ m.full = n.full
        /\ m.solo = n.solo /\ m.aborted = n.aborted /\ m.oom = n.oom
    BY <1>6, <1>7, <2>1, Zenon DEF Node
  <2> QED BY <2>2 DEF a
<1> QED BY <1>3, <1>4, <1>7, <1>8, <1>16, Zenon DEF Resulted, tails, m, F, o, tail, b, d

\* Results for requests that have their slots keep the books, and the rows.
LEMMA ResultKeeps ==
    ASSUME NEW n \in Node, NEW size, NEW reqs \in SUBSET Live(n), NEW eos,
           Placed(n), n.avail \in Nat, n.avail + Sum(charged(n, reqs)) = size,
           \A r \in Live(n) \ reqs : /\ 1 <= n.output[r] /\ n.output[r] < max_new_tokens
                                     /\ n.branch[r] <= kv_committed_len(n, r),
           \A r \in reqs : n.branch[r] <= fill_len(n, r)
    PROVE  LET m == process_batch_result(n, reqs, eos)
           IN  Rows(m) /\ Placed(m) /\ Books(m, size)
<1> DEFINE m == process_batch_result(n, reqs, eos)
           F == Finishing(n, reqs, eos)
           tail == tails(n, F)
           c == charged(n, reqs)
           free == [r \in Reqs |-> IF r \in F THEN tail[r] ELSE 0]
<1>1. Live(n) \subseteq Reqs /\ reqs \in SUBSET Reqs
  <2>1. n.running \in Seq(Reqs)
    BY DEF Node
  <2>2. Range(n.running) \subseteq Reqs
    BY <2>1 DEF Range
  <2> QED BY <2>2 DEF Live
<1>2. /\ m \in Node
      /\ m.output = [r \in Reqs |-> n.output[r] + (IF r \in reqs THEN 1 ELSE 0)]
      /\ m.branch = [r \in Reqs |-> IF r \in F THEN floor_align(fill_len(n, r))
                                               ELSE n.branch[r]]
      /\ m.avail = n.avail + Sum(tail)
      /\ m.done = n.done \cup F
      /\ m.running = n.running /\ m.waiting = n.waiting /\ m.aborted = n.aborted
      /\ tail \in [F -> Nat] /\ Sum(tail) \in Nat /\ F \in SUBSET Reqs
      /\ \A r \in Reqs : fill_len(n, r) \in Nat
  <2>1. Resulted(n, reqs, F, m)
    BY <1>1, ResultIs, Zenon
  <2> QED BY <2>1 DEF Resulted
<1> HIDE DEF m
<1>3. /\ n.output \in [Reqs -> Nat] /\ n.branch \in [Reqs -> Nat]
      /\ \A r \in Reqs : n.output[r] \in Nat /\ Origin[r] \in Nat /\ n.branch[r] \in Nat
  BY ReqsAssumption DEF Node
<1>4. max_new_tokens \in Nat
  BY ParametersAssumption
<1>5. F \subseteq reqs /\ \A r \in reqs \ F : n.output[r] + 1 < max_new_tokens
  BY <1>1, <1>3, <1>4 DEF Finishing
<1>6. Live(m) = Live(n) \ F
  BY <1>2 DEF Live
<1>7. \A r \in Reqs : r \in reqs \ F =>
          /\ m.output[r] = n.output[r] + 1 /\ m.branch[r] = n.branch[r]
          /\ kv_committed_len(m, r) = fill_len(n, r)
  <2> HIDE DEF F
  <2> SUFFICES ASSUME NEW r \in Reqs, r \in reqs \ F
               PROVE  /\ m.output[r] = n.output[r] + 1 /\ m.branch[r] = n.branch[r]
                      /\ kv_committed_len(m, r) = fill_len(n, r)
    OBVIOUS
  <2>1. m.output[r] = n.output[r] + 1 /\ m.branch[r] = n.branch[r]
    BY <1>2
  <2> QED BY <1>3, <2>1 DEF kv_committed_len, fill_len
<1>8. \A r \in Reqs : r \notin reqs =>
          /\ m.output[r] = n.output[r] /\ m.branch[r] = n.branch[r]
          /\ kv_committed_len(m, r) = kv_committed_len(n, r)
  <2> HIDE DEF F
  <2> SUFFICES ASSUME NEW r \in Reqs, r \notin reqs
               PROVE  /\ m.output[r] = n.output[r] /\ m.branch[r] = n.branch[r]
                      /\ kv_committed_len(m, r) = kv_committed_len(n, r)
    OBVIOUS
  <2>1. m.output[r] = n.output[r] /\ m.branch[r] = n.branch[r]
    BY <1>2, <1>3, <1>5
  <2> QED BY <2>1 DEF kv_committed_len, fill_len
<1> HIDE DEF F
<1>9. Rows(m)
  <2> SUFFICES ASSUME NEW r \in Live(m)
               PROVE  /\ 1 <= m.output[r] /\ m.output[r] < max_new_tokens
                      /\ m.branch[r] <= kv_committed_len(m, r)
    BY DEF Rows
  <2>1. r \in Reqs /\ r \in Live(n) /\ r \notin F
    BY <1>1, <1>6
  <2>2. CASE r \in reqs
    <3>1. /\ m.output[r] = n.output[r] + 1 /\ m.branch[r] = n.branch[r]
          /\ kv_committed_len(m, r) = fill_len(n, r)
      BY <1>7, <2>1, <2>2
    <3>2. n.output[r] \in Nat /\ n.output[r] + 1 < max_new_tokens
      BY <1>3, <1>5, <2>1, <2>2
    <3> QED BY <1>4, <2>2, <3>1, <3>2
  <2>3. CASE r \notin reqs
    BY <1>8, <2>1, <2>3
  <2> QED BY <2>2, <2>3
<1>10. Placed(m)
  <2>1. F \subseteq Range(n.running)
    BY <1>5 DEF Live
  <2> QED BY <1>2, <2>1 DEF Placed
<1>11. \A r \in Reqs : c[r] = slots(m)[r] + free[r]
  <2> SUFFICES ASSUME NEW r \in Reqs PROVE c[r] = slots(m)[r] + free[r]
    OBVIOUS
  <2> DEFINE x == fill_len(n, r)
  <2>1. x \in Nat
    BY <1>2
  <2>2. floor_align(x) \in Nat /\ ceil_align(x) \in Nat
    BY <2>1, Pages
  <2>3. c[r] = IF r \in reqs THEN ceil_align(x) ELSE slots(n)[r]
    BY DEF charged
  <2> HIDE DEF x, c
  <2>4. CASE r \in F
    <3>1. c[r] = ceil_align(x)
      BY <1>5, <2>3, <2>4
    <3>2. free[r] = ceil_align(x) - floor_align(x)
      BY <2>4 DEF x, tails
    <3>3. slots(m)[r] = floor_align(x)
      BY <1>2, <1>6, <2>4 DEF slots, x
    <3> HIDE DEF free
    <3> QED BY <2>2, <3>1, <3>2, <3>3
  <2>5. CASE r \in reqs \ F
    <3>1. c[r] = ceil_align(x)
      BY <2>3, <2>5, Zenon
    <3>2. free[r] = 0
      BY <2>5
    <3>3. r \in Live(m) /\ kv_committed_len(m, r) = x
      BY <1>6, <1>7, <2>5 DEF x
    <3>4. slots(m)[r] = ceil_align(x)
      BY <3>3 DEF slots
    <3>5. ceil_align(x) + 0 = ceil_align(x)
      BY <2>2
    <3> HIDE DEF free
    <3> QED BY <3>1, <3>2, <3>4, <3>5, Zenon
  <2>6. CASE r \notin reqs
    <3>1. c[r] = slots(n)[r] /\ r \notin F
      BY <1>5, <2>3, <2>6
    <3>2. free[r] = 0
      BY <3>1
    <3>3. /\ r \in Live(m) <=> r \in Live(n)
          /\ m.branch[r] = n.branch[r] /\ kv_committed_len(m, r) = kv_committed_len(n, r)
      BY <1>6, <1>8, <2>6, <3>1
    <3>4. slots(m)[r] = slots(n)[r]
      BY <3>3 DEF slots
    <3>5. slots(m)[r] \in Nat
      BY <1>2, <1>9, LiveIs
    <3>6. slots(m)[r] + 0 = slots(m)[r]
      BY <3>5
    <3> HIDE DEF free
    <3> QED BY <3>1, <3>2, <3>4, <3>6, Zenon
  <2> QED BY <1>5, <2>4, <2>5, <2>6
<1>12. Books(m, size)
  <2>1. slots(m) \in [Reqs -> Nat] /\ Sum(slots(m)) \in Nat
    BY <1>2, <1>9, LiveIs
  <2>2. free \in [Reqs -> Nat]
    BY <1>2
  <2>3. c \in [Reqs -> Nat]
    <3>1. \A r \in Reqs : c[r] \in Nat
      <4> HIDE DEF c, free
      <4> QED BY <1>11, <2>1, <2>2
    <3> QED BY <3>1 DEF charged
  <2>4. Sum(c) = Sum(slots(m)) + Sum(free)
    <3> HIDE DEF c, free
    <3> QED BY <1>11, <2>1, <2>2, <2>3, ReqsAssumption, SumPlus
  <2>5. Sum(tail) = Sum(free)
    <3>1. \A r \in F : free[r] = tail[r]
      BY <1>2
    <3>2. \A r \in Reqs \ F : free[r] = 0
      OBVIOUS
    <3>3. F \subseteq Reqs /\ tail \in [F -> Nat]
      BY <1>2
    <3> HIDE DEF free, tail
    <3> QED BY <2>2, <3>1, <3>2, <3>3, SumZeros
  <2>6. n.avail + Sum(c) = size
    OBVIOUS
  <2>7. Sum(tail) \in Nat /\ m.avail = n.avail + Sum(tail)
    BY <1>2
  <2> HIDE DEF c, free, tail
  <2>8. m.avail \in Nat
    BY <2>7
  <2>9. m.avail + Sum(slots(m)) = size
    BY <2>1, <2>4, <2>5, <2>6, <2>7
  <2> QED BY <2>8, <2>9 DEF Books
<1> QED BY <1>9, <1>10, <1>12 DEF m
=============================================================================
