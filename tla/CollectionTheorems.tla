------------------------- MODULE CollectionTheorems -------------------------
(***************************************************************************)
(* Facts about natural numbers, lists and sums that the proofs share.      *)
(* Induction and definition by recursion are stated about sets and         *)
(* functions, which the provers can instantiate.                           *)
(***************************************************************************)
EXTENDS Integers, Sequences, FiniteSets, Functions, FiniteSums, FiniteSetTheorems, TLAPS

-----------------------------------------------------------------------------
(* Natural numbers.                                                        *)

\* A set of naturals has a least element.
LEMMA LeastNatural ==
    ASSUME NEW T \in SUBSET Nat, T # {}
    PROVE  \E m \in T : \A x \in T : m <= x
<1> DEFINE R == OpToRel(<, Nat)
<1>1. \A x, y \in Nat : <<x, y>> \in R <=> x < y
  BY DEF OpToRel
<1>2. IsWellFoundedOn(R, Nat)
  BY NatLessThanWellFounded
<1> HIDE DEF R
<1>3. PICK m \in T : \A y \in T : ~(<<y, m>> \in R)
  BY <1>2, WFMin
<1>4. \A x \in T : ~(x < m)
  BY <1>1, <1>3
<1> QED BY <1>3, <1>4

\* A set that has 0 and the successor of what it has, has every natural.
LEMMA SetInduction ==
    ASSUME NEW T, 0 \in T, \A i \in Nat : i \in T => i + 1 \in T
    PROVE  Nat \subseteq T
<1> SUFFICES ASSUME Nat \ T # {} PROVE FALSE
  OBVIOUS
<1>1. PICK m \in Nat \ T : \A x \in Nat \ T : m <= x
  BY LeastNatural
<1>2. m # 0 /\ m - 1 \in Nat /\ (m - 1) + 1 = m
  BY <1>1
<1>3. m - 1 \in T
  BY <1>1, <1>2
<1>4. (m - 1) + 1 \in T
  BY <1>2, <1>3
<1> QED BY <1>1, <1>2, <1>4

\* N functions from S to S, and a list that begins with a and applies them in turn.
Steps(N, S) == [1..N -> [S -> S]]

Follows(f, a, g, N, S) ==
    /\ f \in [0..N -> S] /\ f[0] = a
    /\ \A i \in 1..N : f[i] = g[i][f[i - 1]]

\* N turns of a loop, from a, define the states after each.
LEMMA Recursion ==
    ASSUME NEW S, NEW a \in S, NEW N \in Nat, NEW g \in Steps(N, S)
    PROVE  \E f : Follows(f, a, g, N, S)
<1> DEFINE Upto(m, f) == /\ f \in [0..m -> S] /\ f[0] = a
                         /\ \A i \in 1..m : f[i] = g[i][f[i - 1]]
           T == {m \in Nat : m <= N => \E f : Upto(m, f)}
<1>1. 0 \in T
  <2>1. Upto(0, [i \in 0..0 |-> a])
    OBVIOUS
  <2> QED BY <2>1
<1>2. ASSUME NEW m \in Nat, m \in T PROVE m + 1 \in T
  <2> SUFFICES ASSUME m + 1 <= N PROVE \E f : Upto(m + 1, f)
    OBVIOUS
  <2>1. PICK f : Upto(m, f)
    BY <1>2
  <2> DEFINE h == [i \in 0..(m + 1) |-> IF i <= m THEN f[i] ELSE g[m + 1][f[m]]]
  <2>2. f[m] \in S /\ m + 1 \in 1..N
    BY <2>1
  <2>3. g[m + 1][f[m]] \in S
    BY <2>2 DEF Steps
  <2>4. h \in [0..(m + 1) -> S] /\ h[0] = a
    BY <2>1, <2>3
  <2>5. ASSUME NEW i \in 1..(m + 1) PROVE h[i] = g[i][h[i - 1]]
    <3>1. CASE i <= m
      BY <2>1, <3>1
    <3>2. CASE i = m + 1
      BY <3>2
    <3> QED BY <3>1, <3>2
  <2> QED BY <2>4, <2>5
<1>3. Nat \subseteq T
  <2> HIDE DEF T
  <2> QED BY <1>1, <1>2, SetInduction
<1>4. N \in T
  <2> HIDE DEF T
  <2> QED BY <1>3
<1>5. PICK f : Upto(N, f)
  BY <1>4
<1> QED BY <1>5 DEF Follows

-----------------------------------------------------------------------------
(* Lists.                                                                  *)

\* Concatenation keeps elements distinct exactly when the two lists share none.
LEMMA ConcatInjective ==
    ASSUME NEW S, NEW s \in Seq(S), NEW t \in Seq(S)
    PROVE  /\ s \o t \in Seq(S)
           /\ Range(s \o t) = Range(s) \cup Range(t)
           /\ IsInjective(s \o t) <=> /\ IsInjective(s)
                                      /\ IsInjective(t)
                                      /\ Range(s) \cap Range(t) = {}
<1>1. /\ s \o t \in Seq(S)
      /\ Len(s \o t) = Len(s) + Len(t)
      /\ \A i \in 1 .. Len(s) + Len(t) : (s \o t)[i] =
                     IF i <= Len(s) THEN s[i] ELSE t[i - Len(s)]
  OBVIOUS
<1>3. /\ DOMAIN s = 1..Len(s) /\ DOMAIN t = 1..Len(t)
      /\ DOMAIN (s \o t) = 1..(Len(s) + Len(t))
      /\ Len(s) \in Nat /\ Len(t) \in Nat
  BY <1>1
<1> DEFINE c == s \o t
<1>2. Range(c) = Range(s) \cup Range(t)
  <2>1. /\ DOMAIN c = 1..(Len(s) + Len(t))
        /\ \A i \in 1..Len(s) : i \in 1..(Len(s) + Len(t)) /\ c[i] = s[i]
        /\ \A i \in 1..Len(t) : i + Len(s) \in 1..(Len(s) + Len(t)) /\ c[i + Len(s)] = t[i]
        /\ \A i \in 1..(Len(s) + Len(t)) : i \in 1..Len(s) \/ i - Len(s) \in 1..Len(t)
        /\ \A i \in 1..(Len(s) + Len(t)) : i \notin 1..Len(s) => c[i] = t[i - Len(s)]
    BY <1>1, <1>3
  <2> HIDE DEF c
  <2>2. ASSUME NEW x \in Range(c) PROVE x \in Range(s) \cup Range(t)
    <3>1. PICK i \in 1..(Len(s) + Len(t)) : c[i] = x
      BY <2>1 DEF Range
    <3>2. CASE i \in 1..Len(s)
      BY <1>3, <2>1, <3>1, <3>2 DEF Range
    <3>3. CASE i \notin 1..Len(s)
      <4>1. i - Len(s) \in 1..Len(t) /\ t[i - Len(s)] = x
        BY <2>1, <3>1, <3>3
      <4> QED BY <1>3, <4>1 DEF Range
    <3> QED BY <3>2, <3>3
  <2>3. \A x : x \in Range(s) => x \in Range(c)
    BY <1>3, <2>1 DEF Range
  <2>4. \A x : x \in Range(t) => x \in Range(c)
    BY <1>3, <2>1 DEF Range
  <2> QED BY <2>2, <2>3, <2>4
<1>4. ASSUME IsInjective(s \o t)
      PROVE  IsInjective(s) /\ IsInjective(t) /\ Range(s) \cap Range(t) = {}
  <2>1. IsInjective(s)
    BY <1>1, <1>3, <1>4 DEF IsInjective
  <2>2. ASSUME NEW i \in 1..Len(t), NEW j \in 1..Len(t), t[i] = t[j]
        PROVE  i = j
    <3>1. (s \o t)[i + Len(s)] = t[i] /\ (s \o t)[j + Len(s)] = t[j]
      BY <1>1, <1>3
    <3>2. i + Len(s) \in DOMAIN (s \o t) /\ j + Len(s) \in DOMAIN (s \o t)
      BY <1>3
    <3>3. i + Len(s) = j + Len(s)
      BY <1>4, <2>2, <3>1, <3>2 DEF IsInjective
    <3> QED
      BY <1>3, <3>3
  <2>3. ASSUME NEW i \in 1..Len(s), NEW j \in 1..Len(t), s[i] = t[j]
        PROVE  FALSE
    <3>1. (s \o t)[i] = s[i] /\ (s \o t)[j + Len(s)] = t[j]
      BY <1>1, <1>3
    <3>2. i = j + Len(s)
      BY <1>3, <1>4, <2>3, <3>1 DEF IsInjective
    <3> QED
      BY <1>3, <3>2
  <2> QED
    BY <1>3, <2>1, <2>2, <2>3 DEF IsInjective, Range
<1>5. ASSUME IsInjective(s), IsInjective(t), Range(s) \cap Range(t) = {}
      PROVE  IsInjective(s \o t)
  <2>1. \A i \in 1..Len(s), j \in 1..Len(t) : s[i] # t[j]
    BY <1>3, <1>5 DEF Range
  <2>2. SUFFICES ASSUME NEW i \in 1..(Len(s) + Len(t)), NEW j \in 1..(Len(s) + Len(t)),
                        (s \o t)[i] = (s \o t)[j]
                 PROVE  i = j
    BY <1>3 DEF IsInjective
  <2>3. CASE i <= Len(s) /\ j <= Len(s)
    BY <1>1, <1>3, <1>5, <2>2, <2>3 DEF IsInjective
  <2>4. CASE ~(i <= Len(s)) /\ ~(j <= Len(s))
    <3>1. i - Len(s) \in 1..Len(t) /\ j - Len(s) \in 1..Len(t)
      BY <1>3, <2>4
    <3>2. t[i - Len(s)] = t[j - Len(s)]
      BY <1>1, <2>2, <2>4
    <3>3. i - Len(s) = j - Len(s)
      BY <1>3, <1>5, <3>1, <3>2 DEF IsInjective
    <3> QED
      BY <1>3, <3>3
  <2>5. CASE i <= Len(s) /\ ~(j <= Len(s))
    BY <1>1, <1>3, <2>1, <2>2, <2>5
  <2>6. CASE ~(i <= Len(s)) /\ j <= Len(s)
    BY <1>1, <1>3, <2>1, <2>2, <2>6
  <2> QED
    BY <2>3, <2>4, <2>5, <2>6
<1> QED
  BY <1>1, <1>2, <1>4, <1>5

-----------------------------------------------------------------------------
(* Sums: what a sum is when its function gains, loses or changes an        *)
(* argument.                                                               *)

\* A unit is an argument of the function and a number up to its value.
LEMMA UnitsMembers ==
    ASSUME NEW S, NEW f \in [S -> Nat]
    PROVE  \A u : u \in Units(f) <=> \E x \in S : \E i \in 1..f[x] : u = <<x, i>>
<1>1. \A x, u : u \in {x} \X (1..f[x]) <=> \E i \in 1..f[x] : u = <<x, i>>
  OBVIOUS
<1>2. DOMAIN f = S
  OBVIOUS
<1>3. \A u : u \in Units(f) <=> \E x \in S : u \in {x} \X (1..f[x])
  BY <1>2, Zenon DEF Units
<1>4. ASSUME NEW u, u \in Units(f) PROVE \E x \in S : \E i \in 1..f[x] : u = <<x, i>>
  <2>1. PICK x \in S : u \in {x} \X (1..f[x])
    BY <1>3, <1>4, Zenon
  <2> QED BY <1>1, <2>1
<1>5. ASSUME NEW u, NEW x \in S, NEW i \in 1..f[x], u = <<x, i>> PROVE u \in Units(f)
  <2>1. u \in {x} \X (1..f[x])
    BY <1>5
  <2> QED BY <1>3, <2>1, Zenon
<1> QED BY <1>4, <1>5, Zenon

\* The sum over a finite set is a natural number.
LEMMA SumType ==
    ASSUME NEW S, IsFiniteSet(S), NEW f \in [S -> Nat]
    PROVE  IsFiniteSet(Units(f)) /\ Sum(f) \in Nat
<1> DEFINE g == [x \in S |-> {x} \X (1..f[x])]
           T == {{x} \X (1..f[x]) : x \in S}
<1>1. g \in Surjection(S, T)
  BY DEF Surjection
<1>2. IsFiniteSet(T)
  BY <1>1, FS_Surjection
<1>3. ASSUME NEW x \in S PROVE IsFiniteSet({x} \X (1..f[x]))
  <2>1. IsFiniteSet({x})
    BY FS_Singleton
  <2>2. IsFiniteSet(1..f[x])
    BY FS_Interval
  <2> QED BY <2>1, <2>2, FS_Product
<1>4. IsFiniteSet(UNION T)
  BY <1>2, <1>3, FS_UNION
<1>5. Units(f) = UNION T
  BY DEF Units
<1> QED BY <1>4, <1>5, FS_CardinalityType DEF Sum

\* Nothing sums to nothing.
LEMMA SumEmpty == \A f : DOMAIN f = {} => Sum(f) = 0
<1> SUFFICES ASSUME NEW f, DOMAIN f = {} PROVE Sum(f) = 0
  OBVIOUS
<1>1. Units(f) = {}
  BY DEF Units
<1> QED BY <1>1, FS_EmptySet DEF Sum

\* The sum over two disjoint sets is that of the sums.
LEMMA SumSplit ==
    ASSUME NEW A, NEW B, IsFiniteSet(A), IsFiniteSet(B), A \cap B = {},
           NEW f \in [A -> Nat], NEW g \in [B -> Nat],
           NEW h \in [A \cup B -> Nat],
           \A x \in A : h[x] = f[x], \A x \in B : h[x] = g[x]
    PROVE  Sum(h) = Sum(f) + Sum(g)
<1>1. Units(h) = Units(f) \cup Units(g)
  <2>1. \A u : u \in Units(h) <=> \E x \in A \cup B : \E i \in 1..h[x] : u = <<x, i>>
    BY UnitsMembers
  <2>2. \A u : u \in Units(f) <=> \E x \in A : \E i \in 1..f[x] : u = <<x, i>>
    BY UnitsMembers
  <2>3. \A u : u \in Units(g) <=> \E x \in B : \E i \in 1..g[x] : u = <<x, i>>
    BY UnitsMembers
  <2>4. \A x \in A : 1..h[x] = 1..f[x]
    OBVIOUS
  <2>5. \A x \in B : 1..h[x] = 1..g[x]
    OBVIOUS
  <2>6. ASSUME NEW u \in Units(h) PROVE u \in Units(f) \cup Units(g)
    <3>1. PICK x \in A \cup B : \E i \in 1..h[x] : u = <<x, i>>
      BY <2>1
    <3>2. CASE x \in A
      BY <2>2, <2>4, <3>1, <3>2
    <3>3. CASE x \in B
      BY <2>3, <2>5, <3>1, <3>3
    <3> QED BY <3>2, <3>3
  <2>7. Units(f) \subseteq Units(h)
    BY <2>1, <2>2, <2>4, Zenon
  <2>8. Units(g) \subseteq Units(h)
    BY <2>1, <2>3, <2>5, Zenon
  <2> QED BY <2>6, <2>7, <2>8
<1>2. Units(f) \cap Units(g) = {}
  <2> SUFFICES ASSUME NEW u \in Units(f), u \in Units(g) PROVE FALSE
    OBVIOUS
  <2>1. PICK x \in A : \E i \in 1..f[x] : u = <<x, i>>
    BY UnitsMembers
  <2>2. PICK y \in B : \E i \in 1..g[y] : u = <<y, i>>
    BY UnitsMembers
  <2> QED BY <2>1, <2>2
<1>3. IsFiniteSet(Units(f)) /\ IsFiniteSet(Units(g))
  BY SumType
<1>4. /\ Cardinality(Units(h)) = Cardinality(Units(f)) + Cardinality(Units(g))
                                 - Cardinality(Units(f) \cap Units(g))
  BY <1>1, <1>3, FS_Union
<1>5. Cardinality(Units(f) \cap Units(g)) = 0
  BY <1>2, FS_EmptySet
<1>6. Sum(f) \in Nat /\ Sum(g) \in Nat
  BY SumType
<1> QED BY <1>4, <1>5, <1>6 DEF Sum

\* The sum of a function with the same value everywhere.
LEMMA SumConstant ==
    ASSUME NEW S, IsFiniteSet(S), NEW c \in Nat,
           NEW f \in [S -> Nat], \A x \in S : f[x] = c
    PROVE  Sum(f) = Cardinality(S) * c
<1>1. Units(f) = S \X (1..c)
  <2>1. \A u : u \in Units(f) <=> \E x \in S : \E i \in 1..f[x] : u = <<x, i>>
    BY UnitsMembers
  <2>2. \A u : u \in S \X (1..c) <=> \E x \in S : \E i \in 1..c : u = <<x, i>>
    OBVIOUS
  <2>3. \A x \in S : 1..f[x] = 1..c
    OBVIOUS
  <2> QED BY <2>1, <2>2, <2>3, Zenon
<1>2. IsFiniteSet(1..c) /\ Cardinality(1..c) = c
  BY FS_Interval
<1>3. Cardinality(S \X (1..c)) = Cardinality(S) * Cardinality(1..c)
  BY <1>2, FS_Product
<1> QED BY <1>1, <1>2, <1>3 DEF Sum

\* The sum of one value.
LEMMA SumSingle ==
    ASSUME NEW x, NEW f \in [{x} -> Nat]
    PROVE  Sum(f) = f[x]
<1>1. IsFiniteSet({x}) /\ Cardinality({x}) = 1
  BY FS_Singleton
<1>2. Sum(f) = Cardinality({x}) * f[x]
  BY <1>1, SumConstant
<1> QED BY <1>1, <1>2

\* One more argument adds its value.
LEMMA SumAdd ==
    ASSUME NEW S, IsFiniteSet(S), NEW f \in [S -> Nat], NEW x, x \notin S,
           NEW g \in [S \cup {x} -> Nat], \A y \in S : g[y] = f[y]
    PROVE  Sum(g) = Sum(f) + g[x]
<1> DEFINE e == [y \in {x} |-> g[x]]
<1>1. e \in [{x} -> Nat] /\ e[x] = g[x]
  OBVIOUS
<1>2. IsFiniteSet({x})
  BY FS_Singleton
<1>3. Sum(e) = g[x]
  BY <1>1, SumSingle
<1>4. /\ S \cap {x} = {}
      /\ \A y \in {x} : g[y] = e[y]
  OBVIOUS
<1> HIDE DEF e
<1>5. Sum(g) = Sum(f) + Sum(e)
  BY <1>1, <1>2, <1>4, SumSplit
<1> QED BY <1>3, <1>5

\* One value replaced by another.
LEMMA SumUpdate ==
    ASSUME NEW S, IsFiniteSet(S), NEW f \in [S -> Nat], NEW g \in [S -> Nat],
           NEW x \in S, \A y \in S \ {x} : g[y] = f[y]
    PROVE  /\ Sum(g) + f[x] = Sum(f) + g[x]
           /\ f[x] <= Sum(f) /\ g[x] <= Sum(g)
<1> DEFINE R == S \ {x}
           e == [y \in R |-> f[y]]
<1>0. IsFiniteSet(R)
  BY FS_Subset
<1>1. /\ IsFiniteSet(R) /\ x \notin R /\ S = R \cup {x}
      /\ e \in [R -> Nat]
      /\ \A y \in R : f[y] = e[y] /\ g[y] = e[y]
  BY <1>0
<1> HIDE DEF R, e
<1>2. Sum(f) = Sum(e) + f[x]
  <2>1. f \in [R \cup {x} -> Nat]
    BY <1>1
  <2>2. \A y \in R : f[y] = e[y]
    BY <1>1
  <2> QED BY <1>1, <2>1, <2>2, SumAdd
<1>3. Sum(g) = Sum(e) + g[x]
  <2>1. g \in [R \cup {x} -> Nat]
    BY <1>1
  <2>2. \A y \in R : g[y] = e[y]
    BY <1>1
  <2> QED BY <1>1, <2>1, <2>2, SumAdd
<1>4. Sum(e) \in Nat /\ f[x] \in Nat /\ g[x] \in Nat
  BY <1>1, SumType
<1> QED BY <1>2, <1>3, <1>4

\* A sum over fewer arguments of no larger values is no larger.
LEMMA SumMonotone ==
    ASSUME NEW S, IsFiniteSet(S), NEW R, R \subseteq S,
           NEW f \in [R -> Nat], NEW g \in [S -> Nat],
           \A x \in R : f[x] <= g[x]
    PROVE  Sum(f) <= Sum(g)
<1>1. Units(f) \subseteq Units(g)
  <2> SUFFICES ASSUME NEW u \in Units(f) PROVE u \in Units(g)
    OBVIOUS
  <2>1. PICK x \in R : \E i \in 1..f[x] : u = <<x, i>>
    BY UnitsMembers
  <2>2. PICK i \in 1..f[x] : u = <<x, i>>
    BY <2>1
  <2>3. x \in S /\ i \in 1..g[x]
    BY <2>2
  <2> QED BY <2>2, <2>3, UnitsMembers
<1>2. IsFiniteSet(Units(g))
  BY SumType
<1> QED BY <1>1, <1>2, FS_Subset DEF Sum

\* Arguments whose value is 0 count for nothing.
LEMMA SumZeros ==
    ASSUME NEW S, NEW R, R \subseteq S, NEW f \in [R -> Nat], NEW g \in [S -> Nat],
           \A x \in R : g[x] = f[x], \A x \in S \ R : g[x] = 0
    PROVE  Sum(f) = Sum(g)
<1>1. \A u : u \in Units(f) <=> \E x \in R : \E i \in 1..f[x] : u = <<x, i>>
  BY UnitsMembers
<1>2. \A u : u \in Units(g) <=> \E x \in S : \E i \in 1..g[x] : u = <<x, i>>
  BY UnitsMembers
<1>3. \A x \in R : 1..g[x] = 1..f[x]
  OBVIOUS
<1>4. \A x \in S \ R : 1..g[x] = {}
  OBVIOUS
<1>5. Units(f) \subseteq Units(g)
  BY <1>1, <1>2, <1>3, Zenon
<1>6. ASSUME NEW u \in Units(g) PROVE u \in Units(f)
  <2>1. PICK x \in S : \E i \in 1..g[x] : u = <<x, i>>
    BY <1>2
  <2>2. x \in R
    BY <1>4, <2>1
  <2> QED BY <1>1, <1>3, <2>1, <2>2
<1> QED BY <1>5, <1>6 DEF Sum

\* The sum of two functions added.
LEMMA SumPlus ==
    ASSUME NEW S, IsFiniteSet(S), NEW f \in [S -> Nat], NEW g \in [S -> Nat],
           NEW h \in [S -> Nat], \A x \in S : h[x] = f[x] + g[x]
    PROVE  Sum(h) = Sum(f) + Sum(g)
<1> DEFINE D == Units(h) \ Units(f)
           lift == [v \in Units(g) |-> <<v[1], v[2] + f[v[1]]>>]
<1>1. \A v : v \in Units(f) <=> \E x \in S : \E i \in 1..f[x] : v = <<x, i>>
  BY UnitsMembers
<1>2. \A v : v \in Units(g) <=> \E x \in S : \E i \in 1..g[x] : v = <<x, i>>
  BY UnitsMembers
<1>3. \A v : v \in Units(h) <=> \E x \in S : \E i \in 1..h[x] : v = <<x, i>>
  BY UnitsMembers
<1>4. Units(f) \subseteq Units(h)
  <2> SUFFICES ASSUME NEW v \in Units(f) PROVE v \in Units(h)
    OBVIOUS
  <2>1. PICK x \in S : \E i \in 1..f[x] : v = <<x, i>>
    BY <1>1
  <2>2. PICK i \in 1..f[x] : v = <<x, i>>
    BY <2>1
  <2>3. i \in 1..h[x]
    BY <2>2
  <2> QED BY <1>3, <2>2, <2>3
<1>5. ASSUME NEW x \in S, NEW i \in 1..g[x]
      PROVE  /\ <<x, i + f[x]>> \in D
             /\ lift[<<x, i>>] = <<x, i + f[x]>>
  <2>1. i + f[x] \in 1..h[x] /\ i + f[x] \notin 1..f[x]
    OBVIOUS
  <2>2. <<x, i + f[x]>> \in Units(h)
    BY <1>3, <2>1
  <2>3. <<x, i + f[x]>> \notin Units(f)
    BY <1>1, <2>1
  <2>4. <<x, i>> \in Units(g)
    BY <1>2
  <2> QED BY <2>2, <2>3, <2>4
<1>6. ASSUME NEW w \in D PROVE \E v \in Units(g) : lift[v] = w
  <2>1. PICK x \in S : \E i \in 1..h[x] : w = <<x, i>>
    BY <1>3
  <2>2. PICK i \in 1..h[x] : w = <<x, i>>
    BY <2>1
  <2>3. i \notin 1..f[x]
    BY <1>1, <2>2
  <2>4. i - f[x] \in 1..g[x] /\ (i - f[x]) + f[x] = i
    BY <2>3
  <2>5. <<x, i - f[x]>> \in Units(g)
    BY <1>2, <2>4
  <2> DEFINE j == i - f[x]
  <2>6. lift[<<x, j>>] = <<x, j + f[x]>>
    <3>1. j \in 1..g[x]
      BY <2>4
    <3> HIDE DEF j, lift, D
    <3> QED BY <1>5, <3>1
  <2>7. lift[<<x, j>>] = w
    <3> HIDE DEF lift
    <3> QED BY <2>2, <2>4, <2>6
  <2> QED BY <2>5, <2>7
<1>7. ASSUME NEW v \in Units(g), NEW w \in Units(g), lift[v] = lift[w] PROVE v = w
  <2>1. PICK x \in S, i \in Nat : i \in 1..g[x] /\ v = <<x, i>>
    BY <1>2
  <2>2. PICK y \in S, j \in Nat : j \in 1..g[y] /\ w = <<y, j>>
    BY <1>2
  <2>3. <<x, i + f[x]>> = <<y, j + f[y]>>
    BY <1>5, <1>7, <2>1, <2>2
  <2>4. x = y
    BY <2>3
  <2>5. i = j
    BY <2>3, <2>4
  <2> QED BY <2>1, <2>2, <2>4, <2>5
<1>8. ASSUME NEW v \in Units(g) PROVE lift[v] \in D
  <2>1. PICK x \in S, i \in Nat : i \in 1..g[x] /\ v = <<x, i>>
    BY <1>2
  <2> QED BY <1>5, <2>1
<1>9. lift \in Bijection(Units(g), D)
  <2>1. lift \in [Units(g) -> D]
    BY <1>8
  <2> HIDE DEF lift, D
  <2> QED BY <1>6, <1>7, <2>1 DEF Bijection, Injection, Surjection, IsInjective
<1>10. /\ IsFiniteSet(Units(f)) /\ IsFiniteSet(Units(g)) /\ IsFiniteSet(Units(h))
       /\ Sum(f) \in Nat /\ Sum(g) \in Nat /\ Sum(h) \in Nat
  BY SumType
<1>11. Cardinality(D) = Cardinality(Units(g))
  <2>1. ExistsBijection(Units(g), D)
    BY <1>9 DEF ExistsBijection
  <2> QED BY <1>10, <2>1, FS_Bijection
<1>12. Cardinality(D) = Cardinality(Units(h)) - Cardinality(Units(h) \cap Units(f))
  BY <1>10, FS_Difference
<1>13. Units(h) \cap Units(f) = Units(f)
  BY <1>4
<1>14. /\ Sum(g) = Cardinality(D)
       /\ Cardinality(D) = Sum(h) - Sum(f)
  BY <1>11, <1>12, <1>13 DEF Sum
<1> HIDE DEF D
<1> QED BY <1>10, <1>14

\* A finite, nonempty set of naturals has a greatest element.
LEMMA GreatestNatural ==
    ASSUME NEW T \in SUBSET Nat, IsFiniteSet(T), T # {}
    PROVE  \E m \in T : \A x \in T : x <= m
<1> DEFINE f == [x \in T |-> x]
           B == {b \in Nat : \A x \in T : x <= b}
<1>1. f \in [T -> Nat] /\ \A x \in T : f[x] = x
  OBVIOUS
<1>2. Sum(f) \in B
  <2> HIDE DEF f
  <2>1. Sum(f) \in Nat
    BY <1>1, SumType, Zenon
  <2>2. \A x \in T : f[x] <= Sum(f)
    BY <1>1, SumUpdate, Zenon
  <2> QED BY <1>1, <2>1, <2>2
<1>3. PICK b \in B : \A c \in B : b <= c
  <2> HIDE DEF f
  <2> QED BY <1>2, LeastNatural, Zenon
<1>4. SUFFICES ASSUME b \notin T PROVE FALSE
  BY <1>3
<1>5. \A x \in T : x < b
  BY <1>3, <1>4
<1>6. b - 1 \in B
  <2>1. PICK y \in T : TRUE
    BY Zenon
  <2>2. b \in Nat /\ y \in Nat /\ y < b
    BY <1>5, <2>1
  <2>3. b - 1 \in Nat /\ \A x \in Nat : x < b => x <= b - 1
    BY <2>2
  <2> QED BY <1>5, <2>3
<1> QED BY <1>3, <1>6
=============================================================================
