------------------------- MODULE LoRARegistryProofs -------------------------
(***************************************************************************)
(* A single request keeps its adapter, and the registry agrees with the    *)
(* scheduler, for every number of adapters, requests and loads. The only   *)
(* assumption on how requests end is that none calls release() twice: a    *)
(* request that never calls it makes the count too high, which is safe.    *)
(***************************************************************************)
EXTENDS LoRARegistry, FiniteSetTheorems, TLAPS

Loads == [phase : {"loading"}, by : Requests \cup {Api}, name : Names,
          id : 1..MaxLoads, ok : BOOLEAN]
Unloads == [phase : {"draining", "unloading"}, ref : Refs, after : Loads \cup {Free}]

\* The adapter that is being unloaded, and whether its counter is still there.
Leaving(L) == IF L.phase \in {"draining", "unloading"} THEN {L.ref} ELSE {}
Draining(L) == IF L.phase = "draining" THEN {L.ref} ELSE {}

\* Ids from here on were never given to the registry.
Top(L, k) == IF L.phase = "loading" THEN L.id ELSE k

\* Registry R, counters C and the loaded adapters D agree; ids are below k.
Sound(R, C, D, L, k) ==
    /\ D \subseteq Refs
    /\ D = R \cup Leaving(L)
    /\ R \cap Leaving(L) = {}
    /\ \A r, o \in D : r.id = o.id \/ r.name = o.name => r = o
    /\ \A r \in D : r.id < k
    /\ DOMAIN C = {r.id : r \in R \cup Draining(L)}
    /\ \A i \in DOMAIN C : C[i] \in Int

\* The requests that may still call release() for an adapter, from the uses U,
\* the adapters F and the calls owed O.
Holders(i, U, F, O) == {p \in Parts : F[p].id = i /\ (U[p] = "held" \/ O[p] # 0)}

Counted(C, k, U, F, O) ==
    /\ \A i \in DOMAIN C : C[i] >= Cardinality(Holders(i, U, F, O))
    /\ \A p \in Parts : F[p].id < k

Covered(C, D, U, F) ==
    \A p \in Singles : U[p] = "held" => F[p] \in D /\ F[p].id \in DOMAIN C

RequestsOK(S, M, U, F, O) ==
    /\ S \in [Requests -> {"new", "reload", "reloading", "acquired", "failed"}]
    /\ M \in [Requests -> SUBSET Names]
    /\ U \in [Parts -> {"none", "looked up", "held", "ended"}]
    /\ F \in [Parts -> [name : Names \cup {"none"}, id : 0..MaxLoads]]
    /\ O \in [Parts -> {0, 1}]
    /\ \A p \in Parts : O[p] # 0 => U[p] = "ended"
    /\ \A B \in Requests : S[B] \in {"new", "reload", "reloading"} =>
                               \A p \in B : U[p] = "none"
    /\ \A p \in Singles : U[p] # "looked up"

\* The request that waits for a load is waiting.
LoadOK(load, S) == load.by # Api => S[load.by] = "reloading"

LockOK(L, k, S) ==
    /\ k \in 1..(MaxLoads + 1)
    /\ L \in {Free} \cup Loads \cup Unloads
    /\ L.phase = "loading" => LoadOK(L, S) /\ L.id < k
    /\ L.phase \in {"draining", "unloading"} /\ L.after # Free => LoadOK(L.after, S)

\* What a request relies on: registry R, counters C and loaded adapters D under
\* lock L, and its own state.
Good(R, C, D, L, k, S, M, U, F, O) ==
    /\ RequestsOK(S, M, U, F, O)
    /\ Sound(R, C, D, L, k)
    /\ Counted(C, k, U, F, O)
    /\ Covered(C, D, U, F)

IInv == /\ LockOK(lock, next_id, stage)
        /\ Good(registry, counters, loaded, lock, Top(lock, next_id),
                stage, missing, use, ref, owed)

NoDoubleRelease == \A e \in Endings : Releases[e] \in {0, 1}

-----------------------------------------------------------------------------

LEMMA HoldersFinite ==
    \A i, U, F, O : /\ IsFiniteSet(Holders(i, U, F, O))
                    /\ Cardinality(Holders(i, U, F, O)) \in Nat
<1> TAKE i, U, F, O
<1>1. Holders(i, U, F, O) \subseteq Parts
  BY DEF Holders
<1>2. IsFiniteSet(Holders(i, U, F, O))
  BY <1>1, PartsAssumption, FS_Subset, Zenon
<1>. QED  BY <1>2, FS_CardinalityType, Zenon

\* A count that rises by one while its holders rise by at most one, or that
\* stays while they do not rise, still suffices.
LEMMA AtLeast ==
    ASSUME NEW i, NEW U, NEW F, NEW O, NEW V, NEW G, NEW P, NEW c \in Int, NEW d,
           c >= Cardinality(Holders(i, U, F, O)),
           \/ /\ d = c
              /\ Cardinality(Holders(i, V, G, P)) <= Cardinality(Holders(i, U, F, O))
           \/ /\ d = c + 1
              /\ Cardinality(Holders(i, V, G, P)) <= Cardinality(Holders(i, U, F, O)) + 1
           \/ /\ d = c - 1
              /\ Cardinality(Holders(i, V, G, P)) = Cardinality(Holders(i, U, F, O)) - 1
    PROVE  d \in Int /\ d >= Cardinality(Holders(i, V, G, P))
<1> DEFINE m == Cardinality(Holders(i, U, F, O))
           n == Cardinality(Holders(i, V, G, P))
<1>1. m \in Nat /\ n \in Nat
  BY HoldersFinite
<1>2. c >= m
  OBVIOUS
<1>3. (d = c /\ n <= m) \/ (d = c + 1 /\ n <= m + 1) \/ (d = c - 1 /\ n = m - 1)
  OBVIOUS
<1> HIDE DEF m, n
<1>4. d \in Int /\ d >= n
  BY <1>1, <1>2, <1>3
<1>. QED  BY <1>4 DEF n

\* Requests are disjoint sets of parts, and none is the Api's.
LEMMA RequestsDisjoint ==
    /\ \A B \in Requests : B # Api /\ B \subseteq Parts
    /\ \A B, E \in Requests : B # E => B \cap E = {}
    /\ \A B \in Requests \ Batches : \E p \in Singles : B = {p}
    /\ \A B \in Batches : B \cap Singles = {}
<1>1. \A B \in Batches : B # {} /\ B \subseteq Parts /\ B \cap Singles = {}
  BY PartsAssumption
<1>2. \A B \in Requests : B \in Batches \/ \E p \in Singles : B = {p}
  BY DEF Requests
<1>3. \A B \in Requests : B # Api /\ B \subseteq Parts
  BY <1>1, <1>2, PartsAssumption DEF Api
<1>4. ASSUME NEW B \in Requests, NEW E \in Requests, B # E
      PROVE  B \cap E = {}
  <2>1. CASE B \in Batches /\ E \in Batches
    BY <1>4, <2>1, PartsAssumption
  <2>2. CASE B \notin Batches /\ E \in Batches
    BY <1>1, <1>2, <2>2
  <2>3. CASE B \in Batches /\ E \notin Batches
    BY <1>1, <1>2, <2>3
  <2>4. CASE B \notin Batches /\ E \notin Batches
    BY <1>4, <1>2, <2>4
  <2>. QED  BY <2>1, <2>2, <2>3, <2>4
<1>. QED  BY <1>1, <1>2, <1>3, <1>4

\* acquire() keeps the counts, whatever holds the lock meanwhile.
LEMMA AcquireKeeps ==
    ASSUME NEW B \in Requests, NEW R, NEW C, NEW D, NEW L, NEW k \in Nat,
           NEW wanted \in [Parts -> Names \cup {"none"}],
           stage[B] \in {"new", "reloading"},
           Good(R, C, D, L, k, stage, missing, use, ref, owed),
           acquire(B, R, C, wanted)
    PROVE  /\ Good(registry', counters', D, L, k, stage', missing', use', ref', owed')
           /\ \A E \in Requests \ {B} : stage'[E] = stage[E]
<1> DEFINE found == [p \in Parts |-> IF p \in B THEN RefOf(wanted[p], R) ELSE ref[p]]
<1>0. /\ RequestsOK(stage, missing, use, ref, owed)
      /\ Sound(R, C, D, L, k)
      /\ Counted(C, k, use, ref, owed)
      /\ Covered(C, D, use, ref)
  BY DEF Good
<1>1. /\ registry' = R /\ owed' = owed
      /\ missing' = [missing EXCEPT ![B] = {}]
  BY DEF acquire
<1>2. B \subseteq Parts /\ \A p \in B : use[p] = "none" /\ owed[p] = 0
  <2>1. B \subseteq Parts /\ \A p \in B : use[p] = "none"
    BY <1>0, RequestsDisjoint DEF RequestsOK
  <2>2. \A p \in Parts : owed[p] \in {0, 1} /\ (owed[p] # 0 => use[p] = "ended")
    BY <1>0 DEF RequestsOK
  <2>. QED  BY <2>1, <2>2
<1>3. CASE \E p \in B : ~Registered(wanted[p], R)
  <2>1. stage' = [stage EXCEPT ![B] = "failed"] /\ counters' = C /\ use' = use /\ ref' = ref
    BY <1>3 DEF acquire
  <2>2. RequestsOK(stage', missing', use', ref', owed')
    BY <1>0, <1>1, <2>1 DEF RequestsOK
  <2>3. \A E \in Requests \ {B} : stage'[E] = stage[E]
    BY <1>0, <2>1 DEF RequestsOK
  <2>4. Sound(registry', counters', D, L, k)
    BY <1>0, <1>1, <2>1
  <2>. QED  BY <1>0, <1>1, <2>1, <2>2, <2>3, <2>4 DEF Good
<1>4. CASE ~ \E p \in B : ~Registered(wanted[p], R)
  <2>1. /\ stage' = [stage EXCEPT ![B] = "acquired"]
        /\ ref' = found
    BY <1>4 DEF acquire
  <2>2. \A p \in B : found[p] \in R /\ found[p] \in D /\ found[p].id \in DOMAIN C
    <3> SUFFICES ASSUME NEW p \in B
                 PROVE  found[p] \in R /\ found[p] \in D /\ found[p].id \in DOMAIN C
      OBVIOUS
    <3>1. found[p] = RefOf(wanted[p], R)
      BY <1>2
    <3>2. \E r \in R : r.name = wanted[p]
      BY <1>4 DEF Registered
    <3>3. found[p] \in R
      BY <3>1, <3>2 DEF RefOf
    <3>4. D = R \cup Leaving(L) /\ DOMAIN C = {r.id : r \in R \cup Draining(L)}
      BY <1>0 DEF Sound
    <3> HIDE DEF found
    <3>. QED  BY <3>3, <3>4
  <2>3. \A p \in Parts \ B : found[p] = ref[p]
    OBVIOUS
  <2> HIDE DEF found
  <2>4. /\ \A p \in Parts : found[p].id < k
        /\ found \in [Parts -> [name : Names \cup {"none"}, id : 0..MaxLoads]]
    <3>1. \A p \in Parts : found[p].id < k
      BY <1>0, <2>2, <2>3 DEF Sound, Counted
    <3>2. \A p \in Parts : found[p] \in [name : Names \cup {"none"}, id : 0..MaxLoads]
      <4>1. \A r \in D : r \in [name : Names \cup {"none"}, id : 0..MaxLoads]
        BY <1>0, LimitAssumption DEF Sound, Refs
      <4>2. \A p \in Parts : ref[p] \in [name : Names \cup {"none"}, id : 0..MaxLoads]
        BY <1>0 DEF RequestsOK
      <4>. QED  BY <2>2, <2>3, <4>1, <4>2
    <3>. QED  BY <3>1, <3>2 DEF found
  <2>5. \A E \in Requests \ {B} : stage'[E] = stage[E]
    BY <1>0, <2>1 DEF RequestsOK
  <2>6. CASE B \in Batches
    <3>1. /\ use' = [p \in Parts |-> IF p \in B THEN "looked up" ELSE use[p]]
          /\ counters' = C
      BY <1>4, <2>6 DEF acquire
    <3>2. RequestsOK(stage', missing', use', ref', owed')
      <4>1. \A p \in Parts : owed'[p] # 0 => use'[p] = "ended"
        BY <1>0, <1>1, <1>2, <3>1 DEF RequestsOK
      <4>2. \A E \in Requests : stage'[E] \in {"new", "reload", "reloading"} =>
                               \A p \in E : use'[p] = "none"
        <5> SUFFICES ASSUME NEW E \in Requests, stage'[E] \in {"new", "reload", "reloading"},
                            NEW p \in E
                     PROVE  use'[p] = "none"
          OBVIOUS
        <5>1. E # B
          BY <2>1, <1>0 DEF RequestsOK
        <5>2. p \in Parts /\ p \notin B
          BY <5>1, RequestsDisjoint
        <5>. QED  BY <1>0, <2>1, <3>1, <5>1, <5>2 DEF RequestsOK
      <4>3. \A p \in Singles : use'[p] # "looked up"
        BY <1>0, <2>6, <3>1, RequestsDisjoint, PartsAssumption DEF RequestsOK
      <4>. QED  BY <1>0, <1>1, <2>1, <2>4, <3>1, <4>1, <4>2, <4>3 DEF RequestsOK
    <3>3. \A i : Holders(i, use', ref', owed') = Holders(i, use, ref, owed)
      <4>1. \A p \in Parts : owed'[p] = owed[p] /\ ref'[p] = found[p]
        BY <1>1, <2>1
      <4>2. \A p \in B : use'[p] = "looked up" /\ use[p] = "none" /\ ~(owed[p] # 0)
        <5>1. \A p \in B : use'[p] = "looked up" /\ p \in Parts
          BY <1>2, <3>1
        <5>. QED  BY <1>2, <5>1
      <4>3. \A p \in Parts \ B : use'[p] = use[p]
        BY <3>1
      <4>4. ASSUME NEW p \in Parts
            PROVE  /\ (use'[p] = "held" \/ owed'[p] # 0) = (use[p] = "held" \/ owed[p] # 0)
                   /\ use[p] = "held" \/ owed[p] # 0 => ref'[p] = ref[p]
        <5>1. CASE p \in B
          BY <4>1, <4>2, <5>1
        <5>2. CASE p \notin B
          BY <2>3, <4>1, <4>3, <5>2
        <5>. QED  BY <5>1, <5>2
      <4>. QED  BY <4>4 DEF Holders
    <3>4. Counted(counters', k, use', ref', owed')
      BY <1>0, <2>1, <2>4, <3>1, <3>3 DEF Counted
    <3>5. Covered(counters', D, use', ref')
      <4>1. \A p \in Singles : p \in Parts \ B
        BY <2>6, RequestsDisjoint, PartsAssumption
      <4>2. \A p \in Singles : use'[p] = use[p] /\ ref'[p] = ref[p]
        BY <2>1, <2>3, <3>1, <4>1
      <4>3. Covered(C, D, use, ref)
        BY <1>0
      <4>4. ASSUME NEW p \in Singles, use'[p] = "held"
            PROVE  ref'[p] \in D /\ ref'[p].id \in DOMAIN counters'
        <5>1. use[p] = "held" /\ ref'[p] = ref[p]
          BY <4>2, <4>4
        <5>2. ref[p] \in D /\ ref[p].id \in DOMAIN C
          BY <4>3, <5>1 DEF Covered
        <5>. QED  BY <3>1, <5>1, <5>2
      <4>. QED  BY <4>4 DEF Covered
    <3>6. Sound(registry', counters', D, L, k)
      BY <1>0, <1>1, <3>1
    <3>. QED  BY <2>5, <3>2, <3>4, <3>5, <3>6 DEF Good
  <2>7. CASE B \notin Batches
    <3>1. PICK s \in Singles : B = {s}
      BY <2>7, RequestsDisjoint
    <3>2. /\ use' = [p \in Parts |-> IF p \in B THEN "held" ELSE use[p]]
          /\ counters' = [i \in DOMAIN C |->
                            IF \E p \in B : found[p].id = i THEN C[i] + 1 ELSE C[i]]
      BY <1>4, <2>7 DEF acquire, found
    <3>3. s \in Parts
      BY <1>2, <3>1
    <3>4. RequestsOK(stage', missing', use', ref', owed')
      <4>1. \A p \in Parts : owed'[p] # 0 => use'[p] = "ended"
        BY <1>0, <1>1, <1>2, <3>2 DEF RequestsOK
      <4>2. \A E \in Requests : stage'[E] \in {"new", "reload", "reloading"} =>
                               \A p \in E : use'[p] = "none"
        <5> SUFFICES ASSUME NEW E \in Requests, stage'[E] \in {"new", "reload", "reloading"},
                            NEW p \in E
                     PROVE  use'[p] = "none"
          OBVIOUS
        <5>1. E # B
          BY <2>1, <1>0 DEF RequestsOK
        <5>2. p \in Parts /\ p \notin B
          BY <5>1, RequestsDisjoint
        <5>3. stage[E] \in {"new", "reload", "reloading"}
          BY <2>5, <5>1
        <5>4. use[p] = "none"
          BY <1>0, <5>3 DEF RequestsOK
        <5>. QED  BY <3>2, <5>2, <5>4
      <4>3. \A p \in Singles : use'[p] # "looked up"
        BY <1>0, <3>2, PartsAssumption DEF RequestsOK
      <4>. QED  BY <1>0, <1>1, <2>1, <2>4, <3>2, <4>1, <4>2, <4>3 DEF RequestsOK
    <3>5. \A i : Holders(i, use', ref', owed') =
                     IF found[s].id = i THEN Holders(i, use, ref, owed) \cup {s}
                                        ELSE Holders(i, use, ref, owed)
      BY <1>1, <1>2, <2>1, <2>3, <3>1, <3>2, <3>3 DEF Holders
    <3>6. \A i : Cardinality(Holders(i, use, ref, owed) \cup {s})
                     <= Cardinality(Holders(i, use, ref, owed)) + 1
      BY HoldersFinite, FS_AddElement
    <3>7. Counted(counters', k, use', ref', owed')
      <4>1. ASSUME NEW i \in DOMAIN counters'
            PROVE  counters'[i] >= Cardinality(Holders(i, use', ref', owed'))
        <5>1. i \in DOMAIN C /\ C[i] \in Int /\ C[i] >= Cardinality(Holders(i, use, ref, owed))
          BY <1>0, <3>2 DEF Counted, Sound
        <5>2. CASE found[s].id = i
          <6>1. counters'[i] = C[i] + 1
            BY <3>1, <3>2, <5>1, <5>2
          <6>2. Holders(i, use', ref', owed') = Holders(i, use, ref, owed) \cup {s}
            BY <3>5, <5>2
          <6>3. Cardinality(Holders(i, use', ref', owed'))
                    <= Cardinality(Holders(i, use, ref, owed)) + 1
            BY <3>6, <6>2
          <6>4. C[i] \in Int /\ C[i] >= Cardinality(Holders(i, use, ref, owed))
            BY <5>1
          <6>5. /\ Cardinality(Holders(i, use, ref, owed)) \in Nat
                /\ Cardinality(Holders(i, use', ref', owed')) \in Nat
            BY HoldersFinite
          <6>. QED  BY <6>1, <6>3, <6>4, <6>5
        <5>3. CASE found[s].id # i
          <6>1. counters'[i] = C[i]
            BY <3>1, <3>2, <5>1, <5>3
          <6>2. Holders(i, use', ref', owed') = Holders(i, use, ref, owed)
            BY <3>5, <5>3
          <6>. QED  BY <5>1, <6>1, <6>2
        <5>. QED  BY <5>2, <5>3
      <4>. QED  BY <2>1, <2>4, <4>1 DEF Counted
    <3>8. Covered(counters', D, use', ref')
      <4> SUFFICES ASSUME NEW p \in Singles, use'[p] = "held"
                   PROVE  ref'[p] \in D /\ ref'[p].id \in DOMAIN counters'
        BY DEF Covered
      <4>1. p \in Parts /\ ref'[p] = found[p] /\ DOMAIN counters' = DOMAIN C
        BY <2>1, <3>2, PartsAssumption
      <4>2. CASE p \in B
        BY <2>2, <4>1, <4>2
      <4>3. CASE p \notin B
        <5>1. use[p] = "held" /\ found[p] = ref[p]
          BY <2>3, <3>2, <4>1, <4>3
        <5>2. ref[p] \in D /\ ref[p].id \in DOMAIN C
          BY <1>0, <5>1 DEF Covered
        <5>. QED  BY <4>1, <5>1, <5>2
      <4>. QED  BY <4>2, <4>3
    <3>9. Sound(registry', counters', D, L, k)
      <4>1. DOMAIN counters' = DOMAIN C
        BY <3>2
      <4>2. \A i \in DOMAIN C : C[i] \in Int
        BY <1>0 DEF Sound
      <4>3. \A i \in DOMAIN counters' : counters'[i] \in Int
        <5> SUFFICES ASSUME NEW i \in DOMAIN counters' PROVE counters'[i] \in Int
          OBVIOUS
        <5>1. C[i] \in Int /\ (counters'[i] = C[i] + 1 \/ counters'[i] = C[i])
          BY <3>2, <4>1, <4>2
        <5>. QED  BY <5>1
      <4>. QED  BY <1>0, <1>1, <4>1, <4>3 DEF Sound
    <3>. QED  BY <2>5, <3>4, <3>7, <3>8, <3>9 DEF Good
  <2>. QED  BY <2>6, <2>7
<1>. QED  BY <1>3, <1>4

\* A load that returns leaves the lock free and every count right.
LEMMA FinishKeeps ==
    ASSUME NEW load \in Loads, NEW ok \in BOOLEAN, NEW R, NEW C, NEW D, NEW k \in Nat,
           LoadOK(load, stage),
           Good(R, C, D, Free, k, stage, missing, use, ref, owed),
           finish(load, ok, R, C)
    PROVE  /\ lock' = Free
           /\ Good(registry', counters', D, Free, k, stage', missing', use', ref', owed')
<1> DEFINE wanted == [p \in Parts |-> ref[p].name]
<1>0. /\ RequestsOK(stage, missing, use, ref, owed)
      /\ load.by \in Requests \cup {Api}
      /\ load.by # Api => stage[load.by] = "reloading"
  BY DEF Good, Loads, LoadOK
<1>1. lock' = Free
  BY DEF finish
<1>2. CASE ok /\ load.by # Api /\ missing[load.by] \subseteq {load.name}
  <2>1. acquire(load.by, R, C, wanted)
    BY <1>2 DEF finish
  <2>2. wanted \in [Parts -> Names \cup {"none"}]
    BY <1>0 DEF RequestsOK
  <2>3. load.by \in Requests /\ stage[load.by] \in {"new", "reloading"}
    BY <1>0, <1>2
  <2> HIDE DEF wanted
  <2>4. Good(registry', counters', D, Free, k, stage', missing', use', ref', owed')
    BY <2>1, <2>2, <2>3, AcquireKeeps
  <2>. QED  BY <1>1, <2>4
<1>3. CASE ~(ok /\ load.by # Api /\ missing[load.by] \subseteq {load.name})
  <2>1. /\ registry' = R /\ counters' = C
        /\ use' = use /\ ref' = ref /\ owed' = owed
        /\ stage' = IF load.by = Api THEN stage
                    ELSE [stage EXCEPT ![load.by] = IF ok THEN "reload" ELSE "failed"]
        /\ missing' = IF load.by = Api THEN missing
                      ELSE [missing EXCEPT ![load.by] = @ \ {load.name}]
    BY <1>3 DEF finish
  <2>2. RequestsOK(stage', missing', use', ref', owed')
    <3>1. CASE load.by = Api
      BY <1>0, <2>1, <3>1
    <3>2. CASE load.by \in Requests
      <4>0. load.by # Api
        BY <3>2, RequestsDisjoint
      <4>1. stage' \in [Requests -> {"new", "reload", "reloading", "acquired", "failed"}]
        BY <1>0, <2>1, <3>2, <4>0 DEF RequestsOK
      <4>2. missing' \in [Requests -> SUBSET Names]
        BY <1>0, <2>1, <3>2, <4>0 DEF RequestsOK
      <4>3. \A B \in Requests : stage'[B] \in {"new", "reload", "reloading"} =>
                                    stage[B] \in {"new", "reload", "reloading"}
        BY <1>0, <2>1, <3>2, <4>0 DEF RequestsOK
      <4>. QED  BY <1>0, <2>1, <4>1, <4>2, <4>3 DEF RequestsOK
    <3>. QED  BY <1>0, <3>1, <3>2
  <2>. QED  BY <1>1, <2>1, <2>2 DEF Good
<1>. QED  BY <1>2, <1>3

\* unregister() and wait_for_unload(): the counter goes only at zero, when no
\* single request holds the adapter.
LEMMA UnregisterKeeps ==
    ASSUME NEW R, NEW r \in R, NEW after \in Loads \cup {Free}, NEW C, NEW D, NEW k \in Nat,
           Good(R, C, D, Free, k, stage, missing, use, ref, owed),
           unregister(r, after, R, C)
    PROVE  /\ lock' \in Unloads /\ lock'.after = after
           /\ stage' = stage
           /\ Good(registry', counters', D, lock', k, stage', missing', use', ref', owed')
<1>0. /\ RequestsOK(stage, missing, use, ref, owed)
      /\ Sound(R, C, D, Free, k)
      /\ Counted(C, k, use, ref, owed)
      /\ Covered(C, D, use, ref)
  BY DEF Good
<1>1. /\ D = R /\ D \subseteq Refs
      /\ \A u, o \in D : u.id = o.id \/ u.name = o.name => u = o
      /\ \A u \in D : u.id < k
      /\ DOMAIN C = {u.id : u \in R}
      /\ \A i \in DOMAIN C : C[i] \in Int
  BY <1>0 DEF Sound, Leaving, Draining, Free
<1>2. /\ registry' = R \ {r}
      /\ stage' = stage /\ missing' = missing /\ use' = use /\ ref' = ref /\ owed' = owed
  BY DEF unregister, reqvars
<1>3. r \in Refs /\ r.id \in DOMAIN C
  BY <1>1
<1>4. CASE C[r.id] = 0
  <2>1. /\ counters' = without(C, r.id)
        /\ lock' = [phase |-> "unloading", ref |-> r, after |-> after]
    BY <1>4 DEF unregister
  <2>2. /\ lock' \in Unloads /\ lock'.after = after
        /\ Leaving(lock') = {r} /\ Draining(lock') = {}
    BY <1>3, <2>1 DEF Unloads, Leaving, Draining
  <2>3. /\ DOMAIN counters' = DOMAIN C \ {r.id}
        /\ \A i \in DOMAIN counters' : counters'[i] = C[i]
    BY <2>1 DEF without
  <2>4. DOMAIN C \ {r.id} = {u.id : u \in R \ {r}}
    <3>1. \A u \in R \ {r} : u.id # r.id /\ u.id \in DOMAIN C
      BY <1>1
    <3>2. \A i \in DOMAIN C \ {r.id} : \E u \in R \ {r} : u.id = i
      BY <1>1
    <3>. QED  BY <3>1, <3>2
  <2>5. Sound(registry', counters', D, lock', k)
    <3>1. /\ D = registry' \cup Leaving(lock') /\ registry' \cap Leaving(lock') = {}
          /\ registry' \cup Draining(lock') = R \ {r}
      BY <1>1, <1>2, <2>2
    <3>2. \A i \in DOMAIN counters' : counters'[i] \in Int
      BY <1>1, <2>3
    <3>3. DOMAIN counters' = {u.id : u \in registry' \cup Draining(lock')}
      BY <2>3, <2>4, <3>1
    <3>. QED  BY <1>1, <3>1, <3>2, <3>3 DEF Sound
  <2>6. Counted(counters', k, use', ref', owed')
    BY <1>0, <1>2, <2>3 DEF Counted
  <2>7. Covered(counters', D, use', ref')
    <3>1. Holders(r.id, use, ref, owed) = {}
      <4>1. Cardinality(Holders(r.id, use, ref, owed)) = 0
        <5>1. 0 >= Cardinality(Holders(r.id, use, ref, owed))
          BY <1>0, <1>3, <1>4 DEF Counted
        <5>2. Cardinality(Holders(r.id, use, ref, owed)) \in Nat
          BY HoldersFinite
        <5>. QED  BY <5>1, <5>2
      <4>. QED  BY <4>1, HoldersFinite, FS_EmptySet
    <3>2. \A p \in Singles : use[p] = "held" => ref[p].id # r.id
      BY <3>1, PartsAssumption DEF Holders
    <3>. QED  BY <1>0, <1>2, <2>3, <3>2 DEF Covered
  <2>. QED  BY <1>0, <1>2, <2>2, <2>5, <2>6, <2>7 DEF Good
<1>5. CASE C[r.id] # 0
  <2>1. /\ counters' = C
        /\ lock' = [phase |-> "draining", ref |-> r, after |-> after]
    BY <1>5 DEF unregister
  <2>2. /\ lock' \in Unloads /\ lock'.after = after
        /\ Leaving(lock') = {r} /\ Draining(lock') = {r}
    BY <1>3, <2>1 DEF Unloads, Leaving, Draining
  <2>3. (R \ {r}) \cup {r} = R
    OBVIOUS
  <2>4. Sound(registry', counters', D, lock', k)
    BY <1>1, <1>2, <2>1, <2>2, <2>3 DEF Sound
  <2>. QED  BY <1>0, <1>2, <2>1, <2>2, <2>4 DEF Good
<1>. QED  BY <1>4, <1>5

\* The end of a load: it returns, fails, or evicts and waits.
LEMMA TrimKeeps ==
    ASSUME NEW load \in Loads, NEW ok \in BOOLEAN, NEW R, NEW C, NEW D,
           NEW k \in 1..(MaxLoads + 1),
           LoadOK(load, stage),
           Good(R, C, D, Free, k, stage, missing, use, ref, owed),
           trim(load, ok, R, C)
    PROVE  /\ LockOK(lock', k, stage')
           /\ Good(registry', counters', D, lock', Top(lock', k),
                   stage', missing', use', ref', owed')
<1>0. k \in Nat
  BY LimitAssumption
<1>1. ASSUME NEW o \in BOOLEAN, finish(load, o, R, C)
      PROVE  /\ LockOK(lock', k, stage')
             /\ Good(registry', counters', D, lock', Top(lock', k),
                     stage', missing', use', ref', owed')
  <2>1. /\ lock' = Free
        /\ Good(registry', counters', D, Free, k, stage', missing', use', ref', owed')
    BY <1>0, <1>1, FinishKeeps
  <2>2. LockOK(lock', k, stage') /\ Top(lock', k) = k
    BY <2>1 DEF LockOK, Top, Free
  <2>. QED  BY <2>1, <2>2
<1>2. ASSUME NEW r \in R, unregister(r, [load EXCEPT !.ok = ok], R, C)
      PROVE  /\ LockOK(lock', k, stage')
             /\ Good(registry', counters', D, lock', Top(lock', k),
                     stage', missing', use', ref', owed')
  <2> DEFINE after == [load EXCEPT !.ok = ok]
  <2>1. after \in Loads /\ LoadOK(after, stage)
    BY DEF Loads, LoadOK
  <2>2. unregister(r, after, R, C)
    BY <1>2
  <2> HIDE DEF after
  <2>3. /\ lock' \in Unloads /\ lock'.after = after
        /\ stage' = stage
        /\ Good(registry', counters', D, lock', k, stage', missing', use', ref', owed')
    BY <1>0, <2>1, <2>2, UnregisterKeeps
  <2>4. lock'.phase \in {"draining", "unloading"}
    BY <2>3 DEF Unloads
  <2>5. LockOK(lock', k, stage') /\ Top(lock', k) = k
    BY <2>1, <2>3, <2>4 DEF LockOK, Top
  <2>. QED  BY <2>3, <2>5
<1>. QED  BY <1>1, <1>2 DEF trim

-----------------------------------------------------------------------------
(* One lemma per action.                                                   *)

\* load_lora_adapter() sends its request: the id is new.
LEMMA StartLoadKeeps ==
    ASSUME IInv, NEW by \in Requests \cup {Api}, NEW n \in Names,
           start_load(by, n),
           by = Api => stage' = stage,
           by # Api => stage[by] = "reload" /\ stage' = [stage EXCEPT ![by] = "reloading"],
           UNCHANGED <<registry, counters, loaded, missing, use, ref, owed>>
    PROVE  IInv'
<1>1. /\ lock = Free /\ next_id \in 1..(MaxLoads + 1) /\ next_id <= MaxLoads
      /\ next_id' = next_id + 1
      /\ lock' = [phase |-> "loading", by |-> by, name |-> n, id |-> next_id, ok |-> FALSE]
      /\ Good(registry, counters, loaded, lock, Top(lock, next_id),
              stage, missing, use, ref, owed)
  BY DEF start_load, IInv, LockOK
<1>2. /\ lock' \in Loads
      /\ Top(lock', next_id') = next_id /\ Top(lock, next_id) = next_id
      /\ Leaving(lock') = {} /\ Draining(lock') = {} /\ Leaving(lock) = {} /\ Draining(lock) = {}
  <2>1. next_id \in 1..MaxLoads
    BY <1>1, LimitAssumption
  <2>2. lock' \in Loads
    BY <1>1, <2>1 DEF Loads
  <2>3. Top(lock', next_id') = next_id /\ Leaving(lock') = {} /\ Draining(lock') = {}
    BY <1>1 DEF Top, Leaving, Draining
  <2>4. Top(lock, next_id) = next_id /\ Leaving(lock) = {} /\ Draining(lock) = {}
    BY <1>1 DEF Top, Leaving, Draining, Free
  <2>. QED  BY <2>2, <2>3, <2>4
<1>3. RequestsOK(stage, missing, use, ref, owed)
  BY <1>1 DEF Good
<1>4. RequestsOK(stage', missing', use', ref', owed') /\ LoadOK(lock', stage')
  <2>1. CASE by = Api
    BY <1>1, <1>3, <2>1 DEF LoadOK
  <2>2. CASE by \in Requests /\ by # Api
    <3>1. stage' = [stage EXCEPT ![by] = "reloading"] /\ stage[by] = "reload"
      BY <2>2
    <3>2. stage' \in [Requests -> {"new", "reload", "reloading", "acquired", "failed"}]
      BY <1>3, <3>1 DEF RequestsOK
    <3>3. \A B \in Requests : stage'[B] \in {"new", "reload", "reloading"} =>
                                  stage[B] \in {"new", "reload", "reloading"}
      BY <1>3, <3>1 DEF RequestsOK
    <3>4. stage'[by] = "reloading"
      BY <1>3, <2>2, <3>1 DEF RequestsOK
    <3>5. RequestsOK(stage', missing', use', ref', owed')
      BY <1>3, <3>2, <3>3 DEF RequestsOK
    <3>. QED  BY <1>1, <3>4, <3>5 DEF LoadOK
  <2>. QED  BY <2>1, <2>2
<1>5. LockOK(lock', next_id', stage')
  <2>1. next_id' \in 1..(MaxLoads + 1) /\ next_id < next_id'
    BY <1>1, LimitAssumption
  <2>2. lock'.phase = "loading" /\ lock'.id = next_id
    BY <1>1
  <2>. QED  BY <1>2, <1>4, <2>1, <2>2 DEF LockOK
<1>6. Sound(registry, counters, loaded, lock', next_id)
  BY <1>1, <1>2 DEF Good, Sound
<1>7. Good(registry', counters', loaded', lock', Top(lock', next_id'),
           stage', missing', use', ref', owed')
  BY <1>1, <1>2, <1>4, <1>6 DEF Good
<1>. QED  BY <1>5, <1>7 DEF IInv

\* The next id is a positive number, whoever holds the lock.
LEMMA TopIsNat ==
    ASSUME NEW L, NEW k, NEW S, LockOK(L, k, S)
    PROVE  Top(L, k) \in Nat /\ 0 < Top(L, k)
<1>1. k \in Nat /\ 0 < k
  BY LimitAssumption DEF LockOK
<1>2. L \in Loads => L.id \in Nat /\ 0 < L.id
  BY LimitAssumption DEF Loads
<1>3. L \in Unloads \/ L = Free => L.phase # "loading"
  BY DEF Unloads, Free
<1>4. L \in {Free} \cup Loads \cup Unloads
  BY DEF LockOK
<1>. QED  BY <1>1, <1>2, <1>3, <1>4 DEF Top

\* A lock in its loading phase is that of a load, with its id.
LEMMA LoadingLock ==
    ASSUME NEW L, NEW k, NEW S, LockOK(L, k, S), L.phase = "loading"
    PROVE  /\ L \in Loads /\ LoadOK(L, S) /\ L.id < k
           /\ k \in 1..(MaxLoads + 1)
           /\ Top(L, k) = L.id
<1>1. L \in {Free} \cup Loads \cup Unloads
  BY DEF LockOK
<1>2. L \notin Unloads /\ L # Free
  BY DEF Unloads, Free
<1>3. /\ LoadOK(L, S) /\ L.id < k
      /\ k \in 1..(MaxLoads + 1)
  BY DEF LockOK
<1>4. Top(L, k) = L.id
  BY DEF Top
<1>. QED  BY <1>1, <1>2, <1>3, <1>4

LEMMA LoadReplyKeeps == IInv /\ LoadReply => IInv'
<1> SUFFICES ASSUME IInv, LoadReply PROVE IInv'
  OBVIOUS
<1> DEFINE r == [name |-> lock.name, id |-> lock.id]
           C2 == [i \in DOMAIN counters \cup {r.id} |-> IF i = r.id THEN 0 ELSE counters[i]]
<1> HIDE DEF C2
<1>0. /\ lock.phase = "loading" /\ LockOK(lock, next_id, stage) /\ next_id' = next_id
      /\ Good(registry, counters, loaded, lock, Top(lock, next_id),
              stage, missing, use, ref, owed)
  BY DEF LoadReply, IInv
<1>1. /\ lock \in Loads /\ LoadOK(lock, stage) /\ lock.id < next_id
      /\ next_id \in 1..(MaxLoads + 1)
      /\ Top(lock, next_id) = lock.id
  BY <1>0, LoadingLock
<1>2. /\ r \in Refs /\ r.id = lock.id /\ r.name = lock.name
      /\ lock.id \in Nat /\ next_id \in Nat /\ MaxLoads \in Nat
  BY <1>1, LimitAssumption DEF Loads, Refs
<1> HIDE DEF r
<1>3. /\ RequestsOK(stage, missing, use, ref, owed)
      /\ loaded = registry /\ loaded \subseteq Refs
      /\ \A u, o \in loaded : u.id = o.id \/ u.name = o.name => u = o
      /\ \A u \in loaded : u.id < lock.id
      /\ DOMAIN counters = {u.id : u \in registry}
      /\ \A i \in DOMAIN counters : counters[i] \in Int
      /\ Counted(counters, lock.id, use, ref, owed)
      /\ Covered(counters, loaded, use, ref)
  <2>1. Leaving(lock) = {} /\ Draining(lock) = {}
    BY <1>0 DEF Leaving, Draining
  <2>2. /\ RequestsOK(stage, missing, use, ref, owed)
        /\ Sound(registry, counters, loaded, lock, lock.id)
        /\ Counted(counters, lock.id, use, ref, owed)
        /\ Covered(counters, loaded, use, ref)
    BY <1>0, <1>1 DEF Good
  <2>. QED  BY <2>1, <2>2 DEF Sound
<1>4. ASSUME NEW u \in loaded
      PROVE  u.id \in Nat /\ u.id < lock.id /\ u.id # lock.id /\ u.id < next_id
  <2>1. u \in Refs /\ u.id < lock.id
    BY <1>3
  <2>2. u.id \in Nat
    BY <2>1, LimitAssumption DEF Refs
  <2>3. lock.id < next_id /\ lock.id \in Nat /\ next_id \in Nat
    BY <1>1, <1>2
  <2>. QED  BY <2>1, <2>2, <2>3
<1>5. \A p \in Parts : ref[p].id \in Nat /\ ref[p].id < lock.id /\ ref[p].id < next_id
  <2>1. ref \in [Parts -> [name : Names \cup {"none"}, id : 0..MaxLoads]]
    BY <1>3 DEF RequestsOK
  <2>2. \A p \in Parts : ref[p].id \in Nat
    BY <2>1, LimitAssumption
  <2>3. \A p \in Parts : ref[p].id < lock.id
    BY <1>3 DEF Counted
  <2>4. \A i \in Nat : i < lock.id => i < next_id
    BY <1>1, <1>2
  <2>. QED  BY <2>2, <2>3, <2>4
<1>6. Good(registry, counters, loaded, Free, next_id, stage, missing, use, ref, owed)
  <2>1. Sound(registry, counters, loaded, Free, next_id)
    <3>1. \A u \in loaded : u.id < next_id
      BY <1>4
    <3>2. Leaving(Free) = {} /\ Draining(Free) = {}
      BY DEF Leaving, Draining, Free
    <3>. QED  BY <1>3, <3>1, <3>2 DEF Sound
  <2>2. Counted(counters, next_id, use, ref, owed)
    BY <1>3, <1>5 DEF Counted
  <2>. QED  BY <1>3, <2>1, <2>2 DEF Good
<1>7. ASSUME NEW ok \in BOOLEAN, trim(lock, ok, registry, counters), loaded' = loaded
      PROVE  IInv'
  BY <1>0, <1>1, <1>6, <1>7, TrimKeeps DEF IInv
<1>8. ASSUME ~Registered(lock.name, loaded),
             trim(lock, TRUE, registry \cup {r}, C2), loaded' = loaded \cup {r}
      PROVE  IInv'
  <2>1. /\ DOMAIN C2 = DOMAIN counters \cup {lock.id}
        /\ C2[lock.id] = 0
        /\ \A i \in DOMAIN counters : i # lock.id /\ C2[i] = counters[i]
    <3>1. \A i \in DOMAIN counters : i # lock.id
      <4>1. \A i \in DOMAIN counters : \E u \in loaded : u.id = i
        BY <1>3
      <4>. QED  BY <1>4, <4>1
    <3>. QED  BY <1>2, <3>1 DEF C2
  <2>2. Sound(registry \cup {r}, C2, loaded \cup {r}, Free, next_id)
    <3>0. Leaving(Free) = {} /\ Draining(Free) = {}
      BY DEF Leaving, Draining, Free
    <3>1. \A u, o \in loaded \cup {r} : u.id = o.id \/ u.name = o.name => u = o
      <4>1. \A u \in loaded : u.name # r.name
        BY <1>2, <1>8 DEF Registered
      <4>2. \A u \in loaded : u.id # r.id
        BY <1>2, <1>4
      <4>3. \A u, o \in loaded : u.id = o.id \/ u.name = o.name => u = o
        BY <1>3
      <4>. QED  BY <4>1, <4>2, <4>3
    <3>2. \A u \in loaded \cup {r} : u.id < next_id
      BY <1>1, <1>2, <1>4
    <3>3. \A i \in DOMAIN C2 : C2[i] \in Int
      <4>1. \A i \in DOMAIN counters : counters[i] \in Int
        BY <1>3
      <4>. QED  BY <2>1, <4>1
    <3>4. DOMAIN C2 = {u.id : u \in registry \cup {r}}
      <4>1. DOMAIN counters = {u.id : u \in registry} /\ lock.id = r.id
        BY <1>2, <1>3
      <4>2. {u.id : u \in registry \cup {r}} = {u.id : u \in registry} \cup {r.id}
        OBVIOUS
      <4>. QED  BY <2>1, <4>1, <4>2
    <3>. QED  BY <1>2, <1>3, <3>0, <3>1, <3>2, <3>3, <3>4 DEF Sound
  <2>3. Counted(C2, next_id, use, ref, owed)
    <3>1. Holders(lock.id, use, ref, owed) = {}
      <4>1. \A p \in Parts : ref[p].id # lock.id
        BY <1>2, <1>5
      <4>. QED  BY <4>1 DEF Holders
    <3>2. C2[lock.id] >= Cardinality(Holders(lock.id, use, ref, owed))
      BY <2>1, <3>1, FS_EmptySet
    <3>3. \A i \in DOMAIN counters : C2[i] >= Cardinality(Holders(i, use, ref, owed))
      BY <1>3, <2>1 DEF Counted
    <3>4. \A i \in DOMAIN C2 : C2[i] >= Cardinality(Holders(i, use, ref, owed))
      BY <2>1, <3>2, <3>3
    <3>. QED  BY <1>5, <3>4 DEF Counted
  <2>4. Covered(C2, loaded \cup {r}, use, ref)
    BY <1>3, <2>1 DEF Covered
  <2>5. Good(registry \cup {r}, C2, loaded \cup {r}, Free, next_id,
             stage, missing, use, ref, owed)
    BY <1>3, <2>2, <2>3, <2>4 DEF Good
  <2>. QED  BY <1>0, <1>1, <1>8, <2>5, TrimKeeps DEF IInv
<1> USE DEF r, C2
<1>9. PICK result \in {"success", "already loaded", "failure"} :
        /\ (result = "already loaded") = Registered(r.name, loaded)
        /\ IF result # "success"
           THEN /\ trim(lock, result = "already loaded", registry, counters)
                /\ loaded' = loaded
           ELSE /\ loaded' = loaded \cup {r}
                /\ ~Registered(r.name, registry) => trim(lock, TRUE, registry \cup {r}, C2)
  BY DEF LoadReply
<1>10. CASE result # "success"
  BY <1>7, <1>9, <1>10
<1>11. CASE result = "success"
  <2>1. ~Registered(r.name, loaded)
    BY <1>9, <1>11
  <2>. QED  BY <1>2, <1>3, <1>8, <1>9, <1>11, <2>1
<1>. QED  BY <1>10, <1>11

\* wait_for_zero() returns: the counter goes, and nobody holds the adapter.
LEMMA DrainedKeeps == IInv /\ Drained => IInv'
<1> SUFFICES ASSUME IInv, Drained PROVE IInv'
  OBVIOUS
<1> DEFINE i0 == lock.ref.id
<1>1. /\ lock.phase = "draining" /\ counters[i0] = 0
      /\ counters' = without(counters, i0)
      /\ lock' = [lock EXCEPT !.phase = "unloading"]
      /\ registry' = registry /\ loaded' = loaded /\ next_id' = next_id
      /\ stage' = stage /\ missing' = missing /\ use' = use /\ ref' = ref /\ owed' = owed
  BY DEF Drained, reqvars
<1>2. /\ lock \in Unloads /\ next_id \in 1..(MaxLoads + 1)
      /\ lock.after # Free => LoadOK(lock.after, stage)
      /\ Good(registry, counters, loaded, lock, Top(lock, next_id),
              stage, missing, use, ref, owed)
  BY <1>1 DEF IInv, LockOK, Loads, Free
<1>3. /\ lock' \in Unloads /\ lock'.phase = "unloading"
      /\ lock'.after = lock.after /\ lock'.ref = lock.ref
  BY <1>1, <1>2 DEF Unloads
<1>4. /\ Top(lock', next_id') = next_id /\ Top(lock, next_id) = next_id
      /\ Leaving(lock') = {lock.ref} /\ Draining(lock') = {}
      /\ Leaving(lock) = {lock.ref} /\ Draining(lock) = {lock.ref}
  BY <1>1, <1>3 DEF Top, Leaving, Draining
<1>5. /\ RequestsOK(stage, missing, use, ref, owed)
      /\ Sound(registry, counters, loaded, lock, next_id)
      /\ Counted(counters, next_id, use, ref, owed)
      /\ Covered(counters, loaded, use, ref)
  BY <1>2, <1>4 DEF Good
<1>6. LockOK(lock', next_id', stage')
  BY <1>1, <1>2, <1>3 DEF LockOK
<1>7. /\ i0 \in DOMAIN counters
      /\ DOMAIN counters \ {i0} = {u.id : u \in registry}
  <2>1. DOMAIN counters = {u.id : u \in registry \cup {lock.ref}}
    BY <1>4, <1>5 DEF Sound
  <2>2. \A u \in registry : u.id # i0
    BY <1>4, <1>5 DEF Sound
  <2>. QED  BY <2>1, <2>2
<1>8. /\ DOMAIN counters' = DOMAIN counters \ {i0}
      /\ \A i \in DOMAIN counters' : counters'[i] = counters[i]
  BY <1>1 DEF without
<1>9. Sound(registry', counters', loaded', lock', next_id)
  BY <1>1, <1>4, <1>5, <1>7, <1>8 DEF Sound
<1>10. Counted(counters', next_id, use', ref', owed')
  BY <1>1, <1>5, <1>8 DEF Counted
<1>11. Covered(counters', loaded', use', ref')
  <2>1. Holders(i0, use, ref, owed) = {}
    <3>1. Cardinality(Holders(i0, use, ref, owed)) = 0
      BY <1>1, <1>5, <1>7, HoldersFinite DEF Counted
    <3>. QED  BY <3>1, HoldersFinite, FS_EmptySet
  <2>2. \A p \in Singles : use[p] = "held" => ref[p].id # i0
    BY <2>1, PartsAssumption DEF Holders
  <2>. QED  BY <1>1, <1>5, <1>8, <2>2 DEF Covered
<1>12. Good(registry', counters', loaded', lock', Top(lock', next_id'),
            stage', missing', use', ref', owed')
  BY <1>1, <1>4, <1>5, <1>9, <1>10, <1>11 DEF Good
<1>. QED  BY <1>6, <1>12 DEF IInv

\* The scheduler has unloaded the adapter: no single request held it.
LEMMA UnloadReplyKeeps == IInv /\ UnloadReply => IInv'
<1> SUFFICES ASSUME IInv, UnloadReply PROVE IInv'
  OBVIOUS
<1>1. /\ lock.phase = "unloading" /\ loaded' = loaded \ {lock.ref} /\ next_id' = next_id
  BY DEF UnloadReply
<1>2. /\ lock \in Unloads /\ next_id \in 1..(MaxLoads + 1)
      /\ lock.after # Free => LoadOK(lock.after, stage)
      /\ Good(registry, counters, loaded, lock, Top(lock, next_id),
              stage, missing, use, ref, owed)
  <2>1. /\ LockOK(lock, next_id, stage)
        /\ Good(registry, counters, loaded, lock, Top(lock, next_id),
                stage, missing, use, ref, owed)
    BY DEF IInv
  <2>2. lock \in {Free} \cup Loads \cup Unloads /\ next_id \in 1..(MaxLoads + 1)
    BY <2>1 DEF LockOK
  <2>3. lock \notin Loads /\ lock # Free
    BY <1>1 DEF Loads, Free
  <2>4. lock.after # Free => LoadOK(lock.after, stage)
    BY <1>1, <2>1 DEF LockOK
  <2>. QED  BY <2>1, <2>2, <2>3, <2>4
<1>3. /\ Top(lock, next_id) = next_id
      /\ Leaving(lock) = {lock.ref} /\ Draining(lock) = {}
  BY <1>1 DEF Top, Leaving, Draining
<1>4. /\ RequestsOK(stage, missing, use, ref, owed)
      /\ Sound(registry, counters, loaded, lock, next_id)
      /\ Counted(counters, next_id, use, ref, owed)
      /\ Covered(counters, loaded, use, ref)
  BY <1>2, <1>3 DEF Good
<1>5. /\ loaded' = registry
      /\ \A u \in registry : u.id # lock.ref.id
      /\ DOMAIN counters = {u.id : u \in registry}
  BY <1>1, <1>3, <1>4 DEF Sound
<1>6. Sound(registry, counters, loaded', Free, next_id)
  BY <1>3, <1>4, <1>5 DEF Sound, Leaving, Draining, Free
<1>7. Covered(counters, loaded', use, ref)
  BY <1>1, <1>4, <1>5 DEF Covered
<1>8. Good(registry, counters, loaded', Free, next_id, stage, missing, use, ref, owed)
  BY <1>4, <1>6, <1>7 DEF Good
<1>9. CASE lock.after = Free
  <2>1. /\ lock' = Free /\ registry' = registry /\ counters' = counters
        /\ stage' = stage /\ missing' = missing /\ use' = use /\ ref' = ref /\ owed' = owed
    BY <1>9 DEF UnloadReply, reqvars
  <2>2. LockOK(lock', next_id', stage') /\ Top(lock', next_id') = next_id
    BY <1>1, <1>2, <2>1 DEF LockOK, Top, Free
  <2>. QED  BY <1>8, <2>1, <2>2 DEF IInv
<1>10. CASE lock.after # Free
  <2>1. lock.after \in Loads /\ LoadOK(lock.after, stage) /\ lock.after.ok \in BOOLEAN
    BY <1>2, <1>10 DEF Unloads, Loads
  <2>2. trim(lock.after, lock.after.ok, registry, counters)
    BY <1>10 DEF UnloadReply
  <2>. QED  BY <1>1, <1>2, <1>8, <2>1, <2>2, TrimKeeps DEF IInv
<1>. QED  BY <1>9, <1>10

LEMMA ApiKeeps == IInv /\ (ApiLoad \/ ApiUnload) => IInv'
<1>1. ASSUME IInv, ApiLoad PROVE IInv'
  <2>1. PICK n \in Names : start_load(Api, n)
    BY <1>1 DEF ApiLoad
  <2>2. stage' = stage /\ UNCHANGED <<registry, counters, loaded, missing, use, ref, owed>>
    BY <1>1 DEF ApiLoad, reqvars
  <2>. QED  BY <1>1, <2>1, <2>2, StartLoadKeeps
<1>2. ASSUME IInv, ApiUnload PROVE IInv'
  <2>1. PICK r \in registry : unregister(r, Free, registry, counters)
    BY <1>2 DEF ApiUnload
  <2>2. lock = Free /\ loaded' = loaded /\ next_id' = next_id
    BY <1>2 DEF ApiUnload
  <2>3. /\ next_id \in 1..(MaxLoads + 1) /\ next_id \in Nat
        /\ Good(registry, counters, loaded, Free, next_id, stage, missing, use, ref, owed)
    <3>1. Top(lock, next_id) = next_id
      BY <2>2 DEF Top, Free
    <3>2. next_id \in 1..(MaxLoads + 1)
      BY <1>2 DEF IInv, LockOK
    <3>3. next_id \in Nat
      BY <3>2, LimitAssumption
    <3>. QED  BY <1>2, <2>2, <3>1, <3>2, <3>3 DEF IInv
  <2>4. /\ lock' \in Unloads /\ lock'.after = Free
        /\ stage' = stage
        /\ Good(registry', counters', loaded, lock', next_id, stage', missing', use', ref', owed')
    BY <2>1, <2>3, UnregisterKeeps
  <2>5. LockOK(lock', next_id', stage') /\ Top(lock', next_id') = next_id
    BY <2>2, <2>3, <2>4 DEF LockOK, Top, Unloads
  <2>. QED  BY <2>2, <2>4, <2>5 DEF IInv
<1>. QED  BY <1>1, <1>2

\* A request that is not the one being loaded for leaves the lock in order.
LEMMA LockUndisturbed ==
    ASSUME LockOK(lock, next_id, stage), NEW B \in Requests, stage[B] # "reloading",
           \A E \in Requests \ {B} : stage'[E] = stage[E]
    PROVE  LockOK(lock, next_id, stage')
<1>1. \A load \in Loads : LoadOK(load, stage) => LoadOK(load, stage')
  BY DEF LoadOK, Loads
<1>2. /\ lock.phase = "loading" => lock \in Loads
      /\ lock.phase \in {"draining", "unloading"} /\ lock.after # Free => lock.after \in Loads
  <2>1. lock.phase = "loading" => lock \in Loads
    BY LoadingLock
  <2>2. lock.phase \in {"draining", "unloading"} => lock \in Unloads
    <3>1. lock \in {Free} \cup Loads \cup Unloads
      BY DEF LockOK
    <3>2. \A L \in {Free} \cup Loads : L.phase \notin {"draining", "unloading"}
      BY DEF Loads, Free
    <3>. QED  BY <3>1, <3>2
  <2>3. lock \in Unloads /\ lock.after # Free => lock.after \in Loads
    BY DEF Unloads
  <2>. QED  BY <2>1, <2>2, <2>3
<1>. QED  BY <1>1, <1>2 DEF LockOK

\* Only the stage, and perhaps the wishes, of a request that holds nothing change.
LEMMA WaitKeeps ==
    ASSUME IInv, NEW B \in Requests, stage[B] \in {"new", "reload"},
           NEW s \in {"reload", "failed"}, NEW m \in SUBSET Names,
           NEW f \in [Parts -> [name : Names \cup {"none"}, id : 0..MaxLoads]],
           \A p \in Parts : f[p] = ref[p] \/ (p \in B /\ f[p].id = 0),
           stage' = [stage EXCEPT ![B] = s],
           missing' = [missing EXCEPT ![B] = m],
           ref' = f,
           UNCHANGED <<registry, counters, loaded, next_id, lock, use, owed>>
    PROVE  IInv'
<1> DEFINE k == Top(lock, next_id)
<1>1. /\ LockOK(lock, next_id, stage)
      /\ RequestsOK(stage, missing, use, ref, owed)
      /\ Sound(registry, counters, loaded, lock, k)
      /\ Counted(counters, k, use, ref, owed)
      /\ Covered(counters, loaded, use, ref)
  BY DEF IInv, Good
<1>2. \A p \in B : p \in Parts /\ use[p] = "none" /\ owed[p] = 0
  <2>1. \A p \in B : p \in Parts /\ use[p] = "none"
    BY <1>1, RequestsDisjoint DEF RequestsOK
  <2>2. \A p \in Parts : owed[p] \in {0, 1} /\ (owed[p] # 0 => use[p] = "ended")
    BY <1>1 DEF RequestsOK
  <2>. QED  BY <2>1, <2>2
<1>3. RequestsOK(stage', missing', use', ref', owed')
  <2>1. stage' \in [Requests -> {"new", "reload", "reloading", "acquired", "failed"}]
    BY <1>1 DEF RequestsOK
  <2>2. missing' \in [Requests -> SUBSET Names]
    BY <1>1 DEF RequestsOK
  <2>3. \A E \in Requests : stage'[E] \in {"new", "reload", "reloading"} =>
                                stage[E] \in {"new", "reload", "reloading"}
    BY <1>1 DEF RequestsOK
  <2>. QED  BY <1>1, <2>1, <2>2, <2>3 DEF RequestsOK
<1>4. LockOK(lock', next_id', stage')
  <2>1. \A E \in Requests \ {B} : stage'[E] = stage[E]
    BY <1>1 DEF RequestsOK
  <2>. QED  BY <1>1, <2>1, LockUndisturbed
<1>5. k \in Nat /\ 0 < k
  BY <1>1, TopIsNat
<1> HIDE DEF k
<1>6. \A p \in Parts : use[p] = "held" \/ owed[p] # 0 => ref'[p] = ref[p]
  BY <1>2
<1>7. \A i : Holders(i, use', ref', owed') \subseteq Holders(i, use, ref, owed)
  BY <1>6 DEF Holders
<1>8. Counted(counters', k, use', ref', owed')
  <2>1. ASSUME NEW i \in DOMAIN counters
        PROVE  counters[i] >= Cardinality(Holders(i, use', ref', owed'))
    <3>1. Cardinality(Holders(i, use', ref', owed')) <= Cardinality(Holders(i, use, ref, owed))
      BY <1>7, HoldersFinite, FS_Subset
    <3>2. counters[i] \in Int /\ counters[i] >= Cardinality(Holders(i, use, ref, owed))
      BY <1>1 DEF Counted, Sound
    <3>3. /\ Cardinality(Holders(i, use', ref', owed')) \in Nat
          /\ Cardinality(Holders(i, use, ref, owed)) \in Nat
      BY HoldersFinite
    <3>. QED  BY <3>1, <3>2, <3>3
  <2>2. \A p \in Parts : ref'[p].id < k
    BY <1>1, <1>5 DEF Counted
  <2>. QED  BY <2>1, <2>2 DEF Counted
<1>9. Covered(counters', loaded', use', ref')
  BY <1>1, <1>6, PartsAssumption DEF Covered
<1>10. Good(registry', counters', loaded', lock', k, stage', missing', use', ref', owed')
  BY <1>1, <1>3, <1>8, <1>9 DEF Good
<1>11. Top(lock', next_id') = k
  BY DEF k
<1>. QED  BY <1>4, <1>10, <1>11 DEF IInv

LEMMA ResolveKeeps == ASSUME IInv, NEW B \in Requests, Resolve(B) PROVE IInv'
<1>0. PICK w \in [B -> Names] : Resolve(B)!(w)
  BY DEF Resolve
<1> DEFINE wanted == [p \in Parts |-> IF p \in B THEN w[p] ELSE ref[p].name]
           names == {w[p] : p \in B}
           unregistered == {n \in names : ~Registered(n, registry)}
           f == [p \in Parts |-> IF p \in B THEN [name |-> w[p], id |-> 0] ELSE ref[p]]
<1>1. /\ stage[B] = "new"
      /\ loaded' = loaded /\ next_id' = next_id /\ lock' = lock
  BY <1>0
<1>2. /\ LockOK(lock, next_id, stage)
      /\ RequestsOK(stage, missing, use, ref, owed)
      /\ Good(registry, counters, loaded, lock, Top(lock, next_id),
              stage, missing, use, ref, owed)
  BY DEF IInv, Good
<1>3. ref \in [Parts -> [name : Names \cup {"none"}, id : 0..MaxLoads]]
  BY <1>2 DEF RequestsOK
<1>4. CASE Cardinality(names) > max_loaded_loras
  <2>1. /\ stage' = [stage EXCEPT ![B] = "failed"]
        /\ missing' = missing /\ ref' = ref
        /\ UNCHANGED <<registry, counters, use, owed>>
    BY <1>0, <1>4
  <2>2. missing[B] \in SUBSET Names /\ missing' = [missing EXCEPT ![B] = missing[B]]
    BY <1>2, <2>1 DEF RequestsOK
  <2>. QED  BY <1>1, <1>3, <2>1, <2>2, WaitKeeps
<1>5. CASE ~(Cardinality(names) > max_loaded_loras) /\ unregistered = {}
  <2>1. acquire(B, registry, counters, wanted)
    BY <1>0, <1>5
  <2>2. wanted \in [Parts -> Names \cup {"none"}]
    BY <1>3
  <2>3. Top(lock, next_id) \in Nat
    BY <1>2, TopIsNat
  <2> HIDE DEF wanted
  <2>4. /\ Good(registry', counters', loaded, lock, Top(lock, next_id),
                stage', missing', use', ref', owed')
        /\ \A E \in Requests \ {B} : stage'[E] = stage[E]
    BY <1>1, <1>2, <2>1, <2>2, <2>3, AcquireKeeps
  <2>5. LockOK(lock, next_id, stage')
    BY <1>1, <1>2, <2>4, LockUndisturbed
  <2>. QED  BY <1>1, <2>4, <2>5 DEF IInv
<1>6. CASE ~(Cardinality(names) > max_loaded_loras) /\ unregistered # {}
  <2>1. /\ stage' = [stage EXCEPT ![B] = "reload"]
        /\ missing' = [missing EXCEPT ![B] = unregistered]
        /\ ref' = f
        /\ UNCHANGED <<registry, counters, use, owed>>
    BY <1>0, <1>6
  <2>2. unregistered \in SUBSET Names
    OBVIOUS
  <2>3. /\ f \in [Parts -> [name : Names \cup {"none"}, id : 0..MaxLoads]]
        /\ \A p \in Parts : f[p] = ref[p] \/ (p \in B /\ f[p].id = 0)
    BY <1>3, LimitAssumption
  <2> HIDE DEF unregistered, f
  <2>. QED  BY <1>1, <2>1, <2>2, <2>3, WaitKeeps
<1>. QED  BY <1>4, <1>5, <1>6

LEMMA ReloadKeeps == ASSUME IInv, NEW B \in Requests, Reload(B) PROVE IInv'
<1>0. PICK n \in missing[B] : Reload(B)!(n)
  BY DEF Reload
<1>1. /\ stage[B] = "reload"
      /\ UNCHANGED <<registry, counters, loaded, missing, use, ref, owed>>
  BY <1>0
<1>2. RequestsOK(stage, missing, use, ref, owed) /\ missing[B] \in SUBSET Names
  BY DEF IInv, Good, RequestsOK
<1>3. CASE n \notin ref_cache
  <2>1. stage' = [stage EXCEPT ![B] = "failed"] /\ next_id' = next_id /\ lock' = lock
    BY <1>0, <1>3
  <2>2. missing' = [missing EXCEPT ![B] = missing[B]]
    BY <1>1, <1>2 DEF RequestsOK
  <2>3. ref \in [Parts -> [name : Names \cup {"none"}, id : 0..MaxLoads]]
    BY <1>2 DEF RequestsOK
  <2>. QED  BY <1>1, <1>2, <2>1, <2>2, <2>3, WaitKeeps
<1>4. CASE n \in ref_cache
  <2>1. start_load(B, n) /\ stage' = [stage EXCEPT ![B] = "reloading"]
    BY <1>0, <1>4
  <2>. QED  BY <1>1, <1>2, <2>1, RequestsDisjoint, StartLoadKeeps
<1>. QED  BY <1>3, <1>4

\* What a step of one request p does to the registry: nothing but its count.
LEMMA PartKeeps ==
    ASSUME IInv, NEW p \in Parts,
           RequestsOK(stage', missing', use', ref', owed'),
           UNCHANGED <<registry, loaded, next_id, lock, stage, ref>>,
           DOMAIN counters' = DOMAIN counters,
           \A i \in DOMAIN counters :
               counters'[i] \in Int /\ counters'[i] >= Cardinality(Holders(i, use', ref, owed')),
           \A q \in Singles : use'[q] = "held" => use[q] = "held"
    PROVE  IInv'
<1> DEFINE k == Top(lock, next_id)
<1>1. /\ LockOK(lock, next_id, stage)
      /\ Sound(registry, counters, loaded, lock, k)
      /\ Counted(counters, k, use, ref, owed)
      /\ Covered(counters, loaded, use, ref)
  BY DEF IInv, Good
<1>2. LockOK(lock', next_id', stage') /\ Top(lock', next_id') = k
  BY <1>1
<1> HIDE DEF k
<1>3. Sound(registry', counters', loaded', lock', k)
  BY <1>1 DEF Sound
<1>4. Counted(counters', k, use', ref', owed')
  BY <1>1 DEF Counted
<1>5. Covered(counters', loaded', use', ref')
  BY <1>1 DEF Covered
<1>. QED  BY <1>2, <1>3, <1>4, <1>5 DEF IInv, Good

LEMMA IncrementKeeps == ASSUME IInv, NEW p \in Parts, Increment(p) PROVE IInv'
<1>1. /\ use[p] = "looked up" /\ use' = [use EXCEPT ![p] = "held"]
      /\ counters' = [i \in DOMAIN counters |->
                         IF i = ref[p].id THEN counters[i] + 1 ELSE counters[i]]
      /\ UNCHANGED <<registry, loaded, next_id, lock, stage, ref>>
      /\ missing' = missing /\ owed' = owed
  BY DEF Increment
<1>2. /\ RequestsOK(stage, missing, use, ref, owed)
      /\ \A i \in DOMAIN counters : /\ counters[i] \in Int
                                    /\ counters[i] >= Cardinality(Holders(i, use, ref, owed))
  BY DEF IInv, Good, Sound, Counted
<1>3. use \in [Parts -> {"none", "looked up", "held", "ended"}] /\ p \notin Singles
  BY <1>1, <1>2 DEF RequestsOK
<1>4. RequestsOK(stage', missing', use', ref', owed')
  <2>1. use' \in [Parts -> {"none", "looked up", "held", "ended"}]
    BY <1>1, <1>3
  <2>2. \A q \in Parts : owed[q] # 0 => use'[q] = "ended"
    BY <1>1, <1>2, <1>3 DEF RequestsOK
  <2>3. \A B \in Requests : stage[B] \in {"new", "reload", "reloading"} =>
                                \A q \in B : use'[q] = "none"
    BY <1>1, <1>2, <1>3, RequestsDisjoint DEF RequestsOK
  <2>4. \A q \in Singles : use'[q] # "looked up"
    BY <1>1, <1>2, <1>3, PartsAssumption DEF RequestsOK
  <2>. QED  BY <1>1, <1>2, <2>1, <2>2, <2>3, <2>4 DEF RequestsOK
<1>5. \A i : Holders(i, use', ref, owed') \subseteq
                 IF i = ref[p].id THEN Holders(i, use, ref, owed) \cup {p}
                                  ELSE Holders(i, use, ref, owed)
  BY <1>1, <1>3 DEF Holders
<1>6. ASSUME NEW i \in DOMAIN counters
      PROVE  /\ counters'[i] \in Int
             /\ counters'[i] >= Cardinality(Holders(i, use', ref, owed'))
  <2>1. counters[i] \in Int /\ counters[i] >= Cardinality(Holders(i, use, ref, owed))
    BY <1>2
  <2>2. CASE i = ref[p].id
    <3>1. counters'[i] = counters[i] + 1
      BY <1>1, <2>2
    <3>2. Holders(i, use', ref, owed') \subseteq Holders(i, use, ref, owed) \cup {p}
      BY <1>5, <2>2
    <3> DEFINE H == Holders(i, use, ref, owed)
               K == Holders(i, use', ref, owed')
    <3>3. IsFiniteSet(H) /\ Cardinality(H) \in Nat /\ Cardinality(K) \in Nat
      BY HoldersFinite
    <3>4. K \subseteq H \cup {p}
      BY <3>2
    <3> HIDE DEF H, K
    <3>5. Cardinality(K) <= Cardinality(H) + 1
      <4>1. /\ IsFiniteSet(H \cup {p})
            /\ Cardinality(H \cup {p}) = Cardinality(H)
               \/ Cardinality(H \cup {p}) = Cardinality(H) + 1
        BY <3>3, FS_AddElement
      <4>2. Cardinality(K) <= Cardinality(H \cup {p})
        BY <3>4, <4>1, FS_Subset
      <4>. QED  BY <3>3, <4>1, <4>2
    <3> USE DEF H, K
    <3>. QED  BY <2>1, <3>1, <3>5, AtLeast
  <2>3. CASE i # ref[p].id
    <3>1. counters'[i] = counters[i]
      BY <1>1, <2>3
    <3>2. Cardinality(Holders(i, use', ref, owed')) <= Cardinality(Holders(i, use, ref, owed))
      BY <1>5, <2>3, HoldersFinite, FS_Subset
    <3>. QED  BY <2>1, <3>1, <3>2, AtLeast
  <2>. QED  BY <2>2, <2>3
<1>7. \A q \in Singles : use'[q] = "held" => use[q] = "held"
  BY <1>1, <1>3, PartsAssumption
<1>. QED  BY <1>1, <1>4, <1>6, <1>7, PartKeeps

LEMMA EndKeeps == ASSUME NoDoubleRelease, IInv, NEW p \in Parts, End(p) PROVE IInv'
<1>1. PICK e \in Endings :
         /\ use[p] = "held" /\ use' = [use EXCEPT ![p] = "ended"]
         /\ owed' = [owed EXCEPT ![p] = Releases[e]]
  BY DEF End, InUse
<1>2. /\ UNCHANGED <<registry, loaded, next_id, lock, stage, ref>>
      /\ missing' = missing /\ counters' = counters
  BY DEF End, regvars
<1>3. /\ RequestsOK(stage, missing, use, ref, owed)
      /\ \A i \in DOMAIN counters : /\ counters[i] \in Int
                                    /\ counters[i] >= Cardinality(Holders(i, use, ref, owed))
  BY DEF IInv, Good, Sound, Counted
<1>4. /\ use \in [Parts -> {"none", "looked up", "held", "ended"}]
      /\ owed \in [Parts -> {0, 1}]
  BY <1>3 DEF RequestsOK
<1>5. RequestsOK(stage', missing', use', ref', owed')
  <2>1. /\ use' \in [Parts -> {"none", "looked up", "held", "ended"}]
        /\ owed' \in [Parts -> {0, 1}]
    BY <1>1, <1>4 DEF NoDoubleRelease
  <2>2. \A q \in Parts : owed'[q] # 0 => use'[q] = "ended"
    BY <1>1, <1>3, <1>4 DEF RequestsOK
  <2>3. \A B \in Requests : stage[B] \in {"new", "reload", "reloading"} =>
                                \A q \in B : use'[q] = "none"
    BY <1>1, <1>3, <1>4, RequestsDisjoint DEF RequestsOK
  <2>4. \A q \in Singles : use'[q] # "looked up"
    BY <1>1, <1>3, <1>4, PartsAssumption DEF RequestsOK
  <2>. QED  BY <1>2, <1>3, <2>1, <2>2, <2>3, <2>4 DEF RequestsOK
<1>6. ASSUME NEW i \in DOMAIN counters
      PROVE  /\ counters'[i] \in Int
             /\ counters'[i] >= Cardinality(Holders(i, use', ref, owed'))
  <2>1. Holders(i, use', ref, owed') \subseteq Holders(i, use, ref, owed)
    BY <1>1, <1>4 DEF Holders
  <2>2. IsFiniteSet(Holders(i, use, ref, owed))
    BY HoldersFinite
  <2>3. Cardinality(Holders(i, use', ref, owed')) <= Cardinality(Holders(i, use, ref, owed))
    BY <2>1, <2>2, FS_Subset
  <2>4. counters[i] \in Int /\ counters[i] >= Cardinality(Holders(i, use, ref, owed))
    BY <1>3
  <2>5. counters'[i] = counters[i]
    BY <1>2
  <2>. QED  BY <2>3, <2>4, <2>5, AtLeast
<1>7. \A q \in Singles : use'[q] = "held" => use[q] = "held"
  BY <1>1, <1>4, PartsAssumption
<1>. QED  BY <1>2, <1>5, <1>6, <1>7, PartKeeps

LEMMA ReleaseKeeps == ASSUME IInv, NEW p \in Parts, Release(p) PROVE IInv'
<1>1. /\ owed[p] > 0 /\ owed' = [owed EXCEPT ![p] = owed[p] - 1]
      /\ counters' = [i \in DOMAIN counters |->
                         IF i = ref[p].id THEN counters[i] - 1 ELSE counters[i]]
      /\ UNCHANGED <<registry, loaded, next_id, lock, stage, ref>>
      /\ missing' = missing /\ use' = use
  BY DEF Release
<1>2. /\ RequestsOK(stage, missing, use, ref, owed)
      /\ \A i \in DOMAIN counters : /\ counters[i] \in Int
                                    /\ counters[i] >= Cardinality(Holders(i, use, ref, owed))
  BY DEF IInv, Good, Sound, Counted
<1>3. /\ owed \in [Parts -> {0, 1}] /\ owed[p] = 1 /\ use[p] = "ended"
      /\ owed' = [owed EXCEPT ![p] = 0]
  <2>1. owed \in [Parts -> {0, 1}] /\ (owed[p] # 0 => use[p] = "ended")
    BY <1>2 DEF RequestsOK
  <2>2. owed[p] = 1
    <3>1. owed[p] \in {0, 1} /\ owed[p] > 0
      BY <1>1, <2>1
    <3>. QED  BY <3>1
  <2>3. owed' = [owed EXCEPT ![p] = 0]
    <3>1. owed[p] - 1 = 0
      BY <2>2
    <3>. QED  BY <1>1, <3>1
  <2>4. use[p] = "ended"
    BY <2>1, <2>2
  <2>. QED  BY <2>1, <2>2, <2>3, <2>4
<1>4. RequestsOK(stage', missing', use', ref', owed')
  BY <1>1, <1>2, <1>3 DEF RequestsOK
<1>5. \A i : Holders(i, use', ref, owed') =
                 IF i = ref[p].id THEN Holders(i, use, ref, owed) \ {p}
                                  ELSE Holders(i, use, ref, owed)
  BY <1>1, <1>3 DEF Holders
<1>6. ASSUME NEW i \in DOMAIN counters
      PROVE  /\ counters'[i] \in Int
             /\ counters'[i] >= Cardinality(Holders(i, use', ref, owed'))
  <2>1. counters[i] \in Int /\ counters[i] >= Cardinality(Holders(i, use, ref, owed))
    BY <1>2
  <2>2. CASE i = ref[p].id
    <3>1. counters'[i] = counters[i] - 1
      BY <1>1, <2>2
    <3>2. p \in Holders(i, use, ref, owed)
      BY <1>3, <2>2 DEF Holders
    <3>3. Cardinality(Holders(i, use', ref, owed')) = Cardinality(Holders(i, use, ref, owed)) - 1
      <4>1. Holders(i, use', ref, owed') = Holders(i, use, ref, owed) \ {p}
        BY <1>5, <2>2
      <4>2. IsFiniteSet(Holders(i, use, ref, owed))
        BY HoldersFinite
      <4>. QED  BY <3>2, <4>1, <4>2, FS_RemoveElement
    <3>. QED  BY <2>1, <3>1, <3>3, AtLeast
  <2>3. CASE i # ref[p].id
    BY <1>1, <1>5, <2>1, <2>3
  <2>. QED  BY <2>2, <2>3
<1>. QED  BY <1>1, <1>4, <1>6, PartKeeps

-----------------------------------------------------------------------------
(* The theorems.                                                           *)

LEMMA InitIInv == Init => IInv
<1> SUFFICES ASSUME Init PROVE IInv
  OBVIOUS
<1>1. LockOK(lock, next_id, stage) /\ Top(lock, next_id) = 1
  <2>1. lock = Free /\ next_id = 1 /\ Free.phase = "free"
    BY DEF Init, Free
  <2>2. 1 \in 1..(MaxLoads + 1)
    BY LimitAssumption
  <2>. QED  BY <2>1, <2>2 DEF LockOK, Top
<1>2. RequestsOK(stage, missing, use, ref, owed)
  <2>1. /\ stage \in [Requests -> {"new"}] /\ missing \in [Requests -> SUBSET Names]
        /\ use \in [Parts -> {"none"}] /\ owed \in [Parts -> {0}]
    BY DEF Init
  <2>2. ref \in [Parts -> [name : Names \cup {"none"}, id : 0..MaxLoads]]
    BY LimitAssumption DEF Init
  <2>3. /\ \A B \in Requests : \A p \in B : use[p] = "none"
        /\ \A p \in Singles : use[p] = "none"
    BY <2>1, PartsAssumption, RequestsDisjoint
  <2>. QED  BY <2>1, <2>2, <2>3 DEF RequestsOK
<1>3. Sound(registry, counters, loaded, lock, 1)
  BY DEF Init, Sound, Leaving, Draining, Free
<1>4. Counted(counters, 1, use, ref, owed) /\ Covered(counters, loaded, use, ref)
  <2>1. \A p \in Parts : ref[p].id = 0 /\ use[p] = "none"
    BY DEF Init
  <2>2. DOMAIN counters = {}
    BY DEF Init
  <2>3. Counted(counters, 1, use, ref, owed)
    BY <2>1, <2>2 DEF Counted
  <2>4. Covered(counters, loaded, use, ref)
    BY <2>1, PartsAssumption DEF Covered
  <2>. QED  BY <2>3, <2>4
<1>5. Good(registry, counters, loaded, lock, 1, stage, missing, use, ref, owed)
  BY <1>2, <1>3, <1>4 DEF Good
<1>. QED  BY <1>1, <1>5 DEF IInv

\* IInv is inductive.
LEMMA NextIInv == NoDoubleRelease /\ IInv /\ [Next]_vars => IInv'
<1> SUFFICES ASSUME NoDoubleRelease, IInv, [Next]_vars PROVE IInv'
  OBVIOUS
<1>1. CASE UNCHANGED vars
  <2>1. UNCHANGED <<registry, counters, loaded, next_id, lock>>
    BY <1>1 DEF vars, regvars
  <2>2. UNCHANGED <<stage, missing, use, ref, owed>>
    BY <1>1 DEF vars, reqvars
  <2>. QED  BY <2>1, <2>2 DEF IInv
<1>2. CASE Next
  <2>1. CASE ApiLoad \/ ApiUnload
    BY <2>1, ApiKeeps
  <2>2. CASE Update
    BY <2>2, LoadReplyKeeps, DrainedKeeps, UnloadReplyKeeps DEF Update
  <2>3. ASSUME NEW B \in Requests, Request(B) PROVE IInv'
    BY <2>3, ResolveKeeps, ReloadKeeps DEF Request
  <2>4. ASSUME NEW p \in Parts, Part(p) PROVE IInv'
    BY <2>4, IncrementKeeps, EndKeeps, ReleaseKeeps DEF Part
  <2>. QED  BY <1>2, <2>1, <2>2, <2>3, <2>4 DEF Next
<1>. QED  BY <1>1, <1>2

\* An adapter is unloaded only when no single request uses it: for any number of
\* adapters, requests and batches, provided no ending releases twice.
THEOREM SinglesSafe == ASSUME NoDoubleRelease PROVE Spec => []SinglesStayLoaded
<1>1. IInv => SinglesStayLoaded
  BY DEF IInv, Good, Covered, SinglesStayLoaded, InUse
<1>2. IInv /\ [Next]_vars => IInv'
  BY NextIInv
<1>. QED  BY <1>1, <1>2, InitIInv, PTL DEF Spec

\* A counter never falls below the requests that rely on it, under the same proviso.
THEOREM CountsSuffice == ASSUME NoDoubleRelease PROVE Spec => []NeverUndercounts
<1>1. IInv => NeverUndercounts
  BY DEF IInv, Good, Counted, Holders, NeverUndercounts
<1>2. IInv /\ [Next]_vars => IInv'
  BY NextIInv
<1>. QED  BY <1>1, <1>2, InitIInv, PTL DEF Spec

\* When no update is under way, registry and scheduler list the same adapters.
THEOREM RegistryAgrees == ASSUME NoDoubleRelease PROVE Spec => []BackendAgrees
<1>1. IInv => BackendAgrees
  <2> SUFFICES ASSUME IInv, lock = Free
               PROVE  /\ loaded = registry
                      /\ \A r, o \in registry : r.name = o.name => r = o
    BY DEF BackendAgrees
  <2>1. /\ loaded = registry \cup Leaving(lock)
        /\ \A r, o \in loaded : r.name = o.name => r = o
    BY DEF IInv, Good, Sound
  <2>2. Leaving(lock) = {}
    BY DEF Leaving, Free
  <2>. QED  BY <2>1, <2>2
<1>2. IInv /\ [Next]_vars => IInv'
  BY NextIInv
<1>. QED  BY <1>1, <1>2, InitIInv, PTL DEF Spec
=============================================================================
