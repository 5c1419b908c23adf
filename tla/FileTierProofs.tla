--------------------------- MODULE FileTierProofs ---------------------------
(***************************************************************************)
(* The file tier for every set of pages and checkpoints, every manifest,   *)
(* page size, cap, watermark and budget, and any number of crashes.        *)
(*                                                                         *)
(* ProtectionLasts rests on IInv: what a pin file lists is pinned in       *)
(* memory whenever the evictor can look. The ledger is loaded before the   *)
(* first eviction pass, a pin is installed with its file, and unpin()      *)
(* takes one holder from the stems.                                        *)
(*                                                                         *)
(* FilesAreTracked and DiskWithinCap rest on BInv, the evictor's books:    *)
(* a file is charged its allocated size but between its write and its      *)
(* commit, so the bytes on disk are at most the total reserve() looks at.  *)
(***************************************************************************)
EXTENDS FileTier, CollectionTheorems, TLAPS

\* The record a thread is in has its fields, whatever they hold.
Threads == backup = [at |-> backup.at, key |-> backup.key,
                     victim |-> backup.victim, attempts |-> backup.attempts]

\* The part of the state the pins live in.
PinTypes == /\ disk \in SUBSET Pages
            /\ by_stem \in [Pages -> SUBSET Checkpoints]
            /\ by_checkpoint \in [Checkpoints -> SUBSET Pages]
            /\ pin_file \in [Checkpoints -> SUBSET Pages]
            /\ taker = [at |-> taker.at, ckpt |-> taker.ckpt, todo |-> taker.todo,
                        missing |-> taker.missing, sizes |-> taker.sizes]
            /\ taker.sizes \in SUBSET Pages
            /\ backup.key \in Pages \cup {NoPage}
            /\ backup.at \in {"touch", "stat", "adopt", "reserve", "write", "commit"}
                  => backup.key \in Pages
            /\ taker.at \in {"exists", "sizes", "pin", "rollback"}
                  => taker.ckpt \in Checkpoints

\* What a pin file lists is pinned in memory, by that checkpoint.
Installed == \A c \in Checkpoints : \A p \in pin_file[c] : c \in by_stem[p]

IInv == Threads /\ PinTypes /\ Installed

\* Init: nothing is pinned.
LEMMA InitIInv == Init => IInv
BY DEF Init, IInv, Threads, PinTypes, Installed, Idle, NotTaking

\* reserve() ends idle or writing the page.
LEMMA AdmitLeaves ==
    ASSUME NEW p, admit(p)
    PROVE  backup' = Idle \/ backup' = [at |-> "write", key |-> p,
                                       victim |-> NoPage, attempts |-> 0]
BY DEF admit, Idle

\* Boot ends idle or evicting.
LEMMA ScanLeaves ==
    ASSUME NEW order, scan(order)
    PROVE  \E n : backup' \in {Idle, [at |-> "evict", key |-> NoPage,
                                    victim |-> NoPage, attempts |-> n]}
<1>1. CASE Allocated * Cardinality(disk) > max_size_bytes
    BY <1>1 DEF scan, Idle
<1>2. CASE ~(Allocated * Cardinality(disk) > max_size_bytes)
    BY <1>2 DEF scan
<1> QED BY <1>1, <1>2

\* A reservation under way evicts, is refused or writes.
LEMMA ReserveLeaves ==
    ASSUME Threads, Reserve
    PROVE  \/ \E n : backup' = [at |-> "evict", key |-> backup.key,
                               victim |-> backup.victim, attempts |-> n]
           \/ backup' = Idle
           \/ backup' = [at |-> "write", key |-> backup.key,
                         victim |-> NoPage, attempts |-> 0]
<1>1. CASE Payload <= max_size_bytes /\ total + Payload > max_size_bytes
    BY <1>1 DEF Reserve, Threads
<1>2. CASE ~(Payload <= max_size_bytes /\ total + Payload > max_size_bytes)
  <2>1. admit(backup.key)
    BY <1>2 DEF Reserve
  <2> QED BY <2>1, AdmitLeaves
<1> QED BY <1>1, <1>2

\* Reads, writes and the bookkeeping of the evictor leave the ledger alone.
LEMMA StoreKeeps ==
    ASSUME IInv, Threads', UNCHANGED <<by_stem, by_checkpoint, pin_file, taker>>,
           disk' \in SUBSET Pages, backup'.key \in Pages \cup {NoPage},
           backup'.at \in {"touch", "stat", "adopt", "reserve", "write", "commit"}
              => backup'.key \in Pages
    PROVE  IInv'
BY DEF IInv, PinTypes, Installed

\* The taker's steps before the pin only gather what is on disk.
LEMMA TakerReads ==
    ASSUME IInv, UNCHANGED <<disk, by_stem, by_checkpoint, pin_file, backup>>,
           taker' = [at |-> taker'.at, ckpt |-> taker'.ckpt, todo |-> taker'.todo,
                     missing |-> taker'.missing, sizes |-> taker'.sizes],
           taker'.sizes \in SUBSET Pages,
           taker'.at \in {"exists", "sizes", "pin", "rollback"}
              => taker'.ckpt \in Checkpoints
    PROVE  IInv'
BY DEF IInv, Threads, PinTypes, Installed

\* Every step keeps what the pin files list pinned in memory.
LEMMA NextIInv == IInv /\ [Next]_vars => IInv'
<1> SUFFICES ASSUME IInv, [Next]_vars PROVE IInv'
    OBVIOUS
<1> USE DEF evictor, pins
<1>1. ASSUME NEW p \in Pages, Set(p) PROVE IInv'
    BY <1>1, StoreKeeps DEF Set, IInv, Threads, PinTypes
<1>2. ASSUME NEW p \in Pages, Get(p) PROVE IInv'
    BY <1>2, StoreKeeps DEF Get, IInv, Threads, PinTypes
<1>3. ASSUME NEW c \in Checkpoints, Take(c) PROVE IInv'
    BY <1>3, TakerReads DEF Take, NotTaking
<1>4. ASSUME NEW t \in {"backup", "prefetch"}, TouchStep(t) PROVE IInv'
  <2>1. CASE t = "prefetch"
    BY <1>4, <2>1, StoreKeeps
       DEF TouchStep, Touch, Stat, Adopt, Thread, SetThread, IInv, Threads, PinTypes
  <2>2. CASE t = "backup"
    <3>1. CASE Touch(t)
      BY <2>2, <3>1, StoreKeeps
         DEF Touch, Thread, SetThread, IInv, Threads, PinTypes, NotTouching
    <3>2. CASE Stat(t)
      BY <2>2, <3>2, StoreKeeps
         DEF Stat, Thread, SetThread, IInv, Threads, PinTypes, NotTouching
    <3>3. CASE Adopt(t)
      BY <2>2, <3>3, StoreKeeps
         DEF Adopt, Thread, SetThread, IInv, Threads, PinTypes, NotTouching
    <3> QED BY <1>4, <3>1, <3>2, <3>3 DEF TouchStep
  <2> QED BY <2>1, <2>2
<1>5. ASSUME SetStep PROVE IInv'
  <2>1. CASE Reserve
    BY <2>1, ReserveLeaves, StoreKeeps DEF Reserve, IInv, Threads, PinTypes, Idle
  <2>2. CASE EvictOne
    BY <2>2, StoreKeeps DEF EvictOne, IInv, Threads, PinTypes
  <2>3. CASE Unlink
    BY <2>3, StoreKeeps DEF Unlink, IInv, Threads, PinTypes
  <2>4. CASE UnlinkFails
    BY <2>4, StoreKeeps DEF UnlinkFails, IInv, Threads, PinTypes
  <2>5. CASE EvictDone
    BY <2>5, AdmitLeaves, StoreKeeps DEF EvictDone, IInv, Threads, PinTypes, Idle
  <2>6. CASE Write
    BY <2>6, StoreKeeps DEF Write, IInv, Threads, PinTypes
  <2>7. CASE WriteFails
    BY <2>7, StoreKeeps DEF WriteFails, IInv, Threads, PinTypes, Idle
  <2>8. CASE Commit
    BY <2>8, StoreKeeps DEF Commit, IInv, Threads, PinTypes, Idle
  <2> QED BY <1>5, <2>1, <2>2, <2>3, <2>4, <2>5, <2>6, <2>7, <2>8 DEF SetStep
<1>6. ASSUME TakerStep PROVE IInv'
  <2>1. CASE CheckExists
    BY <2>1, TakerReads DEF CheckExists, IInv, PinTypes
  <2>2. CASE StatSize
    BY <2>2, TakerReads DEF StatSize, IInv, PinTypes
  <2>3. CASE Pin
    BY <2>3 DEF Pin, IInv, Threads, PinTypes, Installed, NotTaking
  <2>4. CASE Rollback
    BY <2>4 DEF Rollback, IInv, Threads, PinTypes, Installed, NotTaking
  <2> QED BY <1>6, <2>1, <2>2, <2>3, <2>4 DEF TakerStep
<1>7. ASSUME Restart PROVE IInv'
    BY <1>7, ScanLeaves DEF Restart, IInv, Threads, PinTypes, Installed, Idle, NotTaking
<1>8. ASSUME UNCHANGED vars PROVE IInv'
    BY <1>8, StoreKeeps DEF vars, IInv, Threads, PinTypes
<1> QED BY <1>1, <1>2, <1>3, <1>4, <1>5, <1>6, <1>7, <1>8 DEF Next

\* A step that leaves the pin files and the disk alone and picks no victim.
LEMMA QuietStep ==
    ASSUME NEW p \in Pages, Protected(p), UNCHANGED <<disk, pin_file>>, ~Victim(p)'
    PROVE  Protected(p)'
BY DEF Protected, Durable

\* A protected page stays protected for one step.
LEMMA StepProtects ==
    ASSUME IInv, [Next]_vars, NEW p \in Pages, Protected(p)
    PROVE  Protected(p)' \/ ~Durable(p)'
<1> USE DEF evictor, pins
<1>0. by_stem[p] # {}
    BY DEF Protected, Durable, IInv, Installed
<1>1. ASSUME NEW q \in Pages, Set(q) \/ Get(q) PROVE Protected(p)'
    BY <1>1, QuietStep DEF Set, Get, Protected, Victim, IInv, Threads
<1>2. ASSUME NEW c \in Checkpoints, Take(c) PROVE Protected(p)'
    BY <1>2, QuietStep DEF Take, Protected, Victim
<1>3. ASSUME NEW t \in {"backup", "prefetch"}, TouchStep(t) PROVE Protected(p)'
  <2>1. ~Victim(p)' /\ UNCHANGED <<disk, pin_file>>
    BY <1>3 DEF TouchStep, Touch, Stat, Adopt, Thread, SetThread, NotTouching,
                IInv, Threads, Protected, Victim
  <2> QED BY <2>1, QuietStep
<1>4. ASSUME SetStep PROVE Protected(p)'
  <2>1. CASE Reserve
    BY <2>1, ReserveLeaves, QuietStep DEF Reserve, IInv, Idle, Victim
  <2>2. CASE EvictOne
    BY <1>0, <2>2, QuietStep DEF EvictOne, is_pinned, IInv, Threads, Protected, Victim
  <2>3. CASE Unlink
    BY <2>3 DEF Unlink, IInv, Threads, Protected, Victim, Durable
  <2>4. CASE UnlinkFails
    BY <2>4, QuietStep DEF UnlinkFails, IInv, Threads, Victim
  <2>5. CASE EvictDone
    BY <2>5, AdmitLeaves, QuietStep DEF EvictDone, Idle, Victim
  <2>6. CASE Write
    BY <2>6 DEF Write, IInv, Threads, Protected, Victim, Durable
  <2>7. CASE WriteFails
    BY <2>7, QuietStep DEF WriteFails, Idle, Victim
  <2>8. CASE Commit
    BY <2>8, QuietStep DEF Commit, Idle, Victim
  <2> QED BY <1>4, <2>1, <2>2, <2>3, <2>4, <2>5, <2>6, <2>7, <2>8 DEF SetStep
<1>5. ASSUME TakerStep PROVE Protected(p)' \/ ~Durable(p)'
    BY <1>5 DEF TakerStep, CheckExists, StatSize, Pin, Rollback, Protected, Victim
<1>6. ASSUME Restart PROVE Protected(p)'
    BY <1>6, ScanLeaves, QuietStep DEF Restart, Idle, Victim
<1>7. ASSUME UNCHANGED vars PROVE Protected(p)'
    BY <1>7, QuietStep DEF vars, Protected, Victim
<1> QED BY <1>1, <1>2, <1>3, <1>4, <1>5, <1>6, <1>7 DEF Next

\* The pins keep their promise across threads, failures and restarts: a page on
\* disk that a pin file lists, and that was not already picked for eviction, is
\* never evicted while a pin file lists it.
THEOREM PinsProtect == Spec => ProtectionLasts
<1>1. Init => IInv
    BY InitIInv
<1>2. IInv /\ [Next]_vars => IInv'
    BY NextIInv
<1>3. IInv /\ [Next]_vars
        => [\A p \in Pages : Protected(p) => Protected(p)' \/ ~Durable(p)']_vars
    BY StepProtects
<1> QED BY <1>1, <1>2, <1>3, PTL DEF Spec, ProtectionLasts

-----------------------------------------------------------------------------
(* The evictor's books.                                                    *)

Leaving == {p \in Pages : Victim(p)}

Index == Range(lru) \cup Leaving

\* Every file is indexed, once.
Order == /\ lru \in Seq(Pages) /\ IsInjective(lru)
         /\ Range(lru) \cap Leaving = {}
         /\ disk \subseteq Index
         /\ backup.at = "unlink" => backup.victim \in Pages
         /\ prefetch.at \in {"touch", "stat", "adopt"} => prefetch.key \in Pages

\* The total is the sum of the charges, and a file is charged its allocated size
\* but between its write and its commit.
Charges == /\ charge \in [Pages -> Nat] /\ total = Sum(charge)
           /\ \A p \in Pages \ Index : charge[p] = 0
           /\ \A p \in disk : charge[p] = Allocated
                              \/ (backup.at = "commit" /\ p = backup.key)

\* The page the backup thread writes is not a file before the write, is indexed at
\* its payload size from the reservation to the commit, and fits when reserved.
Writing == /\ backup.at \in {"reserve", "evict", "unlink", "write"}
                 => backup.key \notin disk
           /\ backup.at \in {"write", "commit"}
                 => backup.key \in Range(lru) /\ charge[backup.key] = Payload
           /\ backup.at = "write"
                 => Allocated * Cardinality(disk) + Payload <= max_size_bytes

BInv == Order /\ Charges /\ Writing /\ DiskWithinCap

-----------------------------------------------------------------------------
(* The order of an OrderedDict: what its operations leave in it.           *)

\* pop() takes one page out.
LEMMA WithoutProperties ==
    ASSUME NEW S, NEW q \in Seq(S), IsInjective(q), NEW p
    PROVE  /\ without(q, p) \in Seq(S)
           /\ IsInjective(without(q, p))
           /\ Range(without(q, p)) = Range(q) \ {p}
<1>1. /\ DOMAIN q = 1..Len(q) /\ Len(q) \in Nat
      /\ \A j \in 1..Len(q) : q[j] \in S
      /\ \A j, k \in 1..Len(q) : q[j] = q[k] => j = k
      /\ \A x : x \in Range(q) <=> \E j \in 1..Len(q) : q[j] = x
  BY DEF IsInjective, Range
<1>2. CASE p \notin Range(q)
  BY <1>2 DEF without
<1>3. CASE p \in Range(q)
  <2> DEFINE i == CHOOSE i \in DOMAIN q : q[i] = p
             w == without(q, p)
  <2>1. i \in 1..Len(q) /\ q[i] = p
    BY <1>1, <1>3
  <2>2. w = [j \in 1..(Len(q) - 1) |-> q[IF j < i THEN j ELSE j + 1]]
    BY <1>3 DEF without
  <2> HIDE DEF i, w
  <2>3. /\ DOMAIN w = 1..(Len(q) - 1) /\ Len(q) - 1 \in Nat
        /\ \A j \in 1..(Len(q) - 1) : w[j] = q[IF j < i THEN j ELSE j + 1]
    BY <1>1, <2>1, <2>2
  <2>4. \A j \in 1..(Len(q) - 1) :
          /\ j < i => j \in 1..Len(q) /\ w[j] = q[j]
          /\ ~(j < i) => j + 1 \in 1..Len(q) /\ w[j] = q[j + 1]
    BY <1>1, <2>1, <2>3
  <2>5. w \in Seq(S)
    <3>1. \A j \in 1..(Len(q) - 1) : w[j] \in S
      BY <1>1, <2>4
    <3> QED BY <2>2, <2>3, <3>1
  <2>6. IsInjective(w)
    <3> SUFFICES ASSUME NEW j \in 1..(Len(q) - 1), NEW k \in 1..(Len(q) - 1), w[j] = w[k]
                 PROVE  j = k
      BY <2>3 DEF IsInjective
    <3>1. CASE j < i /\ k < i
      BY <1>1, <2>4, <3>1
    <3>2. CASE ~(j < i) /\ ~(k < i)
      <4>1. j + 1 = k + 1
        BY <1>1, <2>4, <3>2
      <4> QED BY <1>1, <4>1
    <3>3. CASE j < i /\ ~(k < i)
      <4>1. j = k + 1
        BY <1>1, <2>4, <3>3
      <4> QED BY <1>1, <2>1, <3>3, <4>1
    <3>4. CASE ~(j < i) /\ k < i
      <4>1. j + 1 = k
        BY <1>1, <2>4, <3>4
      <4> QED BY <1>1, <2>1, <3>4, <4>1
    <3> QED BY <3>1, <3>2, <3>3, <3>4
  <2>7. \A x : x \in Range(w) <=> \E j \in 1..(Len(q) - 1) : w[j] = x
    BY <2>3 DEF Range
  <2>8. ASSUME NEW x \in Range(w) PROVE x \in Range(q) /\ x # p
    <3>1. PICK j \in 1..(Len(q) - 1) : w[j] = x
      BY <2>7, <2>8
    <3>2. CASE j < i
      <4>1. j \in 1..Len(q) /\ q[j] = x /\ j # i
        BY <1>1, <2>1, <2>4, <3>1, <3>2
      <4> QED BY <1>1, <2>1, <4>1
    <3>3. CASE ~(j < i)
      <4>1. j + 1 \in 1..Len(q) /\ q[j + 1] = x /\ j + 1 # i
        BY <1>1, <2>1, <2>4, <3>1, <3>3
      <4> QED BY <1>1, <2>1, <4>1
    <3> QED BY <3>2, <3>3
  <2>9. ASSUME NEW x \in Range(q), x # p PROVE x \in Range(w)
    <3>1. PICK k \in 1..Len(q) : q[k] = x
      BY <1>1, <2>9
    <3>2. k # i
      BY <2>1, <2>9, <3>1
    <3>3. CASE k < i
      <4>1. k \in 1..(Len(q) - 1) /\ w[k] = x
        BY <1>1, <2>1, <2>4, <3>1, <3>3
      <4> QED BY <2>7, <4>1
    <3>4. CASE ~(k < i)
      <4>1. k - 1 \in 1..(Len(q) - 1) /\ ~(k - 1 < i) /\ (k - 1) + 1 = k
        BY <1>1, <2>1, <3>2, <3>4
      <4>2. w[k - 1] = x
        BY <2>4, <3>1, <4>1
      <4> QED BY <2>7, <4>1, <4>2
    <3> QED BY <3>3, <3>4
  <2>10. Range(w) = Range(q) \ {p}
    BY <2>8, <2>9
  <2> QED BY <2>5, <2>6, <2>10 DEF w
<1> QED BY <1>2, <1>3

\* One more page at the end.
LEMMA EndProperties ==
    ASSUME NEW S, NEW q \in Seq(S), IsInjective(q), NEW p \in S, p \notin Range(q)
    PROVE  /\ Append(q, p) \in Seq(S)
           /\ IsInjective(Append(q, p))
           /\ Range(Append(q, p)) = Range(q) \cup {p}
<1>1. /\ DOMAIN q = 1..Len(q) /\ Len(q) \in Nat
      /\ \A j, k \in 1..Len(q) : q[j] = q[k] => j = k
      /\ \A x : x \in Range(q) <=> \E j \in 1..Len(q) : q[j] = x
  BY DEF IsInjective, Range
<1> DEFINE a == Append(q, p)
<1>2. /\ a \in Seq(S) /\ DOMAIN a = 1..(Len(q) + 1)
      /\ \A j \in 1..Len(q) : a[j] = q[j]
      /\ a[Len(q) + 1] = p
  OBVIOUS
<1> HIDE DEF a
<1>3. \A j \in 1..(Len(q) + 1) : j \in 1..Len(q) \/ j = Len(q) + 1
  BY <1>1
<1>4. \A j \in 1..Len(q) : q[j] # p
  BY <1>1
<1>5. IsInjective(a)
  BY <1>1, <1>2, <1>3, <1>4 DEF IsInjective
<1>6. \A x : x \in Range(a) <=> \E j \in 1..(Len(q) + 1) : a[j] = x
  BY <1>2 DEF Range
<1>7. Range(a) \subseteq Range(q) \cup {p}
  BY <1>1, <1>2, <1>3, <1>6
<1>8. ASSUME NEW x \in Range(q) PROVE x \in Range(a)
  <2>1. PICK j \in 1..Len(q) : q[j] = x
    BY <1>1, <1>8
  <2>2. j \in 1..(Len(q) + 1)
    BY <1>1
  <2> QED BY <1>2, <1>6, <2>1, <2>2
<1>9. p \in Range(a)
  <2>1. Len(q) + 1 \in 1..(Len(q) + 1)
    BY <1>1
  <2> QED BY <1>2, <1>6, <2>1
<1> QED BY <1>2, <1>5, <1>7, <1>8, <1>9 DEF a

\* move_to_end(), or an insertion.
LEMMA ToEndProperties ==
    ASSUME NEW S, NEW q \in Seq(S), IsInjective(q), NEW p \in S
    PROVE  /\ to_end(q, p) \in Seq(S)
           /\ IsInjective(to_end(q, p))
           /\ Range(to_end(q, p)) = Range(q) \cup {p}
<1> DEFINE w == without(q, p)
<1>1. w \in Seq(S) /\ IsInjective(w) /\ Range(w) = Range(q) \ {p}
  BY WithoutProperties
<1> HIDE DEF w
<1>2. p \notin Range(w)
  BY <1>1
<1>3. /\ Append(w, p) \in Seq(S) /\ IsInjective(Append(w, p))
      /\ Range(Append(w, p)) = Range(w) \cup {p}
  BY <1>1, <1>2, EndProperties
<1>4. to_end(q, p) = Append(w, p)
  BY DEF to_end, w
<1> QED BY <1>1, <1>3, <1>4

\* The oldest entry leaves the order.
LEMMA TailProperties ==
    ASSUME NEW S, NEW q \in Seq(S), IsInjective(q), q # <<>>
    PROVE  /\ Head(q) \in S /\ Head(q) \in Range(q)
           /\ Tail(q) \in Seq(S) /\ IsInjective(Tail(q))
           /\ Range(Tail(q)) = Range(q) \ {Head(q)}
<1>1. /\ DOMAIN q = 1..Len(q) /\ Len(q) \in Nat \ {0}
      /\ \A j \in 1..Len(q) : q[j] \in S
      /\ \A j, k \in 1..Len(q) : q[j] = q[k] => j = k
      /\ \A x : x \in Range(q) <=> \E j \in 1..Len(q) : q[j] = x
  BY DEF IsInjective, Range
<1> DEFINE t == Tail(q)
           h == Head(q)
<1>2. /\ t \in Seq(S) /\ DOMAIN t = 1..(Len(q) - 1) /\ h = q[1]
      /\ \A j \in 1..(Len(q) - 1) : t[j] = q[j + 1]
  BY <1>1
<1> HIDE DEF t, h
<1>3. \A j \in 1..(Len(q) - 1) : j + 1 \in 1..Len(q) /\ j + 1 # 1
  BY <1>1
<1>4. h \in S /\ h \in Range(q)
  <2>1. 1 \in 1..Len(q)
    BY <1>1
  <2> QED BY <1>1, <1>2, <2>1
<1>5. IsInjective(t)
  <2> SUFFICES ASSUME NEW j \in 1..(Len(q) - 1), NEW k \in 1..(Len(q) - 1), t[j] = t[k]
               PROVE  j = k
    BY <1>2 DEF IsInjective
  <2>1. j + 1 = k + 1
    BY <1>1, <1>2, <1>3
  <2> QED BY <1>1, <2>1
<1>6. \A x : x \in Range(t) <=> \E j \in 1..(Len(q) - 1) : t[j] = x
  BY <1>2 DEF Range
<1>7. ASSUME NEW x \in Range(t) PROVE x \in Range(q) /\ x # h
  <2>1. PICK j \in 1..(Len(q) - 1) : t[j] = x
    BY <1>6, <1>7
  <2>2. j + 1 \in 1..Len(q) /\ j + 1 # 1 /\ q[j + 1] = x /\ 1 \in 1..Len(q)
    BY <1>1, <1>2, <1>3, <2>1
  <2> QED BY <1>1, <1>2, <2>2
<1>8. ASSUME NEW x \in Range(q), x # h PROVE x \in Range(t)
  <2>1. PICK k \in 1..Len(q) : q[k] = x
    BY <1>1, <1>8
  <2>2. k # 1
    BY <1>2, <1>8, <2>1
  <2>3. k - 1 \in 1..(Len(q) - 1) /\ (k - 1) + 1 = k
    BY <1>1, <2>2
  <2> QED BY <1>2, <1>6, <2>1, <2>3
<1>9. Range(t) = Range(q) \ {h}
  BY <1>7, <1>8
<1> QED BY <1>2, <1>4, <1>5, <1>9 DEF t, h

\* A failed unlink puts its page first.
LEMMA FrontProperties ==
    ASSUME NEW S, NEW q \in Seq(S), IsInjective(q), NEW p \in S, p \notin Range(q)
    PROVE  /\ <<p>> \o q \in Seq(S)
           /\ IsInjective(<<p>> \o q)
           /\ Range(<<p>> \o q) = Range(q) \cup {p}
<1>1. /\ DOMAIN q = 1..Len(q) /\ Len(q) \in Nat
      /\ \A j, k \in 1..Len(q) : q[j] = q[k] => j = k
      /\ \A x : x \in Range(q) <=> \E j \in 1..Len(q) : q[j] = x
  BY DEF IsInjective, Range
<1> DEFINE f == <<p>> \o q
<1>2. /\ f \in Seq(S) /\ DOMAIN f = 1..(Len(q) + 1) /\ f[1] = p
      /\ \A j \in 2..(Len(q) + 1) : f[j] = q[j - 1]
  BY <1>1
<1> HIDE DEF f
<1>3. \A j \in 1..(Len(q) + 1) : j = 1 \/ (j \in 2..(Len(q) + 1) /\ j - 1 \in 1..Len(q))
  BY <1>1
<1>4. \A j \in 1..Len(q) : q[j] # p /\ j + 1 \in 2..(Len(q) + 1) /\ (j + 1) - 1 = j
  BY <1>1
<1>5. IsInjective(f)
  <2> SUFFICES ASSUME NEW j \in 1..(Len(q) + 1), NEW k \in 1..(Len(q) + 1), f[j] = f[k]
               PROVE  j = k
    BY <1>2 DEF IsInjective
  <2>1. CASE j # 1 /\ k # 1
    <3>1. j - 1 = k - 1
      BY <1>1, <1>2, <1>3, <2>1
    <3> QED BY <1>1, <3>1
  <2>2. CASE j = 1 \/ k = 1
    BY <1>2, <1>3, <1>4, <2>2
  <2> QED BY <2>1, <2>2
<1>6. \A x : x \in Range(f) <=> \E j \in 1..(Len(q) + 1) : f[j] = x
  BY <1>2 DEF Range
<1>7. ASSUME NEW x \in Range(f) PROVE x \in Range(q) \cup {p}
  BY <1>1, <1>2, <1>3, <1>6, <1>7
<1>8. ASSUME NEW x \in Range(q) PROVE x \in Range(f)
  <2>1. PICK j \in 1..Len(q) : q[j] = x
    BY <1>1, <1>8
  <2>2. j + 1 \in 1..(Len(q) + 1) /\ f[j + 1] = x
    BY <1>1, <1>2, <1>4, <2>1
  <2> QED BY <1>6, <2>2
<1>9. p \in Range(f)
  <2>1. 1 \in 1..(Len(q) + 1)
    BY <1>1
  <2> QED BY <1>2, <1>6, <2>1
<1> QED BY <1>2, <1>5, <1>7, <1>8, <1>9 DEF f

-----------------------------------------------------------------------------
(* The books through one step.                                             *)

\* There is a victim in hand only at the unlink.
LEMMA LeavingIs ==
    /\ backup.at # "unlink" => Leaving = {}
    /\ backup'.at # "unlink" => Leaving' = {}
    /\ backup.at = "unlink" /\ backup.victim \in Pages => Leaving = {backup.victim}
    /\ backup'.at = "unlink" /\ backup'.victim \in Pages => Leaving' = {backup'.victim}
BY DEF Leaving, Victim

\* One charge changes.
LEMMA ChargeUpdate ==
    ASSUME NEW c \in [Pages -> Nat], NEW d \in [Pages -> Nat], NEW p \in Pages,
           \A q \in Pages \ {p} : d[q] = c[q]
    PROVE  /\ Sum(c) \in Nat /\ c[p] <= Sum(c)
           /\ Sum(d) = Sum(c) - c[p] + d[p]
<1>1. IsFiniteSet(Pages) /\ c[p] \in Nat /\ d[p] \in Nat
  BY PagesAssumption
<1>2. Sum(c) \in Nat /\ Sum(d) \in Nat
  BY <1>1, SumType
<1>3. Sum(d) + c[p] = Sum(c) + d[p] /\ c[p] <= Sum(c)
  BY <1>1, SumUpdate
<1> QED BY <1>1, <1>2, <1>3

\* The files' bytes are charged, but for the page between its write and its commit.
LEMMA DiskCharged ==
    ASSUME disk \in SUBSET Pages, Charges, backup.at # "commit"
    PROVE  Allocated * Cardinality(disk) <= total
<1> DEFINE f == [p \in disk |-> Allocated]
<1>1. IsFiniteSet(Pages) /\ IsFiniteSet(disk) /\ Allocated \in Nat
  BY PagesAssumption, SizesAssumption, FS_Subset
<1>2. f \in [disk -> Nat] /\ \A p \in disk : f[p] = Allocated
  BY <1>1
<1> HIDE DEF f
<1>3. Sum(f) = Cardinality(disk) * Allocated
  BY <1>1, <1>2, SumConstant
<1>4. charge \in [Pages -> Nat] /\ total = Sum(charge)
      /\ \A p \in disk : f[p] <= charge[p]
  BY <1>1, <1>2 DEF Charges
<1>5. Sum(f) <= Sum(charge)
  BY <1>1, <1>2, <1>4, SumMonotone
<1>6. Cardinality(disk) \in Nat
  BY <1>1, FS_CardinalityType
<1>7. Cardinality(disk) * Allocated = Allocated * Cardinality(disk)
  BY <1>1, <1>6
<1> QED BY <1>3, <1>4, <1>5, <1>7

\* What the backup thread may do beside its books: nothing, or a move between the
\* places where it neither holds a reservation nor a victim.
Elsewhere == \/ UNCHANGED backup
             \/ /\ backup.at \notin {"unlink", "write", "commit"}
                /\ backup'.at \notin {"unlink", "write", "commit"}
                /\ backup'.at \in {"reserve", "evict"} => backup'.key \notin disk

\* Steps that at most reorder the index.
LEMMA Reordered ==
    ASSUME BInv, UNCHANGED <<disk, charge, total>>, Elsewhere,
           lru' \in Seq(Pages), IsInjective(lru'), Range(lru') = Range(lru),
           prefetch'.at \in {"touch", "stat", "adopt"} => prefetch'.key \in Pages
    PROVE  BInv'
<1>1. Leaving' = Leaving /\ Index' = Index
  BY LeavingIs DEF Elsewhere, Index, Leaving, Victim
<1>2. Order'
  BY <1>1 DEF BInv, Order, Elsewhere
<1>3. Charges'
  BY <1>1 DEF BInv, Charges, Elsewhere
<1>4. Writing'
  BY DEF BInv, Writing, Elsewhere
<1>5. DiskWithinCap'
  BY DEF BInv, DiskWithinCap
<1> QED BY <1>2, <1>3, <1>4, <1>5 DEF BInv

\* Steps that leave the index and the files alone.
LEMMA Untouched ==
    ASSUME BInv, UNCHANGED <<disk, lru, charge, total>>, Elsewhere,
           prefetch'.at \in {"touch", "stat", "adopt"} => prefetch'.key \in Pages
    PROVE  BInv'
<1>1. lru' \in Seq(Pages) /\ IsInjective(lru') /\ Range(lru') = Range(lru)
  BY DEF BInv, Order
<1> QED BY <1>1, Reordered

\* An adopted page was charged nothing, is no file's, and is charged what it takes.
LEMMA Adopted ==
    ASSUME IInv, BInv, NEW p \in Pages, p \notin Range(lru), Unlocked, Elsewhere,
           lru' = to_end(lru, p), charge' = [charge EXCEPT ![p] = Allocated],
           total' = total + Allocated, UNCHANGED disk,
           prefetch'.at \in {"touch", "stat", "adopt"} => prefetch'.key \in Pages
    PROVE  BInv'
<1>1. backup.at # "unlink" /\ backup'.at # "unlink"
  BY DEF Unlocked, Elsewhere
<1>2. Leaving = {} /\ Leaving' = {} /\ Index = Range(lru) /\ Index' = Range(lru')
  BY <1>1, LeavingIs DEF Index
<1>3. /\ lru' \in Seq(Pages) /\ IsInjective(lru')
      /\ Range(lru') = Range(lru) \cup {p}
  BY ToEndProperties DEF BInv, Order
<1>4. Order'
  BY <1>1, <1>2, <1>3 DEF BInv, Order
<1>5. /\ charge \in [Pages -> Nat] /\ total = Sum(charge) /\ charge[p] = 0
      /\ p \notin disk /\ disk \subseteq Pages /\ Allocated \in Nat
  BY <1>2, SizesAssumption DEF BInv, Charges, Order, IInv, PinTypes
<1>6. /\ charge' \in [Pages -> Nat] /\ charge'[p] = Allocated
      /\ \A q \in Pages \ {p} : charge'[q] = charge[q]
  BY <1>5
<1>7. total' = Sum(charge')
  <2>1. Sum(charge) \in Nat /\ Sum(charge') = Sum(charge) - charge[p] + charge'[p]
    BY <1>5, <1>6, ChargeUpdate
  <2> QED BY <1>5, <1>6, <2>1
<1>8. Charges'
  BY <1>2, <1>3, <1>5, <1>6, <1>7 DEF BInv, Charges, Elsewhere
<1>9. Writing'
  <2>1. backup'.at \in {"write", "commit"} => backup' = backup /\ backup.key \in Range(lru)
    BY DEF Elsewhere, BInv, Writing
  <2>2. backup'.at \in {"write", "commit"}
          => backup'.key \in Range(lru') /\ charge'[backup'.key] = Payload
    <3>1. backup.at \in {"write", "commit"}
            => backup.key \in Pages /\ charge[backup.key] = Payload
      BY DEF BInv, Writing, IInv, PinTypes
    <3> QED BY <1>3, <1>6, <2>1, <3>1
  <2> QED BY <2>2 DEF Elsewhere, BInv, Writing
<1>10. DiskWithinCap'
  BY DEF BInv, DiskWithinCap
<1> QED BY <1>4, <1>8, <1>9, <1>10 DEF BInv

\* reserve(): the page is new to the disk and what is charged leaves room for it.
LEMMA Admitted ==
    ASSUME IInv, BInv, backup.at \in {"reserve", "evict"}, NEW p \in Pages,
           p = backup.key, admit(p), UNCHANGED <<disk, prefetch>>
    PROVE  BInv'
<1>1. CASE total + Payload > max_size_bytes
  <2>1. Elsewhere
    BY <1>1 DEF admit, Elsewhere, Idle
  <2> QED BY <1>1, <2>1, Untouched DEF admit, evictor, BInv, Order
<1>2. CASE ~(total + Payload > max_size_bytes)
  <2>1. /\ lru' = to_end(lru, p) /\ total' = total - charge[p] + Payload
        /\ charge' = [charge EXCEPT ![p] = Payload]
        /\ backup' = [at |-> "write", key |-> p, victim |-> NoPage, attempts |-> 0]
    BY <1>2 DEF admit, Idle
  <2>2. Leaving = {} /\ Leaving' = {} /\ Index = Range(lru) /\ Index' = Range(lru')
    BY <2>1, LeavingIs DEF Index
  <2>3. /\ lru' \in Seq(Pages) /\ IsInjective(lru')
        /\ Range(lru') = Range(lru) \cup {p}
    <3>1. lru \in Seq(Pages) /\ IsInjective(lru)
      BY DEF BInv, Order
    <3> QED BY <2>1, <3>1, ToEndProperties
  <2>4. Order'
    BY <2>1, <2>2, <2>3 DEF BInv, Order
  <2>5. /\ charge \in [Pages -> Nat] /\ total = Sum(charge)
        /\ p \notin disk /\ disk \subseteq Pages
        /\ Payload \in Nat /\ Allocated \in Nat /\ max_size_bytes \in Nat
    BY SizesAssumption DEF BInv, Charges, Writing, IInv, PinTypes
  <2>6. /\ charge' \in [Pages -> Nat] /\ charge'[p] = Payload
        /\ \A q \in Pages \ {p} : charge'[q] = charge[q]
    BY <2>1, <2>5
  <2>7. total' = Sum(charge') /\ total \in Nat
    <3>1. Sum(charge) \in Nat /\ Sum(charge') = Sum(charge) - charge[p] + charge'[p]
      BY <2>5, <2>6, ChargeUpdate
    <3> QED BY <2>1, <2>5, <2>6, <3>1
  <2>8. Charges'
    BY <2>1, <2>2, <2>3, <2>5, <2>6, <2>7 DEF BInv, Charges
  <2>9. Allocated * Cardinality(disk) + Payload <= max_size_bytes
    <3>1. Allocated * Cardinality(disk) <= total
      BY DiskCharged DEF IInv, PinTypes, BInv
    <3>2. Cardinality(disk) \in Nat
      BY <2>5, PagesAssumption, FS_Subset, FS_CardinalityType
    <3>3. Allocated * Cardinality(disk) \in Nat
      BY <2>5, <3>2
    <3> QED BY <1>2, <2>5, <2>7, <3>1, <3>3
  <2>10. Writing'
    BY <2>1, <2>3, <2>5, <2>6, <2>9 DEF Writing
  <2>11. DiskWithinCap'
    BY DEF BInv, DiskWithinCap
  <2> QED BY <2>4, <2>8, <2>10, <2>11 DEF BInv
<1> QED BY <1>1, <1>2

\* The victim leaves the order and keeps its charge; a skipped entry stays.
LEMMA EvictOneKeeps ==
    ASSUME IInv, BInv, EvictOne
    PROVE  BInv'
<1> DEFINE v == Head(lru)
<1>1. /\ backup.at = "evict" /\ lru # <<>>
      /\ UNCHANGED <<disk, charge, total, prefetch>>
  BY DEF EvictOne, MoreToEvict
<1>2. lru \in Seq(Pages) /\ IsInjective(lru)
  BY DEF BInv, Order
<1>3. /\ v \in Pages /\ v \in Range(lru)
      /\ Tail(lru) \in Seq(Pages) /\ IsInjective(Tail(lru))
      /\ Range(Tail(lru)) = Range(lru) \ {v}
  BY <1>1, <1>2, TailProperties
<1>4. CASE v \in pending \/ is_pinned(v)
  <2>1. lru' = to_end(lru, v) /\ backup' = [backup EXCEPT !.attempts = @ - 1]
    BY <1>4 DEF EvictOne
  <2>2. lru' \in Seq(Pages) /\ IsInjective(lru') /\ Range(lru') = Range(lru)
    <3> HIDE DEF v
    <3>1. /\ to_end(lru, v) \in Seq(Pages) /\ IsInjective(to_end(lru, v))
          /\ Range(to_end(lru, v)) = Range(lru) \cup {v}
      BY <1>2, <1>3, ToEndProperties
    <3> QED BY <1>3, <2>1, <3>1
  <2>3. Elsewhere
    <3>1. backup'.at = "evict" /\ backup'.key = backup.key
      BY <1>1, <2>1 DEF IInv, Threads
    <3>2. backup.key \notin disk
      BY <1>1 DEF BInv, Writing
    <3> QED BY <1>1, <3>1, <3>2 DEF Elsewhere
  <2>4. prefetch'.at \in {"touch", "stat", "adopt"} => prefetch'.key \in Pages
    BY <1>1 DEF BInv, Order
  <2> QED BY <1>1, <2>2, <2>3, <2>4, Reordered
<1>5. CASE ~(v \in pending \/ is_pinned(v))
  <2>1. lru' = Tail(lru) /\ backup' = [backup EXCEPT !.at = "unlink", !.victim = v, !.attempts = 0]
    BY <1>5 DEF EvictOne
  <2>2. backup'.at = "unlink" /\ backup'.victim = v /\ backup'.key = backup.key
    BY <2>1 DEF IInv, Threads
  <2> HIDE DEF v
  <2>3. Leaving = {} /\ Leaving' = {v} /\ Range(lru') = Range(lru) \ {v}
    BY <1>1, <1>3, <2>1, <2>2, LeavingIs
  <2>4. Index' = Index
    BY <1>3, <2>3 DEF Index
  <2>5. Order'
    BY <1>1, <1>3, <2>1, <2>2, <2>3, <2>4 DEF BInv, Order
  <2>6. Charges'
    BY <1>1, <2>2, <2>4 DEF BInv, Charges
  <2>7. Writing'
    BY <1>1, <2>2 DEF BInv, Writing
  <2>8. DiskWithinCap'
    BY <1>1 DEF BInv, DiskWithinCap
  <2> QED BY <2>5, <2>6, <2>7, <2>8 DEF BInv
<1> QED BY <1>4, <1>5

\* Fewer files, fewer bytes.
LEMMA FewerBytes ==
    ASSUME disk \in SUBSET Pages, NEW v, disk' = disk \ {v}, DiskWithinCap
    PROVE  DiskWithinCap'
<1>1. IsFiniteSet(disk) /\ Allocated \in Nat /\ Payload \in Nat /\ max_size_bytes \in Nat
  BY PagesAssumption, SizesAssumption, FS_Subset
<1> DEFINE m == Cardinality(disk')
           n == Cardinality(disk)
<1>2. n \in Nat /\ m \in Nat /\ (m = n \/ n = m + 1)
  <2>1. n \in Nat
    BY <1>1, FS_CardinalityType
  <2>2. IsFiniteSet(disk \ {v}) /\ Cardinality(disk \ {v}) = IF v \in disk THEN n - 1 ELSE n
    BY <1>1, FS_RemoveElement
  <2>3. m \in Nat
    BY <2>2, FS_CardinalityType
  <2> QED BY <2>1, <2>2, <2>3
<1>3. Allocated * n <= max_size_bytes + (Allocated - Payload)
  BY DEF DiskWithinCap
<1> HIDE DEF m, n
<1>4. Allocated * m <= Allocated * n
  <2>1. Allocated * (m + 1) = Allocated * m + Allocated
    BY <1>1, <1>2
  <2>2. Allocated * m \in Nat
    BY <1>1, <1>2
  <2> QED BY <1>1, <1>2, <2>1, <2>2
<1>5. Allocated * m \in Nat /\ Allocated * n \in Nat
  BY <1>1, <1>2
<1>6. Allocated * m <= max_size_bytes + (Allocated - Payload)
  BY <1>1, <1>3, <1>4, <1>5
<1> QED BY <1>6 DEF DiskWithinCap, m

\* A victim's file and its charge go together.
LEMMA UnlinkKeeps ==
    ASSUME IInv, BInv, Unlink
    PROVE  BInv'
<1> DEFINE v == backup.victim
<1>1. /\ backup.at = "unlink" /\ v \in Pages /\ disk' = disk \ {v}
      /\ total' = total - charge[v] /\ charge' = [charge EXCEPT ![v] = 0]
      /\ backup'.at = "evict" /\ backup'.key = backup.key
      /\ UNCHANGED <<lru, prefetch>>
  BY DEF Unlink, IInv, Threads, BInv, Order
<1>2. Leaving = {v} /\ Leaving' = {} /\ Index = Range(lru) \cup {v} /\ Index' = Range(lru)
  BY <1>1, LeavingIs DEF Index
<1> HIDE DEF v
<1>3. /\ charge \in [Pages -> Nat] /\ total = Sum(charge)
      /\ disk \subseteq Pages /\ disk \subseteq Index
  BY DEF BInv, Charges, Order, IInv, PinTypes
<1>4. Order'
  BY <1>1, <1>2 DEF BInv, Order
<1>5. /\ charge' \in [Pages -> Nat] /\ charge'[v] = 0
      /\ \A q \in Pages \ {v} : charge'[q] = charge[q]
  BY <1>1, <1>3
<1>6. total' = Sum(charge')
  <2>1. Sum(charge) \in Nat /\ Sum(charge') = Sum(charge) - charge[v] + charge'[v]
    BY <1>1, <1>3, <1>5, ChargeUpdate
  <2>2. charge[v] \in Nat
    BY <1>1, <1>3
  <2> QED BY <1>1, <1>3, <1>5, <2>1, <2>2
<1>7. Charges'
  <2>1. \A q \in Pages \ Index' : charge'[q] = 0
    BY <1>2, <1>5 DEF BInv, Charges
  <2>2. \A q \in disk' : charge'[q] = Allocated
    BY <1>1, <1>3, <1>5 DEF BInv, Charges
  <2> QED BY <1>5, <1>6, <2>1, <2>2 DEF Charges
<1>8. Writing'
  BY <1>1 DEF BInv, Writing
<1>9. DiskWithinCap'
  BY <1>1, FewerBytes DEF BInv, IInv, PinTypes
<1> QED BY <1>4, <1>7, <1>8, <1>9 DEF BInv

\* A victim whose unlink fails is the oldest entry again, at its charge.
LEMMA UnlinkFailsKeeps ==
    ASSUME IInv, BInv, UnlinkFails
    PROVE  BInv'
<1> DEFINE v == backup.victim
<1>1. /\ backup.at = "unlink" /\ v \in Pages /\ lru' = <<v>> \o lru
      /\ backup'.at = "evict" /\ backup'.key = backup.key
      /\ UNCHANGED <<disk, charge, total, prefetch>>
  BY DEF UnlinkFails, IInv, Threads, BInv, Order
<1>2. Leaving = {v} /\ Leaving' = {} /\ Index = Range(lru) \cup {v} /\ Index' = Range(lru')
  BY <1>1, LeavingIs DEF Index
<1> HIDE DEF v
<1>3. lru \in Seq(Pages) /\ IsInjective(lru) /\ v \notin Range(lru)
  BY <1>2 DEF BInv, Order
<1>4. lru' \in Seq(Pages) /\ IsInjective(lru') /\ Range(lru') = Range(lru) \cup {v}
  BY <1>1, <1>3, FrontProperties
<1>5. Index' = Index
  BY <1>2, <1>4
<1>6. Order'
  BY <1>1, <1>2, <1>4, <1>5 DEF BInv, Order
<1>7. Charges'
  BY <1>1, <1>5 DEF BInv, Charges
<1>8. Writing'
  BY <1>1 DEF BInv, Writing
<1>9. DiskWithinCap'
  BY <1>1 DEF BInv, DiskWithinCap
<1> QED BY <1>6, <1>7, <1>8, <1>9 DEF BInv

\* The reserved page becomes a file: its reservation left room for it.
LEMMA WriteKeeps ==
    ASSUME IInv, BInv, Write
    PROVE  BInv'
<1> DEFINE k == backup.key
<1>1. /\ backup.at = "write" /\ k \in Pages /\ disk' = disk \cup {k}
      /\ backup'.at = "commit" /\ backup'.key = k
      /\ UNCHANGED <<lru, charge, total, prefetch>>
  BY DEF Write, IInv, Threads, PinTypes, evictor
<1>2. Leaving = {} /\ Leaving' = {} /\ Index = Range(lru) /\ Index' = Range(lru)
  BY <1>1, LeavingIs DEF Index
<1>3. /\ k \notin disk /\ k \in Range(lru) /\ charge[k] = Payload
      /\ Allocated * Cardinality(disk) + Payload <= max_size_bytes
  BY <1>1 DEF BInv, Writing
<1> HIDE DEF k
<1>4. Order'
  BY <1>1, <1>2, <1>3 DEF BInv, Order
<1>5. Charges'
  BY <1>1, <1>2 DEF BInv, Charges
<1>6. Writing'
  BY <1>1, <1>3 DEF Writing
<1>7. DiskWithinCap'
  <2>1. /\ IsFiniteSet(disk) /\ Allocated \in Nat /\ Payload \in Nat
        /\ max_size_bytes \in Nat
    BY PagesAssumption, SizesAssumption, FS_Subset DEF IInv, PinTypes
  <2> DEFINE n == Cardinality(disk)
  <2>2. n \in Nat /\ Cardinality(disk') = n + 1
    BY <1>1, <1>3, <2>1, FS_AddElement, FS_CardinalityType
  <2>3. Allocated * n + Payload <= max_size_bytes
    BY <1>3
  <2> HIDE DEF n
  <2>4. Allocated * (n + 1) = Allocated * n + Allocated /\ Allocated * n \in Nat
    BY <2>1, <2>2
  <2>5. Allocated * (n + 1) <= max_size_bytes + (Allocated - Payload)
    BY <2>1, <2>3, <2>4
  <2> QED BY <2>2, <2>5 DEF DiskWithinCap
<1> QED BY <1>4, <1>5, <1>6, <1>7 DEF BInv

\* abort(): the reservation and its charge go together.
LEMMA WriteFailsKeeps ==
    ASSUME IInv, BInv, WriteFails
    PROVE  BInv'
<1> DEFINE k == backup.key
<1>1. /\ backup.at = "write" /\ k \in Pages /\ lru' = without(lru, k)
      /\ total' = total - charge[k] /\ charge' = [charge EXCEPT ![k] = 0]
      /\ backup'.at = "idle"
      /\ UNCHANGED <<disk, prefetch>>
  BY DEF WriteFails, IInv, PinTypes, Idle
<1>2. Leaving = {} /\ Leaving' = {} /\ Index = Range(lru) /\ Index' = Range(lru')
  BY <1>1, LeavingIs DEF Index
<1>3. k \notin disk
  BY <1>1 DEF BInv, Writing
<1> HIDE DEF k
<1>4. lru' \in Seq(Pages) /\ IsInjective(lru') /\ Range(lru') = Range(lru) \ {k}
  BY <1>1, WithoutProperties DEF BInv, Order
<1>5. Order'
  BY <1>1, <1>2, <1>3, <1>4 DEF BInv, Order
<1>6. charge \in [Pages -> Nat] /\ total = Sum(charge) /\ disk \subseteq Pages
  BY DEF BInv, Charges, IInv, PinTypes
<1>7. /\ charge' \in [Pages -> Nat] /\ charge'[k] = 0
      /\ \A q \in Pages \ {k} : charge'[q] = charge[q]
  BY <1>1, <1>6
<1>8. total' = Sum(charge')
  <2>1. Sum(charge) \in Nat /\ Sum(charge') = Sum(charge) - charge[k] + charge'[k]
    BY <1>1, <1>6, <1>7, ChargeUpdate
  <2>2. charge[k] \in Nat
    BY <1>1, <1>6
  <2> QED BY <1>1, <1>6, <1>7, <2>1, <2>2
<1>9. Charges'
  <2>1. \A q \in Pages \ Index' : charge'[q] = 0
    BY <1>2, <1>4, <1>7 DEF BInv, Charges
  <2>2. \A q \in disk' : charge'[q] = Allocated
    BY <1>1, <1>3, <1>6, <1>7 DEF BInv, Charges
  <2> QED BY <1>7, <1>8, <2>1, <2>2 DEF Charges
<1>10. Writing'
  BY <1>1 DEF Writing
<1>11. DiskWithinCap'
  BY <1>1 DEF BInv, DiskWithinCap
<1> QED BY <1>5, <1>9, <1>10, <1>11 DEF BInv

\* commit(): the estimate becomes what the file takes.
LEMMA CommitKeeps ==
    ASSUME IInv, BInv, Commit
    PROVE  BInv'
<1> DEFINE k == backup.key
<1>1. /\ backup.at = "commit" /\ k \in Pages /\ k \in Range(lru)
      /\ backup'.at = "idle"
      /\ UNCHANGED <<disk, lru, prefetch>>
  BY DEF Commit, IInv, PinTypes, Idle, BInv, Writing
<1>2. Leaving = {} /\ Leaving' = {} /\ Index = Range(lru) /\ Index' = Range(lru)
  BY <1>1, LeavingIs DEF Index
<1>3. Order'
  BY <1>1, <1>2 DEF BInv, Order
<1>4. /\ charge \in [Pages -> Nat] /\ total = Sum(charge) /\ disk \subseteq Pages
      /\ Allocated \in Nat
  BY SizesAssumption DEF BInv, Charges, IInv, PinTypes
<1>5. Charges'
  <2>1. CASE k \notin disk
    <3>1. UNCHANGED <<charge, total>>
      BY <2>1 DEF Commit
    <3> QED BY <1>1, <1>2, <2>1, <3>1 DEF BInv, Charges
  <2>2. CASE k \in disk
    <3>1. /\ total' = total + (Allocated - charge[k])
          /\ charge' = [charge EXCEPT ![k] = Allocated]
      BY <1>1, <2>2 DEF Commit
    <3> HIDE DEF k
    <3>2. /\ charge' \in [Pages -> Nat] /\ charge'[k] = Allocated
          /\ \A q \in Pages \ {k} : charge'[q] = charge[q]
      BY <1>1, <1>4, <3>1
    <3>3. Sum(charge) \in Nat /\ Sum(charge') = Sum(charge) - charge[k] + charge'[k]
      BY <1>1, <1>4, <3>2, ChargeUpdate
    <3>4. charge[k] \in Nat
      BY <1>1, <1>4
    <3>5. total' = Sum(charge')
      BY <1>4, <3>1, <3>2, <3>3, <3>4
    <3>6. \A q \in Pages \ Index' : charge'[q] = 0
      BY <1>1, <1>2, <3>2 DEF BInv, Charges
    <3>7. \A q \in disk' : charge'[q] = Allocated
      BY <1>1, <1>4, <3>2 DEF BInv, Charges, k
    <3> QED BY <3>2, <3>5, <3>6, <3>7 DEF Charges
  <2> QED BY <2>1, <2>2
<1>6. Writing'
  BY <1>1 DEF Writing
<1>7. DiskWithinCap'
  BY <1>1 DEF BInv, DiskWithinCap
<1> QED BY <1>3, <1>5, <1>6, <1>7 DEF BInv

\* touch() only moves what is indexed, and adopts what is not.
LEMMA TouchKeeps ==
    ASSUME IInv, BInv, NEW t \in {"backup", "prefetch"}, TouchStep(t)
    PROVE  BInv'
<1> DEFINE p == Thread(t).key
<1>1. p \in Pages
  BY DEF TouchStep, Touch, Stat, Adopt, Thread, IInv, PinTypes, BInv, Order
<1>2. prefetch'.at \in {"touch", "stat", "adopt"} => prefetch'.key \in Pages
  <2>1. CASE t = "prefetch"
    BY <1>1, <2>1 DEF TouchStep, Touch, Stat, Adopt, SetThread, NotTouching
  <2>2. CASE t = "backup"
    BY <2>2 DEF TouchStep, Touch, Stat, Adopt, SetThread, BInv, Order
  <2> QED BY <2>1, <2>2
<1>3. Elsewhere
  <2>1. CASE t = "prefetch"
    BY <2>1 DEF TouchStep, Touch, Stat, Adopt, SetThread, Elsewhere
  <2>2. CASE t = "backup"
    <3>1. backup.at \in {"touch", "stat", "adopt"}
      BY <2>2 DEF TouchStep, Touch, Stat, Adopt, Thread
    <3>2. ASSUME NEW a, NEW k, SetThread(t, [at |-> a, key |-> k]) PROVE backup'.at = a
      <4>1. backup' = [backup EXCEPT !.at = a, !.key = k]
        BY <2>2, <3>2 DEF SetThread
      <4> QED BY <4>1 DEF IInv, Threads
    <3>3. Touch(t) => backup'.at \in {"idle", "stat", "adopt"}
      BY <3>2 DEF Touch, NotTouching
    <3>4. Stat(t) => backup'.at \in {"idle", "stat", "adopt"}
      BY <3>2 DEF Stat, NotTouching
    <3>5. Adopt(t) => backup'.at \in {"idle", "stat", "adopt"}
      BY <3>2 DEF Adopt, NotTouching
    <3>6. backup'.at \in {"idle", "stat", "adopt"}
      BY <3>3, <3>4, <3>5 DEF TouchStep
    <3> QED BY <3>1, <3>6 DEF Elsewhere
  <2> QED BY <2>1, <2>2
<1>4. lru \in Seq(Pages) /\ IsInjective(lru)
  BY DEF BInv, Order
<1>5. CASE Stat(t)
  BY <1>2, <1>3, <1>5, Untouched DEF Stat, evictor
<1>6. CASE Touch(t) /\ p \notin Range(lru)
  BY <1>2, <1>3, <1>6, Untouched DEF Touch
<1> HIDE DEF p
<1>7. /\ to_end(lru, p) \in Seq(Pages) /\ IsInjective(to_end(lru, p))
      /\ Range(to_end(lru, p)) = Range(lru) \cup {p}
  BY <1>1, <1>4, ToEndProperties
<1>8. CASE p \in Range(lru) /\ (Touch(t) \/ Adopt(t))
  <2>1. lru' = to_end(lru, p) /\ UNCHANGED <<disk, charge, total>>
    BY <1>8 DEF Touch, Adopt, p
  <2>2. lru' \in Seq(Pages) /\ IsInjective(lru') /\ Range(lru') = Range(lru)
    BY <1>7, <1>8, <2>1
  <2> QED BY <1>2, <1>3, <2>1, <2>2, Reordered
<1>9. CASE Adopt(t) /\ p \notin Range(lru)
  <2>1. /\ Unlocked /\ lru' = to_end(lru, p) /\ total' = total + Allocated
        /\ charge' = [charge EXCEPT ![p] = Allocated] /\ UNCHANGED disk
    BY <1>9 DEF Adopt, p
  <2> QED BY <1>1, <1>2, <1>3, <1>9, <2>1, Adopted
<1> QED BY <1>5, <1>6, <1>8, <1>9 DEF TouchStep

\* What the scan of a directory adds up to.
LEMMA ScanSum ==
    ASSUME NEW D \in SUBSET Pages, NEW c \in [Pages -> Nat],
           \A p \in D : c[p] = Allocated, \A p \in Pages \ D : c[p] = 0
    PROVE  Sum(c) = Allocated * Cardinality(D)
<1> DEFINE f == [p \in D |-> Allocated]
<1>1. IsFiniteSet(D) /\ Cardinality(D) \in Nat /\ Allocated \in Nat
  BY PagesAssumption, SizesAssumption, FS_Subset, FS_CardinalityType
<1>2. f \in [D -> Nat] /\ \A p \in D : f[p] = Allocated
  BY <1>1
<1> HIDE DEF f
<1>3. Sum(f) = Cardinality(D) * Allocated
  BY <1>1, <1>2, SumConstant
<1>4. \A p \in D : c[p] = f[p]
  BY <1>2
<1>5. Sum(f) = Sum(c)
  BY <1>2, <1>4, SumZeros
<1> QED BY <1>1, <1>3, <1>5

\* Boot indexes every file, once, at its allocated size.
LEMMA RestartKeeps ==
    ASSUME IInv, BInv, Restart
    PROVE  BInv'
<1> DEFINE n == Cardinality(disk)
<1>1. PICK order \in Bijection(1..n, disk) : scan(order)
  BY DEF Restart
<1>2. /\ UNCHANGED disk /\ disk \subseteq Pages /\ NoPage \notin disk
      /\ prefetch'.at = "idle"
  BY PagesAssumption DEF Restart, IInv, PinTypes, NotTouching, NoPage
<1>3. backup'.at \in {"idle", "evict"} /\ backup'.key = NoPage
  BY <1>1, ScanLeaves DEF Idle
<1>4. /\ IsFiniteSet(Pages) /\ IsFiniteSet(disk) /\ n \in Nat
      /\ Allocated \in Nat
  BY <1>2, PagesAssumption, SizesAssumption, FS_Subset, FS_CardinalityType
<1>5. /\ lru' = order /\ total' = Allocated * n
      /\ charge' = [p \in Pages |-> IF p \in disk THEN Allocated ELSE 0]
  BY <1>1 DEF scan
<1> HIDE DEF n
<1>6. lru' \in Seq(Pages) /\ IsInjective(lru') /\ Range(lru') = disk
  <2>1. /\ order \in [1..n -> disk] /\ IsInjective(order)
        /\ \A p \in disk : \E i \in 1..n : order[i] = p
    BY <1>1 DEF Bijection, Injection, Surjection
  <2>2. order \in Seq(Pages)
    BY <1>2, <1>4, <2>1
  <2>3. Range(order) = disk
    BY <2>1 DEF Range
  <2> QED BY <1>5, <2>1, <2>2, <2>3
<1>7. Leaving' = {} /\ Index' = disk
  BY <1>3, <1>6, LeavingIs DEF Index
<1>8. Order'
  BY <1>2, <1>3, <1>6, <1>7 DEF Order
<1>9. /\ charge' \in [Pages -> Nat]
      /\ \A p \in disk : charge'[p] = Allocated
      /\ \A p \in Pages \ disk : charge'[p] = 0
  BY <1>2, <1>4, <1>5
<1>10. total' = Sum(charge')
  <2>1. Sum(charge') = Allocated * Cardinality(disk)
    BY <1>2, <1>9, ScanSum
  <2> QED BY <1>5, <2>1 DEF n
<1>11. Charges'
  BY <1>2, <1>7, <1>9, <1>10 DEF Charges
<1>12. Writing'
  BY <1>2, <1>3 DEF Writing
<1>13. DiskWithinCap'
  BY <1>2 DEF BInv, DiskWithinCap
<1> QED BY <1>8, <1>11, <1>12, <1>13 DEF BInv

\* An empty store is in order.
LEMMA InitBInv == Init => BInv
<1> SUFFICES ASSUME Init PROVE BInv
  OBVIOUS
<1>1. /\ disk = {} /\ lru = <<>> /\ charge = [p \in Pages |-> 0] /\ total = 0
      /\ backup.at = "idle" /\ prefetch.at = "idle"
  BY DEF Init, Idle, NotTouching
<1>2. lru \in Seq(Pages) /\ IsInjective(lru) /\ Range(lru) = {} /\ Leaving = {}
  BY <1>1, LeavingIs DEF IsInjective, Range
<1>3. Order
  BY <1>1, <1>2 DEF Order
<1>4. charge \in [Pages -> Nat] /\ \A p \in Pages : charge[p] = 0
  BY <1>1
<1>5. Sum(charge) = 0
  <2>1. IsFiniteSet(Pages) /\ Cardinality(Pages) \in Nat
    BY PagesAssumption, FS_CardinalityType
  <2>2. Sum(charge) = Cardinality(Pages) * 0
    BY <1>4, <2>1, SumConstant
  <2> QED BY <2>1, <2>2
<1>6. Charges
  BY <1>1, <1>4, <1>5 DEF Charges
<1>7. Writing
  BY <1>1 DEF Writing
<1>8. DiskWithinCap
  <2>1. Cardinality(disk) = 0
    BY <1>1, FS_EmptySet
  <2>2. Allocated * 0 <= max_size_bytes + (Allocated - Payload)
    BY SizesAssumption
  <2> QED BY <2>1, <2>2 DEF DiskWithinCap
<1> QED BY <1>3, <1>6, <1>7, <1>8 DEF BInv

\* Every step keeps the books.
LEMMA NextBInv == IInv /\ BInv /\ [Next]_vars => BInv'
<1> SUFFICES ASSUME IInv, BInv, [Next]_vars PROVE BInv'
  OBVIOUS
<1>0. prefetch.at \in {"touch", "stat", "adopt"} => prefetch.key \in Pages
  BY DEF BInv, Order
<1>1. ASSUME NEW p \in Pages, Set(p) PROVE BInv'
  <2>1. backup'.at = (IF p \in disk THEN "touch" ELSE "reserve") /\ backup'.key = p
    BY <1>1 DEF Set, IInv, Threads
  <2>2. Elsewhere
    BY <1>1, <2>1 DEF Set, Elsewhere
  <2> QED BY <1>0, <1>1, <2>2, Untouched DEF Set, evictor
<1>2. ASSUME NEW p \in Pages, Get(p) PROVE BInv'
  BY <1>2, Untouched DEF Get, Elsewhere, evictor
<1>3. ASSUME NEW c \in Checkpoints, Take(c) PROVE BInv'
  BY <1>0, <1>3, Untouched DEF Take, Elsewhere, evictor
<1>4. ASSUME NEW t \in {"backup", "prefetch"}, TouchStep(t) PROVE BInv'
  BY <1>4, TouchKeeps
<1>5. ASSUME SetStep PROVE BInv'
  <2>1. CASE Reserve
    <3>1. CASE Payload <= max_size_bytes /\ total + Payload > max_size_bytes
      <4>1. /\ backup'.at = "evict" /\ backup'.key = backup.key
            /\ UNCHANGED <<disk, lru, charge, total, prefetch>>
        BY <2>1, <3>1 DEF Reserve, IInv, Threads, evictor
      <4>2. Elsewhere
        BY <2>1, <4>1 DEF Reserve, Elsewhere, BInv, Writing
      <4> QED BY <1>0, <4>1, <4>2, Untouched
    <3>2. CASE ~(Payload <= max_size_bytes /\ total + Payload > max_size_bytes)
      BY <2>1, <3>2, Admitted DEF Reserve, IInv, PinTypes
    <3> QED BY <3>1, <3>2
  <2>2. CASE EvictOne
    BY <2>2, EvictOneKeeps
  <2>3. CASE Unlink
    BY <2>3, UnlinkKeeps
  <2>4. CASE UnlinkFails
    BY <2>4, UnlinkFailsKeeps
  <2>5. CASE EvictDone
    <3>1. CASE backup.key = NoPage
      <4>1. Elsewhere
        BY <2>5, <3>1 DEF EvictDone, Elsewhere, Idle
      <4> QED BY <1>0, <2>5, <3>1, <4>1, Untouched DEF EvictDone, evictor
    <3>2. CASE backup.key # NoPage
      BY <2>5, <3>2, Admitted DEF EvictDone, IInv, PinTypes
    <3> QED BY <3>1, <3>2
  <2>6. CASE Write
    BY <2>6, WriteKeeps
  <2>7. CASE WriteFails
    BY <2>7, WriteFailsKeeps
  <2>8. CASE Commit
    BY <2>8, CommitKeeps
  <2> QED BY <1>5, <2>1, <2>2, <2>3, <2>4, <2>5, <2>6, <2>7, <2>8 DEF SetStep
<1>6. ASSUME TakerStep PROVE BInv'
  <2>1. UNCHANGED <<disk, lru, charge, total, backup, prefetch>>
    BY <1>6 DEF TakerStep, CheckExists, StatSize, Pin, Rollback, evictor
  <2> QED BY <1>0, <2>1, Untouched DEF Elsewhere
<1>7. ASSUME Restart PROVE BInv'
  BY <1>7, RestartKeeps
<1>8. ASSUME UNCHANGED vars PROVE BInv'
  BY <1>0, <1>8, Untouched DEF vars, Elsewhere
<1> QED BY <1>1, <1>2, <1>3, <1>4, <1>5, <1>6, <1>7, <1>8 DEF Next

\* The charges of the indexed pages are all the charges.
LEMMA BooksTrack == IInv /\ BInv => FilesAreTracked
<1> SUFFICES ASSUME IInv, BInv PROVE FilesAreTracked
  OBVIOUS
<1> DEFINE f == [p \in Index |-> charge[p]]
<1>1. Index \subseteq Pages
  <2>1. Range(lru) \subseteq Pages
    BY DEF BInv, Order, Range
  <2> QED BY <2>1 DEF Index, Leaving
<1>2. /\ charge \in [Pages -> Nat] /\ total = Sum(charge)
      /\ \A p \in Pages \ Index : charge[p] = 0
  BY DEF BInv, Charges
<1>3. f \in [Index -> Nat] /\ \A p \in Index : charge[p] = f[p]
  BY <1>1, <1>2
<1>4. Sum(f) = Sum(charge)
  <2> HIDE DEF f
  <2> QED BY <1>1, <1>2, <1>3, SumZeros
<1>5. Index = Range(lru) \cup {p \in Pages : Victim(p)}
  BY DEF Index, Leaving
<1>6. disk \subseteq Index /\ IsInjective(lru)
  BY DEF BInv, Order
<1> QED BY <1>2, <1>4, <1>5, <1>6 DEF FilesAreTracked

\* No file escapes the cap: for every set of pages and every cap, every page file
\* is indexed once, and _total_bytes is the sum of what the index records, through
\* adoptions, aborted writes, failed unlinks, crashes and reboots.
THEOREM EveryFileTracked == Spec => []FilesAreTracked
<1>1. Init => IInv /\ BInv
  BY InitIInv, InitBInv
<1>2. (IInv /\ BInv) /\ [Next]_vars => (IInv /\ BInv)'
  BY NextIInv, NextBInv
<1>3. IInv /\ BInv => FilesAreTracked
  BY BooksTrack
<1> QED BY <1>1, <1>2, <1>3, PTL DEF Spec

\* The page files never take more than the cap and the rounding of one page, for
\* every cap, watermark and page size.
THEOREM CapHolds == Spec => []DiskWithinCap
<1>1. Init => IInv /\ BInv
  BY InitIInv, InitBInv
<1>2. (IInv /\ BInv) /\ [Next]_vars => (IInv /\ BInv)'
  BY NextIInv, NextBInv
<1>3. IInv /\ BInv => DiskWithinCap
  BY DEF BInv
<1> QED BY <1>1, <1>2, <1>3, PTL DEF Spec
=============================================================================
