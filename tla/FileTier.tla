------------------------------ MODULE FileTier ------------------------------
(***************************************************************************)
(* The file tier of the hierarchical cache and the pins that keep a        *)
(* conversation checkpoint's pages in it: HiCacheFile                      *)
(* (mem_cache/hicache_storage.py), LRUFileEvictor                          *)
(* (mem_cache/storage/file/lru_file_evictor.py), PinLedger                 *)
(* (mem_cache/pin_ledger.py) and take_file_tier_pins()                     *)
(* (managers/session_checkpoint.py).                                       *)
(*                                                                         *)
(* Three threads share the store. The backup thread calls set() and is the *)
(* only one that evicts; the prefetch thread calls get(); the scheduler    *)
(* thread takes a checkpoint's pins. A thread's step ends where it gives   *)
(* up the evictor's lock or touches the file system, so that the others    *)
(* run between its look at a file and what it does about it. The backup    *)
(* thread holds the evictor's lock from the first victim to the last. The  *)
(* ledger's lock covers pin(), unpin() and is_pinned(), one step each. A   *)
(* crash keeps the page files and the pin files and loses the rest.        *)
(*                                                                         *)
(* All pages have one payload size and one allocated size. A stem and the  *)
(* content key it is made from are one `page'; the flat and sharded        *)
(* layouts, the metadata cache, canonical slices, min_free_space and       *)
(* clear() are left out.                                                   *)
(***************************************************************************)
EXTENDS Naturals, Sequences, FiniteSets, Functions, FiniteSums

CONSTANTS Pages,             \* the stems
          Checkpoints,       \* the checkpoint ids
          kv_keys,           \* the pages of each checkpoint's manifest, in order
          Payload,           \* value_bytes of a page
          Allocated,         \* _allocated_size() of its file
          max_size_bytes,
          watermark,         \* int(max_size_bytes * eviction_ratio)
          budget_bytes       \* SGLANG_HICACHE_PIN_BUDGET_BYTES, 0 for none

ASSUME SizesAssumption ==
    /\ Payload \in Nat /\ Allocated \in Nat /\ Payload <= Allocated
    /\ max_size_bytes \in Nat /\ watermark \in 0..max_size_bytes
    /\ budget_bytes \in Nat
ASSUME PagesAssumption ==
    /\ IsFiniteSet(Pages)
    /\ "no page" \notin Pages
    /\ kv_keys \in [Checkpoints -> Seq(Pages)]
    /\ \A c \in Checkpoints : kv_keys[c] # <<>>

NoPage == "no page"

VARIABLES disk,          \* the pages whose .bin file exists
          lru,           \* _lru, oldest first
          charge,        \* the bytes _lru records for a page, 0 for none
          total,         \* _total_bytes
          pending,       \* _pending_writes
          by_stem,       \* PinLedger._by_stem
          by_checkpoint, \* PinLedger._by_checkpoint
          pin_file,      \* what each checkpoint's file in pins706/ lists
          backup,        \* where the backup thread is
          prefetch,      \* where the prefetch thread is
          taker          \* where the scheduler thread is in take_file_tier_pins()

evictor == <<lru, charge, total, pending>>
pins == <<by_stem, by_checkpoint, pin_file>>
vars == <<disk, lru, charge, total, pending, by_stem, by_checkpoint, pin_file,
          backup, prefetch, taker>>

-----------------------------------------------------------------------------
(* The index of the evictor.                                               *)

Idle == [at |-> "idle", key |-> NoPage, victim |-> NoPage, attempts |-> 0]

NotTouching == [at |-> "idle", key |-> NoPage]

NotTaking == [at |-> "idle", ckpt |-> "none", todo |-> <<>>, missing |-> FALSE,
              sizes |-> {}]

\* An OrderedDict has a key at one place of its order.
without(q, p) ==
    IF p \notin Range(q) THEN q
    ELSE LET i == CHOOSE i \in DOMAIN q : q[i] = p
         IN  [j \in 1..(Len(q) - 1) |-> q[IF j < i THEN j ELSE j + 1]]

to_end(q, p) == Append(without(q, p), p)

\* The lock is taken for the whole of an eviction, and boot runs before the
\* threads exist.
Unlocked == backup.at \notin {"evict", "unlink"}

Booting == ~Unlocked /\ backup.key = NoPage

needed_bytes == IF backup.key = NoPage THEN 0 ELSE Payload

target == IF watermark > needed_bytes THEN watermark - needed_bytes ELSE 0

-----------------------------------------------------------------------------
(* touch(): three steps, since the stat is made without the lock.          *)

SetThread(t, v) == IF t = "backup"
                   THEN backup' = [backup EXCEPT !.at = v.at, !.key = v.key]
                        /\ UNCHANGED prefetch
                   ELSE prefetch' = v /\ UNCHANGED backup

Thread(t) == IF t = "backup" THEN backup ELSE prefetch

Touch(t) == LET p == Thread(t).key IN
    /\ Thread(t).at = "touch"
    /\ Unlocked
    /\ IF p \in Range(lru)
       THEN lru' = to_end(lru, p) /\ SetThread(t, NotTouching)
       ELSE UNCHANGED lru /\ SetThread(t, [at |-> "stat", key |-> p])
    /\ UNCHANGED <<disk, charge, total, pending, pins, taker>>

Stat(t) == LET p == Thread(t).key IN
    /\ Thread(t).at = "stat"
    /\ SetThread(t, IF p \in disk THEN [at |-> "adopt", key |-> p] ELSE NotTouching)
    /\ UNCHANGED <<disk, evictor, pins, taker>>

\* Mutant: the second look at the index is left out and the page counted again.
Adopt_blindly(t) == LET p == Thread(t).key IN
    /\ Thread(t).at = "adopt"
    /\ Unlocked
    /\ lru' = to_end(lru, p)
    /\ charge' = [charge EXCEPT ![p] = Allocated]
    /\ total' = total + Allocated
    /\ SetThread(t, NotTouching)
    /\ UNCHANGED <<disk, pending, pins, taker>>

Adopt(t) == LET p == Thread(t).key IN
    /\ Thread(t).at = "adopt"
    /\ Unlocked
    /\ lru' = to_end(lru, p)
    /\ IF p \in Range(lru)
       THEN UNCHANGED <<charge, total>>
       ELSE /\ charge' = [charge EXCEPT ![p] = Allocated]
            /\ total' = total + Allocated
    /\ SetThread(t, NotTouching)
    /\ UNCHANGED <<disk, pending, pins, taker>>

-----------------------------------------------------------------------------
(* The backup thread: set(), and the eviction that boot shares with it.    *)

Set(p) ==
    /\ backup.at = "idle"
    /\ backup' = [backup EXCEPT !.at = IF p \in disk THEN "touch" ELSE "reserve",
                                !.key = p]
    /\ UNCHANGED <<disk, evictor, pins, prefetch, taker>>

\* The end of reserve(): the page is indexed at its payload size, or refused.
admit(p) ==
    IF total + Payload > max_size_bytes
    THEN backup' = Idle /\ UNCHANGED evictor
    ELSE /\ lru' = to_end(lru, p)
         /\ total' = total - charge[p] + Payload
         /\ charge' = [charge EXCEPT ![p] = Payload]
         /\ pending' = pending \cup {p}
         /\ backup' = [Idle EXCEPT !.at = "write", !.key = p]

Reserve ==
    /\ backup.at = "reserve"
    /\ IF Payload <= max_size_bytes /\ total + Payload > max_size_bytes
       THEN /\ backup' = [backup EXCEPT !.at = "evict", !.attempts = Len(lru)]
            /\ UNCHANGED evictor
       ELSE admit(backup.key)
    /\ UNCHANGED <<disk, pins, prefetch, taker>>

is_pinned(p) == by_stem[p] # {}

MoreToEvict == lru # <<>> /\ backup.attempts > 0 /\ total > target

\* Mutant: a skipped entry costs no attempt.
EvictOne_spins ==
    /\ backup.at = "evict" /\ MoreToEvict
    /\ LET v == Head(lru) IN
       IF v \in pending \/ is_pinned(v)
       THEN /\ lru' = to_end(lru, v)
            /\ UNCHANGED backup
       ELSE /\ lru' = Tail(lru)
            /\ backup' = [backup EXCEPT !.at = "unlink", !.victim = v]
    /\ UNCHANGED <<disk, charge, total, pending, pins, prefetch, taker>>

\* _evict_one_lru_locked(), up to the unlink, which sets the attempts anew.
EvictOne ==
    /\ backup.at = "evict" /\ MoreToEvict
    /\ LET v == Head(lru) IN
       IF v \in pending \/ is_pinned(v)
       THEN /\ lru' = to_end(lru, v)
            /\ backup' = [backup EXCEPT !.attempts = @ - 1]
       ELSE /\ lru' = Tail(lru)
            /\ backup' = [backup EXCEPT !.at = "unlink", !.victim = v, !.attempts = 0]
    /\ UNCHANGED <<disk, charge, total, pending, pins, prefetch, taker>>

Unlink == LET v == backup.victim IN
    /\ backup.at = "unlink"
    /\ disk' = disk \ {v}
    /\ total' = total - charge[v]
    /\ charge' = [charge EXCEPT ![v] = 0]
    /\ backup' = [backup EXCEPT !.at = "evict", !.victim = NoPage,
                                !.attempts = Len(lru)]
    /\ UNCHANGED <<lru, pending, pins, prefetch, taker>>

\* os.remove() raises an OSError: the entry is the oldest again and the loop stops.
UnlinkFails == LET v == backup.victim IN
    /\ backup.at = "unlink"
    /\ v \in disk
    /\ lru' = <<v>> \o lru
    /\ backup' = [backup EXCEPT !.at = "evict", !.victim = NoPage, !.attempts = 0]
    /\ UNCHANGED <<disk, charge, total, pending, pins, prefetch, taker>>

\* The loop is over: boot is done, or reserve() looks at the total again.
EvictDone ==
    /\ backup.at = "evict" /\ ~MoreToEvict
    /\ IF backup.key = NoPage THEN backup' = Idle /\ UNCHANGED evictor
                              ELSE admit(backup.key)
    /\ UNCHANGED <<disk, pins, prefetch, taker>>

\* The staged file replaces the page file.
Write ==
    /\ backup.at = "write"
    /\ disk' = disk \cup {backup.key}
    /\ backup' = [backup EXCEPT !.at = "commit"]
    /\ UNCHANGED <<evictor, pins, prefetch, taker>>

\* The write raises before os.replace(): abort().
WriteFails == LET p == backup.key IN
    /\ backup.at = "write"
    /\ lru' = without(lru, p)
    /\ pending' = pending \ {p}
    /\ total' = total - charge[p]
    /\ charge' = [charge EXCEPT ![p] = 0]
    /\ backup' = Idle
    /\ UNCHANGED <<disk, pins, prefetch, taker>>

\* Mutant: the reservation's estimate is kept.
Commit_at_estimate ==
    /\ backup.at = "commit"
    /\ pending' = pending \ {backup.key}
    /\ backup' = Idle
    /\ UNCHANGED <<disk, lru, charge, total, pins, prefetch, taker>>

Commit == LET p == backup.key IN
    /\ backup.at = "commit"
    /\ pending' = pending \ {p}
    /\ IF p \in disk /\ p \in Range(lru)
       THEN /\ total' = total + (Allocated - charge[p])
            /\ charge' = [charge EXCEPT ![p] = Allocated]
       ELSE UNCHANGED <<charge, total>>
    /\ backup' = Idle
    /\ UNCHANGED <<disk, lru, pins, prefetch, taker>>

\* get(): the file is read, then touched. A missing file changes nothing.
Get(p) ==
    /\ prefetch.at = "idle" /\ ~Booting
    /\ p \in disk
    /\ prefetch' = [at |-> "touch", key |-> p]
    /\ UNCHANGED <<disk, evictor, pins, backup, taker>>

-----------------------------------------------------------------------------
(* The scheduler thread: take_file_tier_pins() and pin_checkpoint().       *)

Take(c) ==
    /\ taker.at = "idle" /\ ~Booting
    /\ taker' = [NotTaking EXCEPT !.at = "exists", !.ckpt = c, !.todo = kv_keys[c]]
    /\ UNCHANGED <<disk, evictor, pins, backup, prefetch>>

\* One turn of the loop over the keys in pin_checkpoint(), and one of the loop in
\* stems_with_sizes() after it.
CheckExists == LET p == Head(taker.todo) IN
    /\ taker.at = "exists"
    /\ taker' = [taker EXCEPT
         !.missing = @ \/ p \notin disk,
         !.at = IF Tail(taker.todo) = <<>> THEN "sizes" ELSE @,
         !.todo = IF Tail(@) = <<>> THEN kv_keys[taker.ckpt] ELSE Tail(@)]
    /\ UNCHANGED <<disk, evictor, pins, backup, prefetch>>

StatSize == LET p == Head(taker.todo) IN
    /\ taker.at = "sizes"
    /\ taker' = [taker EXCEPT
         !.sizes = IF p \in disk THEN @ \cup {p} ELSE @,
         !.at = IF Tail(taker.todo) = <<>> THEN "pin" ELSE @,
         !.todo = Tail(@)]
    /\ UNCHANGED <<disk, evictor, pins, backup, prefetch>>

pinned == {p \in Pages : is_pinned(p)}

pinned_bytes(S) == Allocated * Cardinality(S)

\* _install() and _persist(); PinBudgetExceeded leaves the ledger alone. A
\* checkpoint pinned again keeps the holds of its first time in _by_stem.
Pin == LET c == taker.ckpt IN
    /\ taker.at = "pin"
    /\ IF budget_bytes > 0 /\ pinned_bytes(pinned \cup taker.sizes) > budget_bytes
       THEN taker' = NotTaking /\ UNCHANGED pins
       ELSE /\ by_checkpoint' = [by_checkpoint EXCEPT ![c] = taker.sizes]
            /\ by_stem' = [p \in Pages |-> IF p \in taker.sizes
                                           THEN by_stem[p] \cup {c} ELSE by_stem[p]]
            /\ pin_file' = [pin_file EXCEPT ![c] = taker.sizes]
            /\ taker' = IF taker.missing THEN [taker EXCEPT !.at = "rollback"]
                        ELSE NotTaking
    /\ UNCHANGED <<disk, evictor, backup, prefetch>>

\* unpin(), before PinCoverageIncomplete is raised.
Rollback == LET c == taker.ckpt IN
    /\ taker.at = "rollback"
    /\ by_stem' = [p \in Pages |-> IF p \in by_checkpoint[c]
                                   THEN by_stem[p] \ {c} ELSE by_stem[p]]
    /\ by_checkpoint' = [by_checkpoint EXCEPT ![c] = {}]
    /\ pin_file' = [pin_file EXCEPT ![c] = {}]
    /\ taker' = NotTaking
    /\ UNCHANGED <<disk, evictor, backup, prefetch>>

-----------------------------------------------------------------------------
(* A crash and the constructor after it: PinLedger.load() first, then the  *)
(* scan (oldest mtime first: any order) and the eviction down to the cap.  *)

scan(order) ==
    /\ lru' = order
    /\ charge' = [p \in Pages |-> IF p \in disk THEN Allocated ELSE 0]
    /\ total' = Allocated * Cardinality(disk)
    /\ pending' = {}
    /\ backup' = IF Allocated * Cardinality(disk) > max_size_bytes
                 THEN [Idle EXCEPT !.at = "evict", !.attempts = Cardinality(disk)]
                 ELSE Idle

\* Mutant: the ledger starts empty.
Restart_unloaded ==
    /\ by_checkpoint' = [c \in Checkpoints |-> {}]
    /\ by_stem' = [p \in Pages |-> {}]
    /\ \E order \in Bijection(1..Cardinality(disk), disk) : scan(order)
    /\ prefetch' = NotTouching
    /\ taker' = NotTaking
    /\ UNCHANGED <<disk, pin_file>>

Restart ==
    /\ by_checkpoint' = pin_file
    /\ by_stem' = [p \in Pages |-> {c \in Checkpoints : p \in pin_file[c]}]
    /\ \E order \in Bijection(1..Cardinality(disk), disk) : scan(order)
    /\ prefetch' = NotTouching
    /\ taker' = NotTaking
    /\ UNCHANGED <<disk, pin_file>>

-----------------------------------------------------------------------------
Init ==
    /\ disk = {} /\ lru = <<>> /\ charge = [p \in Pages |-> 0] /\ total = 0
    /\ pending = {}
    /\ by_stem = [p \in Pages |-> {}]
    /\ by_checkpoint = [c \in Checkpoints |-> {}]
    /\ pin_file = [c \in Checkpoints |-> {}]
    /\ backup = Idle /\ prefetch = NotTouching /\ taker = NotTaking

TouchStep(t) == Touch(t) \/ Stat(t) \/ Adopt(t)

SetStep == \/ Reserve \/ EvictOne \/ Unlink \/ UnlinkFails \/ EvictDone
           \/ Write \/ WriteFails \/ Commit

TakerStep == CheckExists \/ StatSize \/ Pin \/ Rollback

Next == \/ \E p \in Pages : Set(p) \/ Get(p)
        \/ \E c \in Checkpoints : Take(c)
        \/ \E t \in {"backup", "prefetch"} : TouchStep(t)
        \/ SetStep \/ TakerStep
        \/ Restart

Spec == Init /\ [][Next]_vars

\* The backup thread is scheduled, and the process does not crash for ever; nothing
\* obliges anyone to call set(), get() or a checkpoint, or the other threads to run.
FairSpec == Spec /\ WF_vars(SetStep \/ TouchStep("backup")) /\ <>[][~Restart]_vars

-----------------------------------------------------------------------------
(* Properties.                                                             *)

Victim(p) == backup.at = "unlink" /\ backup.victim = p

Durable(p) == \E c \in Checkpoints : p \in pin_file[c]

\* A page some pin file lists, on disk and not already picked by the evictor.
Protected(p) == p \in disk /\ Durable(p) /\ ~Victim(p)

\* "A checkpoint's pages are protected from the first eviction or the protection
\* is a promise with a hole in it": once a page is protected, no write, refusal,
\* rollback of another checkpoint, crash or boot eviction ends that before its
\* last pin file stops listing it. (A page the evictor had picked when the pin was
\* taken is not protected by it: is_pinned() is not asked again at the unlink.)
ProtectionLasts ==
    [][\A p \in Pages : Protected(p) => Protected(p)' \/ ~Durable(p)']_vars

\* No file escapes the cap: whatever thread adopts, evicts, aborts or commits,
\* every page file is in the index or is the victim in hand, no page is there
\* twice, and _total_bytes is the sum of the charges. "The entry leaves the LRU
\* and the bytes stay on disk -- the cap silently stops holding."
FilesAreTracked ==
    LET index == Range(lru) \cup {p \in Pages : Victim(p)} IN
    /\ disk \subseteq index
    /\ IsInjective(lru)
    /\ total = Sum([p \in index |-> charge[p]])
    /\ \A p \in Pages \ index : charge[p] = 0

\* The files never take more than the cap plus what commit() adds to one
\* reservation, over concurrent reads, failed unlinks, and crashes that find
\* the directory over the cap.
DiskWithinCap ==
    Allocated * Cardinality(disk) <= max_size_bytes + (Allocated - Payload)

\* set() returns and boot finishes however the entries are pinned: "a store whose
\* entries are ALL pinned cannot spin here".
SetReturns == backup.at # "idle" ~> backup.at = "idle"
=============================================================================
