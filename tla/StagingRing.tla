----------------------------- MODULE StagingRing -----------------------------
(***************************************************************************)
(* Write-through into a staging host tier: the admission bound             *)
(* StagingWriteRing (mem_cache/staging_write_ring.py) and the calls        *)
(* HiRadixCache (mem_cache/hiradix_cache.py) makes to it on the way of a   *)
(* node from the device to the host and from the host to storage.          *)
(*                                                                         *)
(* A node is its id and its length in tokens. Host slots and page bytes    *)
(* are left out: cache_controller.write() returns None or not, as it may.  *)
(* The event loop is one thread; the copy of a node and the backup thread  *)
(* run beside it and answer through two queues.                            *)
(***************************************************************************)
EXTENDS Naturals, Sequences, FiniteSets, Functions, FiniteSums

CONSTANTS capacity_tokens,  \* of the ring
          Lengths,          \* lengths of the nodes inserted
          MaxNodes,         \* bound: node ids handed out between two flushes
          MaxOps            \* bound: storage operation ids handed out

ASSUME CapacityAssumption == capacity_tokens \in Nat \ {0}
ASSUME LengthsAssumption == Lengths \subseteq Nat \ {0}
ASSUME BoundAssumption == MaxNodes \in Nat /\ MaxOps \in Nat

VARIABLES ring,                   \* [inflight : key -> tokens, occupied]
          fresh,                  \* nodes on the device only: id -> length
          hosted,                 \* lengths of the nodes copied to the host
          ongoing_write_through,  \* ack id -> backup_len
          ack_write_queue,        \* the copies started, oldest first
          ongoing_backup,         \* operation id -> tokens kept on the host
          backup_queue,           \* the backup thread's input
          ack_backup_queue,       \* and its output
          node_counter,           \* TreeNode.counter
          op_counter              \* StorageOperation.counter

controller == <<ack_write_queue, backup_queue, ack_backup_queue>>
vars == <<ring, fresh, hosted, ongoing_write_through, ongoing_backup, controller,
          node_counter, op_counter>>

with(f, k, v) == [x \in DOMAIN f \cup {k} |-> IF x = k THEN v ELSE f[x]]

without(f, k) == Restrict(f, DOMAIN f \ {k})

-----------------------------------------------------------------------------
(* StagingWriteRing.                                                       *)

charge(r, key, tokens) == [inflight |-> with(r.inflight, key, tokens),
                           occupied |-> r.occupied + tokens]

admits(r, key, tokens) == \/ key \in DOMAIN r.inflight
                          \/ r.occupied + tokens <= capacity_tokens

\* admit() and occupy() leave a key that is in flight as it is.
charge_once(r, key, tokens) ==
    IF key \in DOMAIN r.inflight THEN r ELSE charge(r, key, tokens)

\* release() and abort()
pop(r, key) ==
    IF key \notin DOMAIN r.inflight THEN r
    ELSE [inflight |-> without(r.inflight, key),
          occupied |-> IF r.inflight[key] > r.occupied THEN 0
                       ELSE r.occupied - r.inflight[key]]

-----------------------------------------------------------------------------
(* HiRadixCache and its controller.                                        *)

Init == /\ ring = [inflight |-> <<>>, occupied |-> 0]
        /\ fresh = <<>>
        /\ hosted = {}
        /\ ongoing_write_through = <<>>
        /\ ongoing_backup = <<>>
        /\ ack_write_queue = <<>>
        /\ backup_queue = <<>>
        /\ ack_backup_queue = <<>>
        /\ node_counter = 1           \* reset() has made the root node
        /\ op_counter = 0

\* The bound on operation ids: each node on its way to storage will need one.
RoomForOp == op_counter + Cardinality(DOMAIN fresh)
             + Cardinality(DOMAIN ongoing_write_through) < MaxOps

\* insert() makes a node that is not on the host.
Insert == \E n \in Lengths :
    /\ node_counter < MaxNodes /\ RoomForOp
    /\ fresh' = with(fresh, node_counter, n)
    /\ node_counter' = node_counter + 1
    /\ UNCHANGED <<ring, hosted, ongoing_write_through, ongoing_backup, controller,
                   op_counter>>

\* _split_node() of a node whose copy is pending: the prefix is a new node, the
\* pending entry keeps its id and its backup_len, and the ack hands the
\* concatenation of the pieces to storage.
SplitPending ==
    /\ ongoing_write_through # <<>>
    /\ node_counter < MaxNodes
    /\ node_counter' = node_counter + 1
    /\ UNCHANGED <<ring, fresh, hosted, ongoing_write_through, ongoing_backup, controller,
                   op_counter>>

\* write_backup() admitted by the ring: the copy starts and the node is tracked.
WriteBackup(id) ==
    /\ admits(ring, id, fresh[id])
    /\ ring' = charge_once(ring, id, fresh[id])
    /\ ongoing_write_through' = with(ongoing_write_through, id, fresh[id])
    /\ ack_write_queue' = Append(ack_write_queue, id)
    /\ fresh' = without(fresh, id)
    /\ UNCHANGED <<hosted, ongoing_backup, backup_queue, ack_backup_queue, node_counter,
                   op_counter>>

\* Mutant: the write fails and the admission stays charged.
WriteBackupFails_charged(id) ==
    /\ admits(ring, id, fresh[id])
    /\ ring' = charge_once(ring, id, fresh[id])
    /\ UNCHANGED <<fresh, hosted, ongoing_write_through, ongoing_backup, controller,
                   node_counter, op_counter>>

\* The same when write() returns None, before and after evict_host(). (A node
\* the ring or the group's floor refuses changes nothing.)
WriteBackupFails(id) ==
    /\ admits(ring, id, fresh[id])
    /\ ring' = pop(charge_once(ring, id, fresh[id]), id)
    /\ UNCHANGED <<fresh, hosted, ongoing_write_through, ongoing_backup, controller,
                   node_counter, op_counter>>

\* evict() deletes a node that was never backed up.
DropFresh(id) ==
    /\ fresh' = without(fresh, id)
    /\ UNCHANGED <<ring, hosted, ongoing_write_through, ongoing_backup, controller,
                   node_counter, op_counter>>

\* write_backup_storage(): the operation takes the next id, then its charge.
write_backup_storage(r, tokens) ==
    /\ op_counter' = op_counter + 1
    /\ backup_queue' = Append(backup_queue, op_counter)
    /\ ongoing_backup' = with(ongoing_backup, op_counter, tokens)
    /\ ring' = charge_once(r, op_counter, tokens)

\* writing_check() finds the oldest copy finished: _finish_write_through_ack().
FinishWriteThrough ==
    /\ ack_write_queue # <<>>
    /\ LET ack_id == Head(ack_write_queue) IN
         /\ ack_write_queue' = Tail(ack_write_queue)
         /\ ongoing_write_through' = without(ongoing_write_through, ack_id)
         /\ hosted' = hosted \cup {ongoing_write_through[ack_id]}
         /\ write_backup_storage(pop(ring, ack_id), ongoing_write_through[ack_id])
    /\ UNCHANGED <<fresh, ack_backup_queue, node_counter>>

\* demote() at an eviction and a session snapshot hand nodes that have their host
\* slots to storage without passing admit(). (A snapshot takes those whose copy
\* is pending as well.)
BackupDirect == \E n \in hosted \cup Range(ongoing_write_through) :
    /\ RoomForOp
    /\ write_backup_storage(ring, n)
    /\ UNCHANGED <<fresh, hosted, ongoing_write_through, ack_write_queue, ack_backup_queue,
                   node_counter>>

\* prefetch_from_storage(): a PrefetchOperation is a StorageOperation.
Prefetch == /\ RoomForOp
            /\ op_counter' = op_counter + 1
            /\ UNCHANGED <<ring, fresh, hosted, ongoing_write_through, ongoing_backup,
                           controller, node_counter>>

\* Mutant: a stale operation is dropped without an ack.
BackupThread_unacked ==
    /\ backup_queue # <<>>
    /\ backup_queue' = Tail(backup_queue)
    /\ \/ ack_backup_queue' = Append(ack_backup_queue, Head(backup_queue))
       \/ UNCHANGED ack_backup_queue
    /\ UNCHANGED <<ring, fresh, hosted, ongoing_write_through, ongoing_backup,
                   ack_write_queue, node_counter, op_counter>>

\* backup_thread_func(): written, skipped or stale, an operation is acked.
BackupThread ==
    /\ backup_queue # <<>>
    /\ backup_queue' = Tail(backup_queue)
    /\ ack_backup_queue' = Append(ack_backup_queue, Head(backup_queue))
    /\ UNCHANGED <<ring, fresh, hosted, ongoing_write_through, ongoing_backup,
                   ack_write_queue, node_counter, op_counter>>

\* _drain_backup()
DrainBackup ==
    /\ ack_backup_queue # <<>>
    /\ ack_backup_queue' = Tail(ack_backup_queue)
    /\ ongoing_backup' = without(ongoing_backup, Head(ack_backup_queue))
    /\ ring' = pop(ring, Head(ack_backup_queue))
    /\ UNCHANGED <<fresh, hosted, ongoing_write_through, ack_write_queue, backup_queue,
                   node_counter, op_counter>>

\* flush_cache(), accepted only when is_fully_idle(): reset() starts the node
\* ids over, while the operation ids and the ring go on.
Flush == /\ ongoing_write_through = <<>>
         /\ ongoing_backup = <<>>
         /\ node_counter' = 1
         /\ fresh' = <<>>
         /\ hosted' = {}
         /\ UNCHANGED <<ring, ongoing_write_through, ongoing_backup, controller,
                        op_counter>>

Next == \/ Insert \/ SplitPending \/ BackupDirect \/ Prefetch
        \/ \E id \in DOMAIN fresh :
              WriteBackup(id) \/ WriteBackupFails(id) \/ DropFresh(id)
        \/ FinishWriteThrough \/ BackupThread \/ DrainBackup
        \/ Flush

Spec == Init /\ [][Next]_vars

\* check_hicache_events() runs in every iteration of the event loop and takes
\* whatever copies and backups have finished; a copy, once started, finishes,
\* and the backup thread takes what is queued.
FairSpec == /\ Spec
            /\ WF_vars(FinishWriteThrough)
            /\ WF_vars(BackupThread)
            /\ WF_vars(DrainBackup)

-----------------------------------------------------------------------------
(* Properties.                                                             *)

Resident == Sum(ongoing_write_through) + Sum(ongoing_backup)

\* Every charge belongs to a copy or a storage backup that is still pending.
ChargesAreOwned ==
    DOMAIN ring.inflight \subseteq
        DOMAIN ongoing_write_through \cup DOMAIN ongoing_backup

\* No charge is stranded and the occupancy is the sum of the charges, so an
\* idle cache leaves an empty ring: a leak "would shrink the ring permanently and
\* stop write-through altogether". That a failed write gives its admission back,
\* and that a key released by one phase is not released by the other, is in it;
\* and it holds although node ids and operation ids are the same integers.
NothingStranded == /\ ChargesAreOwned
                   /\ ring.occupied = Sum(ring.inflight)

\* A refused node is refused "until the drain catches up", and it does: a ring
\* with a charge in it is, some time later, rid of that charge.
RingDrains == \A key \in 0..(MaxNodes + MaxOps) :
    key \in DOMAIN ring.inflight ~> key \notin DOMAIN ring.inflight

\* The ring counts what it bounds: each pending copy and each pending backup
\* "releases exactly its own charge", so that no admission decides "against an
\* occupancy that hides the whole drain queue".
CountsResidents == ring.occupied = Resident
=============================================================================
