-------------------------- MODULE StagingRingProofs --------------------------
(***************************************************************************)
(* NothingStranded for every capacity, every length of node and any number *)
(* of node and operation ids. That each charge has an owner is inductive   *)
(* by itself. That the occupancy is the sum of the charges needs the       *)
(* lengths the handlers charge to be numbers, hence that an ack is always  *)
(* that of a copy still tracked: acks are queued once per copy, and node   *)
(* ids start over only when no copy is pending.                            *)
(***************************************************************************)
EXTENDS StagingRing, CollectionTheorems, SequenceTheorems, TLAPS

\* charge_once() makes its key, and no other, in flight.
LEMMA ChargeOnceDomain ==
    ASSUME NEW r, NEW key, NEW tokens
    PROVE  DOMAIN charge_once(r, key, tokens).inflight = DOMAIN r.inflight \cup {key}
<1>1. DOMAIN with(r.inflight, key, tokens) = {key} \cup DOMAIN r.inflight
  BY DEF with
<1>2. charge(r, key, tokens).inflight = with(r.inflight, key, tokens)
  BY DEF charge
<1> QED BY <1>1, <1>2 DEF charge_once

\* release() and abort() take their key, and no other, out of flight.
LEMMA PopDomain ==
    ASSUME NEW r, NEW key
    PROVE  DOMAIN pop(r, key).inflight = DOMAIN r.inflight \ {key}
<1>1. DOMAIN without(r.inflight, key) = DOMAIN r.inflight \ {key}
  BY DEF without, Restrict
<1> QED BY <1>1 DEF pop

\* write_backup_storage() adds its operation to the backups and to the charges.
LEMMA StorageDomain ==
    ASSUME NEW r, NEW tokens, write_backup_storage(r, tokens)
    PROVE  /\ DOMAIN ring'.inflight = DOMAIN r.inflight \cup {op_counter}
           /\ DOMAIN ongoing_backup' = DOMAIN ongoing_backup \cup {op_counter}
<1>1. DOMAIN ring'.inflight = DOMAIN r.inflight \cup {op_counter}
  BY ChargeOnceDomain DEF write_backup_storage
<1>2. DOMAIN ongoing_backup' = DOMAIN ongoing_backup \cup {op_counter}
  BY DEF write_backup_storage, with
<1> QED BY <1>1, <1>2

\* Every step keeps each charge with a pending copy or backup, whatever ids the
\* two phases share: a key that leaves a phase leaves the ring in the same step.
LEMMA StepKeepsOwners ==
    ASSUME ChargesAreOwned, [Next]_vars
    PROVE  ChargesAreOwned'
<1> USE DEF ChargesAreOwned
<1>1. ASSUME NEW id \in DOMAIN fresh, WriteBackup(id) PROVE ChargesAreOwned'
  <2>1. DOMAIN ring'.inflight = DOMAIN ring.inflight \cup {id}
    BY <1>1, ChargeOnceDomain DEF WriteBackup
  <2>2. DOMAIN ongoing_write_through' = DOMAIN ongoing_write_through \cup {id}
    BY <1>1 DEF WriteBackup, with
  <2>3. ongoing_backup' = ongoing_backup
    BY <1>1 DEF WriteBackup
  <2> QED BY <2>1, <2>2, <2>3
<1>2. ASSUME NEW id \in DOMAIN fresh, WriteBackupFails(id) PROVE ChargesAreOwned'
  <2>1. DOMAIN ring'.inflight = (DOMAIN ring.inflight \cup {id}) \ {id}
    BY <1>2, ChargeOnceDomain, PopDomain DEF WriteBackupFails
  <2>2. UNCHANGED <<ongoing_write_through, ongoing_backup>>
    BY <1>2 DEF WriteBackupFails
  <2> QED BY <2>1, <2>2
<1>3. CASE FinishWriteThrough
  <2> DEFINE ack_id == Head(ack_write_queue)
  <2>1. write_backup_storage(pop(ring, ack_id), ongoing_write_through[ack_id])
    BY <1>3 DEF FinishWriteThrough
  <2>2. DOMAIN ring'.inflight = (DOMAIN ring.inflight \ {ack_id}) \cup {op_counter}
    BY <2>1, StorageDomain, PopDomain
  <2>3. DOMAIN ongoing_backup' = DOMAIN ongoing_backup \cup {op_counter}
    BY <2>1, StorageDomain
  <2>4. DOMAIN ongoing_write_through' = DOMAIN ongoing_write_through \ {ack_id}
    BY <1>3 DEF FinishWriteThrough, without, Restrict
  <2> QED BY <2>2, <2>3, <2>4
<1>4. CASE BackupDirect
  <2>1. PICK n : write_backup_storage(ring, n)
    BY <1>4 DEF BackupDirect
  <2>2. UNCHANGED ongoing_write_through
    BY <1>4 DEF BackupDirect
  <2> QED BY <2>1, <2>2, StorageDomain
<1>5. CASE DrainBackup
  <2> DEFINE op == Head(ack_backup_queue)
  <2>1. DOMAIN ring'.inflight = DOMAIN ring.inflight \ {op}
    BY <1>5, PopDomain DEF DrainBackup
  <2>2. DOMAIN ongoing_backup' = DOMAIN ongoing_backup \ {op}
    BY <1>5 DEF DrainBackup, without, Restrict
  <2>3. UNCHANGED ongoing_write_through
    BY <1>5 DEF DrainBackup
  <2> QED BY <2>1, <2>2, <2>3
<1>6. ASSUME UNCHANGED <<ring, ongoing_write_through, ongoing_backup>>
      PROVE  ChargesAreOwned'
  BY <1>6
<1>7. CASE Insert BY <1>6, <1>7 DEF Insert
<1>8. CASE SplitPending BY <1>6, <1>8 DEF SplitPending
<1>9. CASE Prefetch BY <1>6, <1>9 DEF Prefetch
<1>10. ASSUME NEW id \in DOMAIN fresh, DropFresh(id) PROVE ChargesAreOwned'
  BY <1>6, <1>10 DEF DropFresh
<1>11. CASE BackupThread BY <1>6, <1>11 DEF BackupThread
<1>12. CASE Flush BY <1>6, <1>12 DEF Flush
<1>13. CASE UNCHANGED vars BY <1>6, <1>13 DEF vars
<1> QED BY <1>1, <1>2, <1>3, <1>4, <1>5, <1>7, <1>8, <1>9, <1>10, <1>11, <1>12,
           <1>13 DEF Next

-----------------------------------------------------------------------------
(* The occupancy.                                                          *)

\* The charges are finitely many natural numbers and the occupancy their sum.
Exact(r) == /\ r = [inflight |-> r.inflight, occupied |-> r.occupied]
            /\ IsFiniteSet(DOMAIN r.inflight)
            /\ r.inflight \in [DOMAIN r.inflight -> Nat]
            /\ r.occupied = Sum(r.inflight)

\* A node is on the device only, or its copy is pending, under an id handed out;
\* lengths are numbers; each pending copy is acked at most once.
Tracked == /\ node_counter \in Nat
           /\ DOMAIN fresh \subseteq 0..(node_counter - 1)
           /\ DOMAIN ongoing_write_through \subseteq 0..(node_counter - 1)
           /\ DOMAIN fresh \cap DOMAIN ongoing_write_through = {}
           /\ fresh \in [DOMAIN fresh -> Nat]
           /\ ongoing_write_through \in [DOMAIN ongoing_write_through -> Nat]
           /\ hosted \subseteq Nat
           /\ ack_write_queue \in Seq(DOMAIN ongoing_write_through)
           /\ IsInjective(ack_write_queue)

IInv == ChargesAreOwned /\ Exact(ring) /\ Tracked

\* admit() and occupy() keep the sum.
LEMMA ChargeExact ==
    ASSUME NEW r, Exact(r), NEW key, NEW tokens \in Nat
    PROVE  Exact(charge_once(r, key, tokens))
<1>1. CASE key \in DOMAIN r.inflight
  BY <1>1 DEF charge_once
<1>2. CASE key \notin DOMAIN r.inflight
  <2> DEFINE D == DOMAIN r.inflight
             g == with(r.inflight, key, tokens)
             c == charge_once(r, key, tokens)
  <2>1. /\ c.inflight = g /\ c.occupied = r.occupied + tokens
        /\ c = [inflight |-> c.inflight, occupied |-> c.occupied]
    BY <1>2 DEF charge_once, charge
  <2>2. r.inflight \in [D -> Nat] /\ IsFiniteSet(D) /\ r.occupied = Sum(r.inflight)
    BY DEF Exact
  <2>3. /\ g \in [D \cup {key} -> Nat] /\ DOMAIN g = D \cup {key}
        /\ g[key] = tokens /\ \A y \in D : g[y] = r.inflight[y]
    BY <1>2, <2>2 DEF with
  <2>4. IsFiniteSet(D \cup {key})
    BY <2>2, FS_AddElement
  <2> HIDE DEF D, g, c
  <2>5. key \notin D
    BY <1>2 DEF D
  <2>6. Sum(g) = Sum(r.inflight) + g[key]
    BY <2>2, <2>3, <2>5, SumAdd
  <2>7. Exact(c)
    BY <2>1, <2>2, <2>3, <2>4, <2>6 DEF Exact
  <2> QED BY <2>7 DEF c
<1> QED BY <1>1, <1>2

\* release() and abort() keep the sum, and the clamp at 0 is never taken.
LEMMA PopExact ==
    ASSUME NEW r, Exact(r), NEW key
    PROVE  /\ Exact(pop(r, key))
           /\ key \in DOMAIN r.inflight => r.inflight[key] <= r.occupied
<1>1. CASE key \notin DOMAIN r.inflight
  BY <1>1 DEF pop
<1>2. CASE key \in DOMAIN r.inflight
  <2> DEFINE D == DOMAIN r.inflight \ {key}
             g == without(r.inflight, key)
             c == pop(r, key)
  <2>1. /\ c.inflight = g
        /\ c.occupied = IF r.inflight[key] > r.occupied THEN 0
                        ELSE r.occupied - r.inflight[key]
        /\ c = [inflight |-> c.inflight, occupied |-> c.occupied]
    BY <1>2 DEF pop
  <2>2. /\ r.inflight \in [DOMAIN r.inflight -> Nat] /\ IsFiniteSet(DOMAIN r.inflight)
        /\ r.occupied = Sum(r.inflight)
    BY DEF Exact
  <2>3. g \in [D -> Nat] /\ DOMAIN g = D /\ \A y \in D : r.inflight[y] = g[y]
    BY <2>2 DEF without, Restrict
  <2>4. IsFiniteSet(D)
    BY <2>2, FS_Subset
  <2>5. key \notin D /\ r.inflight \in [D \cup {key} -> Nat] /\ r.inflight[key] \in Nat
    <3>1. DOMAIN r.inflight = D \cup {key}
      BY <1>2
    <3> QED BY <1>2, <2>2, <3>1
  <2> HIDE DEF D, g, c
  <2>6. Sum(r.inflight) = Sum(g) + r.inflight[key]
    BY <2>3, <2>4, <2>5, SumAdd
  <2>7. Sum(g) \in Nat
    BY <2>3, <2>4, SumType
  <2>8. c.occupied = Sum(g) /\ r.inflight[key] <= r.occupied
    BY <2>1, <2>2, <2>5, <2>6, <2>7
  <2>9. Exact(c)
    BY <2>1, <2>3, <2>4, <2>8 DEF Exact
  <2> QED BY <2>8, <2>9 DEF c
<1> QED BY <1>1, <1>2

\* Every step keeps the occupancy exact and every ack with its pending copy.
LEMMA StepKeepsExact ==
    ASSUME Exact(ring), Tracked, [Next]_vars
    PROVE  Exact(ring)' /\ Tracked'
<1>0. /\ \A id \in DOMAIN fresh : fresh[id] \in Nat /\ id \in Nat
      /\ \A id \in DOMAIN ongoing_write_through : ongoing_write_through[id] \in Nat
  BY DEF Tracked
<1>1. ASSUME NEW id \in DOMAIN fresh, WriteBackup(id) PROVE Exact(ring)' /\ Tracked'
  <2>1. Exact(ring)'
    BY <1>0, <1>1, ChargeExact DEF WriteBackup
  <2>2. /\ id \notin DOMAIN ongoing_write_through
        /\ DOMAIN ongoing_write_through' = DOMAIN ongoing_write_through \cup {id}
        /\ ongoing_write_through' \in [DOMAIN ongoing_write_through' -> Nat]
    BY <1>0, <1>1 DEF WriteBackup, with, Tracked
  <2>3. DOMAIN fresh' = DOMAIN fresh \ {id} /\ fresh' \in [DOMAIN fresh' -> Nat]
    BY <1>0, <1>1 DEF WriteBackup, without, Restrict
  <2>4. /\ ack_write_queue' \in Seq(DOMAIN ongoing_write_through')
        /\ IsInjective(ack_write_queue')
    <3> DEFINE q == ack_write_queue
    <3>0. q \in Seq(DOMAIN ongoing_write_through) /\ IsInjective(q)
      BY DEF Tracked
    <3>1. /\ q \in Seq(DOMAIN ongoing_write_through) /\ Len(q) \in Nat
          /\ \A i, j \in 1..Len(q) : q[i] = q[j] => i = j
      BY <3>0 DEF IsInjective
    <3>2. ack_write_queue' = Append(q, id)
      BY <1>1 DEF WriteBackup
    <3>3. q \in Seq(DOMAIN ongoing_write_through')
      BY <2>2, <3>1
    <3>4. /\ ack_write_queue' \in Seq(DOMAIN ongoing_write_through')
          /\ Len(ack_write_queue') = Len(q) + 1
          /\ \A i \in 1..Len(q) : ack_write_queue'[i] = q[i]
          /\ ack_write_queue'[Len(q) + 1] = id
      BY <2>2, <3>2, <3>3
    <3>5. \A i \in 1..Len(q) : q[i] # id
      BY <2>2, <3>1
    <3> HIDE DEF q
    <3>6. \A i, j \in 1..(Len(q) + 1) : ack_write_queue'[i] = ack_write_queue'[j] => i = j
      BY <3>1, <3>4, <3>5
    <3>7. DOMAIN ack_write_queue' = 1..(Len(q) + 1)
      BY <3>1, <3>4
    <3> QED BY <3>4, <3>6, <3>7 DEF IsInjective
  <2> QED BY <1>1, <2>1, <2>2, <2>3, <2>4 DEF WriteBackup, Tracked
<1>2. ASSUME NEW id \in DOMAIN fresh, WriteBackupFails(id) PROVE Exact(ring)' /\ Tracked'
  <2>1. Exact(ring)'
    BY <1>0, <1>2, ChargeExact, PopExact DEF WriteBackupFails
  <2> QED BY <1>2, <2>1 DEF WriteBackupFails, Tracked, controller
<1>3. CASE FinishWriteThrough
  <2> DEFINE ack_id == Head(ack_write_queue)
  <2>1. ack_write_queue # <<>> /\ ack_write_queue \in Seq(DOMAIN ongoing_write_through)
    BY <1>3 DEF FinishWriteThrough, Tracked
  <2>2. ack_id \in DOMAIN ongoing_write_through /\ ongoing_write_through[ack_id] \in Nat
    BY <1>0, <2>1
  <2>3. ring' = charge_once(pop(ring, ack_id), op_counter, ongoing_write_through[ack_id])
    BY <1>3 DEF FinishWriteThrough, write_backup_storage
  <2>4. Exact(ring)'
    BY <2>2, <2>3, ChargeExact, PopExact
  <2>5. /\ DOMAIN ongoing_write_through' = DOMAIN ongoing_write_through \ {ack_id}
        /\ ongoing_write_through' \in [DOMAIN ongoing_write_through' -> Nat]
    BY <1>0, <1>3 DEF FinishWriteThrough, without, Restrict
  <2>6. /\ ack_write_queue' \in Seq(DOMAIN ongoing_write_through')
        /\ IsInjective(ack_write_queue')
    <3>1. ack_write_queue' = Tail(ack_write_queue)
      BY <1>3 DEF FinishWriteThrough
    <3>2. /\ Len(ack_write_queue') = Len(ack_write_queue) - 1
          /\ \A i \in 1..Len(ack_write_queue') : ack_write_queue'[i] = ack_write_queue[i + 1]
      BY <2>1, <3>1
    <3>3. IsInjective(ack_write_queue)
      BY DEF Tracked
    <3>4. \A i \in 1..Len(ack_write_queue') : ack_write_queue'[i] # ack_id
      BY <2>1, <3>2, <3>3 DEF IsInjective
    <3>5. ack_write_queue' \in Seq(DOMAIN ongoing_write_through)
      BY <2>1, <3>1
    <3>6. ack_write_queue' \in Seq(DOMAIN ongoing_write_through')
      BY <2>5, <3>4, <3>5
    <3>7. IsInjective(ack_write_queue')
      BY <2>1, <3>1, <3>2, <3>3 DEF IsInjective
    <3> QED BY <3>6, <3>7
  <2>7. hosted' \subseteq Nat
    BY <1>3, <2>2 DEF FinishWriteThrough, Tracked
  <2> QED BY <1>3, <2>4, <2>5, <2>6, <2>7 DEF FinishWriteThrough, Tracked
<1>4. CASE BackupDirect
  <2>1. PICK n \in hosted \cup Range(ongoing_write_through) : write_backup_storage(ring, n)
    BY <1>4 DEF BackupDirect
  <2>2. n \in Nat
    BY <1>0 DEF Range, Tracked
  <2>3. Exact(ring)'
    BY <2>1, <2>2, ChargeExact DEF write_backup_storage
  <2> QED BY <1>4, <2>3 DEF BackupDirect, Tracked
<1>5. CASE DrainBackup
  <2>1. Exact(ring)'
    BY <1>5, PopExact DEF DrainBackup
  <2> QED BY <1>5, <2>1 DEF DrainBackup, Tracked
<1>6. CASE Insert
  <2>1. PICK n \in Lengths : fresh' = with(fresh, node_counter, n)
    BY <1>6 DEF Insert
  <2>2. n \in Nat /\ node_counter \in Nat /\ node_counter' = node_counter + 1
    BY <1>6, LengthsAssumption DEF Insert, Tracked
  <2>3. /\ DOMAIN fresh' = DOMAIN fresh \cup {node_counter}
        /\ fresh' \in [DOMAIN fresh' -> Nat]
    BY <1>0, <2>1, <2>2 DEF with
  <2>4. UNCHANGED <<ring, hosted, ongoing_write_through, ack_write_queue>>
    BY <1>6 DEF Insert, controller
  <2>5. DOMAIN fresh' \cap DOMAIN ongoing_write_through = {}
    BY <2>2, <2>3 DEF Tracked
  <2>6. /\ DOMAIN fresh' \subseteq 0..(node_counter' - 1)
        /\ DOMAIN ongoing_write_through \subseteq 0..(node_counter' - 1)
    BY <2>2, <2>3 DEF Tracked
  <2> QED BY <2>2, <2>3, <2>4, <2>5, <2>6 DEF Tracked
<1>7. CASE SplitPending
  <2>1. node_counter \in Nat /\ node_counter' = node_counter + 1
    BY <1>7 DEF SplitPending, Tracked
  <2>2. UNCHANGED <<ring, fresh, hosted, ongoing_write_through, ack_write_queue>>
    BY <1>7 DEF SplitPending, controller
  <2> QED BY <2>1, <2>2 DEF Tracked
<1>8. ASSUME UNCHANGED <<ring, fresh, hosted, ongoing_write_through, ack_write_queue,
                         node_counter>>
      PROVE  Exact(ring)' /\ Tracked'
  BY <1>8 DEF Tracked
<1>9. CASE Prefetch BY <1>8, <1>9 DEF Prefetch, controller
<1>10. ASSUME NEW id \in DOMAIN fresh, DropFresh(id) PROVE Exact(ring)' /\ Tracked'
  <2>1. DOMAIN fresh' = DOMAIN fresh \ {id} /\ fresh' \in [DOMAIN fresh' -> Nat]
    BY <1>0, <1>10 DEF DropFresh, without, Restrict
  <2> QED BY <1>10, <2>1 DEF DropFresh, Tracked, controller
<1>11. CASE BackupThread BY <1>8, <1>11 DEF BackupThread
<1>12. CASE Flush
  <2>1. /\ fresh' = <<>> /\ ongoing_write_through' = <<>> /\ node_counter' = 1
        /\ hosted' = {} /\ UNCHANGED <<ring, ongoing_write_through, ack_write_queue>>
    BY <1>12 DEF Flush, controller
  <2> QED BY <2>1 DEF Tracked
<1>13. CASE UNCHANGED vars BY <1>8, <1>13 DEF vars, controller
<1> QED BY <1>1, <1>2, <1>3, <1>4, <1>5, <1>6, <1>7, <1>9, <1>10, <1>11, <1>12,
           <1>13 DEF Next

\* For every capacity, every length of node and any number of node and operation
\* ids: no charge outlives the copy or the backup that took it, and the occupancy
\* is the sum of the charges, so the ring that guards an idle cache is empty.
THEOREM NoChargeStranded == Spec => []NothingStranded
<1>1. Init => IInv
  <2> SUFFICES ASSUME Init PROVE IInv
    OBVIOUS
  <2>1. ring.inflight = <<>> /\ ring.occupied = 0 /\ DOMAIN ring.inflight = {}
    BY DEF Init
  <2>2. Exact(ring)
    BY <2>1, SumEmpty, FS_EmptySet DEF Init, Exact
  <2>3. Tracked
    BY DEF Init, Tracked, IsInjective
  <2> QED BY <2>1, <2>2, <2>3 DEF IInv, ChargesAreOwned
<1>2. IInv /\ [Next]_vars => IInv'
  BY StepKeepsOwners, StepKeepsExact DEF IInv
<1>3. IInv => NothingStranded
  BY DEF IInv, Exact, NothingStranded
<1> QED BY <1>1, <1>2, <1>3, PTL DEF Spec
=============================================================================
