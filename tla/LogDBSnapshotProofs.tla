------------------------- MODULE LogDBSnapshotProofs -------------------------
(***************************************************************************)
(* At most one Snapshot record per replica, proved for every number of     *)
(* replicas, index bound and batch size, and with both kinds of I/O        *)
(* failure: a failed listSnapshots or CommitWriteBatch advances the        *)
(* cache's snapshot guard without writing, which only makes the guard      *)
(* stricter.  The guard is what the proof rests on: trySaveSnapshot        *)
(* accepts only an index above the cached one, and the cached index of a   *)
(* loaded replica is at least the live snapshot (getSnapshot reloads it    *)
(* after a restart), so the older records are all below the new one and    *)
(* saveSnapshot's range delete removes them.                               *)
(***************************************************************************)
EXTENDS LogDBProofs, FiniteSetTheorems

\* the Snapshot records of r are one index at most, and the guard of a loaded
\* replica is at or above it
SnapInv(r) ==
    /\ \A i, j \in diskSnaps[r] : i = j
    /\ started[r] => cacheSnap[r] >= LiveSnap(r)

SInv == TypeOK /\ \A r \in Replicas : SnapInv(r)

-----------------------------------------------------------------------------

\* an accepted snapshot of a loaded replica is above every Snapshot record,
\* so saveSnapshot leaves it alone on disk
LEMMA SnapWritten ==
    ASSUME TypeOK, NEW r \in Replicas, SnapInv(r), started[r],
           NEW k \in 0..MaxIdx, SnapAccepted(r, k)
    PROVE  {i \in diskSnaps[r] : ~(k > i)} \cup {k} = {k}
<1>1. /\ LiveSnap(r) \in 0..MaxIdx /\ cacheSnap[r] \in 0..MaxIdx
      /\ \A j \in diskSnaps[r] : j <= LiveSnap(r)
    BY LiveSnapFacts DEF TypeOK
<1>2. cacheSnap[r] >= LiveSnap(r)
    BY DEF SnapInv
<1>3. \A i \in diskSnaps[r] : k > i
    BY <1>1, <1>2, ConstantsAssumption DEF SnapAccepted, TypeOK, Idx
<1>. QED
    BY <1>3

\* a step that leaves one record k behind
LEMMA SnapInvWritten ==
    ASSUME TypeOK', NEW r \in Replicas, NEW k \in 0..MaxIdx,
           diskSnaps'[r] = {k}, started'[r] => cacheSnap'[r] >= k
    PROVE  SnapInv(r)'
<1>1. LiveSnap(r)' = k
    BY DEF LiveSnap
<1>. QED
    BY <1>1 DEF SnapInv

\* a step that keeps the records and does not lower the guard of a replica
\* that stays loaded
LEMMA SnapInvKept ==
    ASSUME TypeOK, TypeOK', NEW r \in Replicas, SnapInv(r),
           diskSnaps'[r] = diskSnaps[r],
           started'[r] => started[r] /\ cacheSnap'[r] >= cacheSnap[r]
    PROVE  SnapInv(r)'
<1>1. LiveSnap(r)' = LiveSnap(r)
    BY LiveSnapIsSetMax
<1>2. LiveSnap(r) \in 0..MaxIdx /\ cacheSnap[r] \in 0..MaxIdx
      /\ cacheSnap'[r] \in 0..MaxIdx
    BY LiveSnapFacts DEF TypeOK
<1>. QED
    BY <1>1, <1>2 DEF SnapInv

\* the guard only moves up when the first loop of a handler runs
LEMMA SnapIndexGrows ==
    ASSUME TypeOK, NEW P, NEW K, NEW r \in Replicas,
           r \in P => K[r] \in 0..MaxIdx
    PROVE  SnapIndexAfter(P, K)[r] >= cacheSnap[r]
    BY DEF SnapIndexAfter, SnapAccepted, TypeOK

-----------------------------------------------------------------------------

LEMMA SnapInvNext ==
    ASSUME SInv, [Next]_vars, NEW r \in Replicas
    PROVE  SnapInv(r)'
<1>1. TypeOK /\ TypeOK' /\ SnapInv(r)
    BY TypeNext DEF SInv
<1>2. ASSUME NEW D \in BatchDomains, NEW B \in [D -> Update], SaveRaftState(B)
      PROVE  SnapInv(r)'
    <2>1. D \in SUBSET Replicas /\ DOMAIN B = D
        BY DEF BatchDomains
    <2>2. cacheSnap' = SnapIndexAfter(D, SnapOf(B)) /\ started' = started
        BY <1>2, <2>1 DEF SaveRaftState
    <2>3. diskSnaps' = SnapsAfter(D, SnapOf(B)) \/ diskSnaps' = diskSnaps
        BY <1>2, <2>1 DEF SaveRaftState, disk
    <2>4. CASE r \in D /\ SnapAccepted(r, B[r].snap)
        <3>1. started[r] /\ B[r].snap \in 0..MaxIdx
            BY <1>2, <2>1, <2>4, UpdateFields DEF SaveRaftState, EngineUpdate
        <3>2. cacheSnap'[r] = B[r].snap
            BY <2>1, <2>2, <2>4 DEF SnapIndexAfter, SnapOf
        <3>3. B[r].snap > cacheSnap[r]
            BY <2>4 DEF SnapAccepted
        <3>4. CASE diskSnaps' = SnapsAfter(D, SnapOf(B))
            <4>1. diskSnaps'[r] = {B[r].snap}
                BY <1>1, <2>1, <2>4, <3>1, <3>4, SnapWritten DEF SnapsAfter, SnapOf
            <4>. QED
                BY <1>1, <3>1, <3>2, <4>1, SnapInvWritten
        <3>5. CASE diskSnaps' = diskSnaps
            BY <1>1, <2>2, <3>1, <3>2, <3>3, <3>5, SnapInvKept DEF TypeOK
        <3>. QED
            BY <2>3, <3>4, <3>5
    <2>5. CASE ~(r \in D /\ SnapAccepted(r, B[r].snap))
        <3>1. cacheSnap'[r] = cacheSnap[r] /\ diskSnaps'[r] = diskSnaps[r]
            BY <2>1, <2>2, <2>3, <2>5 DEF SnapIndexAfter, SnapsAfter, SnapOf
        <3>. QED
            BY <1>1, <2>2, <3>1, SnapInvKept DEF TypeOK
    <2>. QED
        BY <2>4, <2>5
<1>3. ASSUME NEW D \in BatchDomains, NEW K \in [D -> Idx], SaveSnapshots(K)
      PROVE  SnapInv(r)'
    <2>1. D \in SUBSET Replicas /\ DOMAIN K = D
        BY DEF BatchDomains
    <2>2. cacheSnap' = SnapIndexAfter(D, K) /\ started' = started
        BY <1>3, <2>1 DEF SaveSnapshots
    <2>3. diskSnaps' = SnapsAfter(D, K) \/ diskSnaps' = diskSnaps
        BY <1>3, <2>1 DEF SaveSnapshots
    <2>4. CASE r \in D /\ SnapAccepted(r, K[r])
        <3>1. started[r] /\ K[r] \in 0..MaxIdx
            BY <1>3, <2>1, <2>4 DEF SaveSnapshots, EngineSnapshot, Idx
        <3>2. cacheSnap'[r] = K[r]
            BY <2>1, <2>2, <2>4 DEF SnapIndexAfter
        <3>3. K[r] > cacheSnap[r]
            BY <2>4 DEF SnapAccepted
        <3>4. CASE diskSnaps' = SnapsAfter(D, K)
            <4>1. diskSnaps'[r] = {K[r]}
                BY <1>1, <2>1, <2>4, <3>1, <3>4, SnapWritten DEF SnapsAfter
            <4>. QED
                BY <1>1, <3>1, <3>2, <4>1, SnapInvWritten
        <3>5. CASE diskSnaps' = diskSnaps
            BY <1>1, <2>2, <3>1, <3>2, <3>3, <3>5, SnapInvKept DEF TypeOK
        <3>. QED
            BY <2>3, <3>4, <3>5
    <2>5. CASE ~(r \in D /\ SnapAccepted(r, K[r]))
        <3>1. cacheSnap'[r] = cacheSnap[r] /\ diskSnaps'[r] = diskSnaps[r]
            BY <2>1, <2>2, <2>3, <2>5 DEF SnapIndexAfter, SnapsAfter
        <3>. QED
            BY <1>1, <2>2, <3>1, SnapInvKept DEF TypeOK
    <2>. QED
        BY <2>4, <2>5
<1>4. ASSUME NEW D \in BatchDomains, NEW B \in [D -> Update],
             NEW f \in D, NEW P \in SUBSET D, SaveRaftStateListFails(B, P, f)
      PROVE  SnapInv(r)'
    <2>1. DOMAIN B = D /\ P \cup {f} \subseteq D
        OBVIOUS
    <2>2. r \in P \cup {f} => SnapOf(B)[r] \in 0..MaxIdx
        BY <2>1, UpdateFields DEF SnapOf
    <2>3. cacheSnap'[r] >= cacheSnap[r]
        BY <1>1, <1>4, <2>2, SnapIndexGrows DEF SaveRaftStateListFails
    <2>. QED
        BY <1>1, <1>4, <2>3, SnapInvKept DEF SaveRaftStateListFails, disk
<1>5. ASSUME NEW D \in BatchDomains, NEW K \in [D -> Idx],
             NEW f \in D, NEW P \in SUBSET D, SaveSnapshotsListFails(K, P, f)
      PROVE  SnapInv(r)'
    <2>1. r \in P \cup {f} => K[r] \in 0..MaxIdx
        BY DEF Idx
    <2>2. cacheSnap'[r] >= cacheSnap[r]
        BY <1>1, <1>5, <2>1, SnapIndexGrows DEF SaveSnapshotsListFails
    <2>. QED
        BY <1>1, <1>5, <2>2, SnapInvKept DEF SaveSnapshotsListFails, disk
<1>6. CASE Crash
    BY <1>1, <1>6, SnapInvKept DEF Crash, disk
<1>7. ASSUME NEW r0 \in Replicas, GetSnapshot(r0) PROVE SnapInv(r)'
    <2>1. CASE r0 = r
        <3>1. /\ diskSnaps' = diskSnaps
              /\ cacheSnap'[r] = IF diskSnaps[r] = {} THEN cacheSnap[r]
                                 ELSE LiveSnap(r)
            BY <1>1, <1>7, <2>1 DEF GetSnapshot, disk, TypeOK
        <3>2. LiveSnap(r)' = LiveSnap(r)
            BY <3>1 DEF LiveSnap
        <3>3. LiveSnap(r) \in 0..MaxIdx /\ cacheSnap[r] \in 0..MaxIdx
              /\ (diskSnaps[r] = {} => LiveSnap(r) = 0)
            BY <1>1, LiveSnapFacts DEF TypeOK
        <3>. QED
            BY <1>1, <3>1, <3>2, <3>3 DEF SnapInv
    <2>2. CASE r0 # r
        BY <1>1, <1>7, <2>2, SnapInvKept DEF GetSnapshot, disk, TypeOK
    <2>. QED
        BY <2>1, <2>2
<1>8. ASSUME NEW r0 \in Replicas, RemoveNodeData(r0) PROVE SnapInv(r)'
    <2>1. CASE r0 = r
        <3>1. diskSnaps'[r] = {} /\ cacheSnap'[r] \in 0..MaxIdx
            BY <1>1, <1>8, <2>1 DEF RemoveNodeData, TypeOK
        <3>2. LiveSnap(r)' = 0
            BY <3>1 DEF LiveSnap
        <3>. QED
            BY <3>1, <3>2 DEF SnapInv
    <2>2. CASE r0 # r
        BY <1>1, <1>8, <2>2, SnapInvKept DEF RemoveNodeData, TypeOK
    <2>. QED
        BY <2>1, <2>2
<1>9. ASSUME NEW r0 \in Replicas, NEW k \in Idx, NEW s \in States,
             ImportSnapshot(r0, k, s)
      PROVE  SnapInv(r)'
    <2>1. CASE r0 = r
        <3>1. diskSnaps'[r] = {k} /\ ~started'[r] /\ k \in 0..MaxIdx
            BY <1>1, <1>9, <2>1 DEF ImportSnapshot, Untouched, TypeOK, Idx
        <3>. QED
            BY <1>1, <3>1, SnapInvWritten
    <2>2. CASE r0 # r
        BY <1>1, <1>9, <2>2, SnapInvKept DEF ImportSnapshot, TypeOK, cache
    <2>. QED
        BY <2>1, <2>2
<1>10. ASSUME NEW r0 \in Replicas,
              \/ SaveBootstrapInfo(r0)
              \/ RemoveNodeDataEntries(r0)
              \/ \E i \in Idx : RemoveEntriesTo(r0, i)
       PROVE  SnapInv(r)'
    BY <1>1, <1>10, SnapInvKept DEF SaveBootstrapInfo, RemoveNodeDataEntries,
       RemoveEntriesTo, cache, TypeOK
<1>11. CASE UNCHANGED vars
    <2>1. diskSnaps' = diskSnaps /\ started' = started /\ cacheSnap' = cacheSnap
        BY <1>11 DEF vars, disk, cache
    <2>. QED
        BY <1>1, <2>1, SnapInvKept DEF TypeOK
<1>. QED
    <2>1. CASE \E D \in BatchDomains : \E B \in [D -> Update] :
                 \/ SaveRaftState(B)
                 \/ SaveRaftStateAborts(B)
                 \/ \E f \in D, P \in SUBSET D :
                       f \notin P /\ SaveRaftStateListFails(B, P, f)
        BY <1>2, <1>4, <1>6, <2>1 DEF SaveRaftStateAborts
    <2>2. CASE \E D \in BatchDomains : \E K \in [D -> Idx] :
                 \/ SaveSnapshots(K)
                 \/ \E f \in D, P \in SUBSET D :
                       f \notin P /\ SaveSnapshotsListFails(K, P, f)
        BY <1>3, <1>5, <2>2
    <2>3. CASE \E r0 \in Replicas :
                 \/ GetSnapshot(r0)
                 \/ SaveBootstrapInfo(r0)
                 \/ RemoveNodeData(r0)
                 \/ RemoveNodeDataEntries(r0)
                 \/ \E i \in Idx : RemoveEntriesTo(r0, i)
                 \/ \E k \in Idx, s \in States : ImportSnapshot(r0, k, s)
        BY <1>7, <1>8, <1>9, <1>10, <2>3
    <2>. QED
        BY <1>6, <1>11, <2>1, <2>2, <2>3 DEF Next

\* one record index at most is at most one record
LEMMA SInvSingle ==
    ASSUME SInv
    PROVE  SingleLiveSnapshot
<1> SUFFICES ASSUME NEW r \in Replicas PROVE Cardinality(diskSnaps[r]) <= 1
    BY DEF SingleLiveSnapshot
<1>1. CASE diskSnaps[r] = {}
    BY <1>1, FS_EmptySet
<1>2. CASE diskSnaps[r] # {}
    <2>1. PICK x \in diskSnaps[r] : TRUE
        BY <1>2
    <2>2. diskSnaps[r] = {x}
        BY <2>1 DEF SInv, SnapInv
    <2>3. Cardinality({x}) = 1
        BY FS_Singleton
    <2>. QED
        BY <2>2, <2>3
<1>. QED
    BY <1>1, <1>2

(***************************************************************************)
(* Even with failing listSnapshots and CommitWriteBatch, every replica's   *)
(* Snapshot records carry one index, and a loaded replica's cached         *)
(* snapshot index (the trySaveSnapshot guard) is never below it: a failed  *)
(* commit only raises the cache, and getSnapshot reloads it after restart. *)
(***************************************************************************)
THEOREM SInvHolds == Spec => []SInv
<1>1. Init => SInv
    BY ConstantsAssumption DEF Init, SInv, SnapInv, TypeOK, IndexOrNone,
       StateOrNone
<1>2. SInv /\ [Next]_vars => SInv'
    BY SnapInvNext, TypeNext DEF SInv
<1>. QED
    BY <1>1, <1>2, PTL DEF Spec

(***************************************************************************)
(* At most one Snapshot record per replica survives (spec section 3), in   *)
(* every reachable state, with or without failing listSnapshots and        *)
(* CommitWriteBatch: saveSnapshot deletes the older records in the batch   *)
(* that writes the new one, and trySaveSnapshot, reloaded by getSnapshot   *)
(* after a restart, lets through only indices above every record.          *)
(***************************************************************************)
THEOREM SingleLiveSnapshotHolds == Spec => []SingleLiveSnapshot
<1>1. SInv => SingleLiveSnapshot
    BY SInvSingle
<1>. QED
    BY SInvHolds, <1>1, PTL
=============================================================================
