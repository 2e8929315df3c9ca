------------------------------- MODULE LogDB -------------------------------
(***************************************************************************)
(* One shard of the log storage: the db type of db.go                      *)
(* (src/unnamed/part_000) over its embedded key-value store, together with *)
(* the replica cache cs and the plain entry manager, whose code is not     *)
(* under src/ and which are modelled from spec.md (sections 4.3 and 4.4).  *)
(*                                                                         *)
(* The key-value store is abstracted to one variable per record kind.  A   *)
(* key is (kind, replica, index), so the Snapshot and Entry records of a   *)
(* replica are sets of indices; the values kept are the ones a property    *)
(* tells apart.  A write batch is applied atomically by CommitWriteBatch,  *)
(* so one handler that commits one batch is one action.                    *)
(***************************************************************************)
EXTENDS Integers, FiniteSets

CONSTANTS
    Replicas,     \* the (clusterID, nodeID) pairs kept by this shard
    MaxIdx,       \* the largest entry or snapshot index of a run
    MaxBatch,     \* the most updates one saveRaftState / saveSnapshots call carries
    States,       \* the non-empty raft states pb.State{Term, Vote, Commit}
    NoState,      \* the empty state (pb.IsEmptyState), or no State record
    ListFails,    \* can the range scan of listSnapshots fail (StorageIO)?
    CommitFails   \* can CommitWriteBatch fail (StorageIO)?

ASSUME ConstantsAssumption ==
    /\ MaxIdx \in Nat \ {0}
    /\ MaxBatch \in Nat \ {0}
    /\ NoState \notin States
    /\ ListFails \in BOOLEAN
    /\ CommitFails \in BOOLEAN

Idx == 1..MaxIdx
\* the MaxIndex lookup that finds no record: raftio.ErrNoSavedLog
NoSavedLog == -1
IndexOrNone == {NoSavedLog} \cup 0..MaxIdx
StateOrNone == States \cup {NoState}

(***************************************************************************)
(* One pb.Update as saveRaftState reads it: the state (NoState if empty),  *)
(* the snapshot index (0 is pb.IsEmptySnapshot) and EntriesToSave, the     *)
(* indices lo..hi (lo > hi: none, written canonically as 1..0).            *)
(***************************************************************************)
Update == {u \in [state: StateOrNone, snap: 0..MaxIdx, lo: Idx, hi: 0..MaxIdx] :
              u.lo <= u.hi \/ (u.lo = 1 /\ u.hi = 0)}
HasEntries(u) == u.lo <= u.hi

VARIABLES
    diskState,     \* replica -> its State record, or NoState
    diskMax,       \* replica -> its MaxIndex record, or NoSavedLog
    diskSnaps,     \* replica -> the indices of its Snapshot records
    diskEntries,   \* replica -> the indices of its Entry records
    diskBootstrap, \* replica -> is there a Bootstrap record
    cacheMax,      \* cs: replica -> cached max index, or NoSavedLog
    cacheState,    \* cs: replica -> last state handed to setState, or NoState
    cacheSnap,     \* cs: replica -> last snapshot index accepted, 0 if none
    started,       \* replica -> loaded by the engine (getSnapshot) since the process started
    removing,      \* replica -> removeNodeData committed its batch, entries not yet removed
    acked,         \* replica -> the state the engine was last told is durable
    ackedSnap      \* replica -> the newest snapshot index the engine was told is saved

disk == <<diskState, diskMax, diskSnaps, diskEntries, diskBootstrap>>
cache == <<cacheMax, cacheState, cacheSnap>>
engine == <<acked, ackedSnap>>
vars == <<disk, cache, started, removing, engine>>

TypeOK ==
    /\ diskState \in [Replicas -> StateOrNone]
    /\ diskMax \in [Replicas -> IndexOrNone]
    /\ diskSnaps \in [Replicas -> SUBSET Idx]
    /\ diskEntries \in [Replicas -> SUBSET Idx]
    /\ diskBootstrap \in [Replicas -> BOOLEAN]
    /\ cacheMax \in [Replicas -> IndexOrNone]
    /\ cacheState \in [Replicas -> StateOrNone]
    /\ cacheSnap \in [Replicas -> 0..MaxIdx]
    /\ started \in [Replicas -> BOOLEAN]
    /\ removing \in [Replicas -> BOOLEAN]
    /\ acked \in [Replicas -> StateOrNone]
    /\ ackedSnap \in [Replicas -> 0..MaxIdx]

-----------------------------------------------------------------------------
(* Reads. *)

OrZero(i) == IF i = NoSavedLog THEN 0 ELSE i

\* the newest Snapshot record of r (listSnapshots returns them by index), 0 if none
LiveSnap(r) ==
    IF diskSnaps[r] = {} THEN 0
    ELSE CHOOSE i \in diskSnaps[r] : \A j \in diskSnaps[r] : j <= i

\* db.getMaxIndex: the cached value, else the MaxIndex record
getMaxIndex(r) == IF cacheMax[r] # NoSavedLog THEN cacheMax[r] ELSE diskMax[r]

\* db.getRange over entries.getRange: the first index and the number of
\* entries readRaftState reports for r when its snapshot is at ss
getRange(r, ss) ==
    LET mi == getMaxIndex(r)
        found == {i \in diskEntries[r] : ss <= i /\ i <= mi}
        first == IF found = {} THEN ss + 1
                 ELSE CHOOSE i \in found : \A j \in found : i <= j
    IN IF mi = NoSavedLog \/ mi = ss THEN [first |-> ss, length |-> 0]
       ELSE [first |-> first, length |-> mi - first + 1]

-----------------------------------------------------------------------------
(* The cache cs and the entry manager, as saveRaftState consults them. *)

\* cs.setState: true, and the state cached, when it differs from the cached one
StateChanged(r, u) == u.state # NoState /\ u.state # cacheState[r]
\* cs.trySaveSnapshot: accepted when newer than the last accepted index
SnapAccepted(r, k) == k # 0 /\ k > cacheSnap[r]
\* the plog.Panicf of saveRaftState: accepted snapshot beyond the last entry
Aborts(r, u) == SnapAccepted(r, u.snap) /\ HasEntries(u) /\ u.snap > u.hi
\* the max index entries.record sees: the snapshot's if one was just accepted
MaxBefore(r, u) ==
    IF SnapAccepted(r, u.snap) THEN u.snap ELSE OrZero(getMaxIndex(r))
\* entries.record stages the entries unless all are below the current max index
Recorded(r, u) == HasEntries(u) /\ u.hi >= MaxBefore(r, u)
MaxSet(r, u) == Recorded(r, u) \/ SnapAccepted(r, u.snap)
\* mutant of NewMax: the max index written one past the last entry
NewMaxOffByOne(r, u) == IF Recorded(r, u) THEN u.hi + 1 ELSE u.snap
NewMax(r, u) == IF Recorded(r, u) THEN u.hi ELSE u.snap

(***************************************************************************)
(* The effect of the updates B[r], r \in P, on one variable.  K maps       *)
(* replicas to snapshot indices.                                           *)
(***************************************************************************)
StatesAfter(P, B, old) ==
    [r \in Replicas |-> IF r \in P /\ StateChanged(r, B[r]) THEN B[r].state ELSE old[r]]
SnapIndexAfter(P, K) ==
    [r \in Replicas |-> IF r \in P /\ SnapAccepted(r, K[r]) THEN K[r] ELSE cacheSnap[r]]
\* saveSnapshot: delete the older Snapshot records, put the new one
SnapsAfter(P, K) ==
    [r \in Replicas |->
        IF r \in P /\ SnapAccepted(r, K[r])
        THEN {i \in diskSnaps[r] : ~(K[r] > i)} \cup {K[r]}
        ELSE diskSnaps[r]]
MaxAfter(P, B, old) ==
    [r \in Replicas |-> IF r \in P /\ MaxSet(r, B[r]) THEN NewMax(r, B[r]) ELSE old[r]]
EntriesAfter(P, B) ==
    [r \in Replicas |->
        IF r \in P /\ Recorded(r, B[r]) THEN diskEntries[r] \cup B[r].lo..B[r].hi
        ELSE diskEntries[r]]
AckedAfter(B) ==
    [r \in Replicas |->
        IF r \in DOMAIN B /\ B[r].state # NoState THEN B[r].state ELSE acked[r]]
SnapOf(B) == [r \in DOMAIN B |-> B[r].snap]
\* the engine's snapshot index after a call reported the snapshots K of P saved
SnapAckedAfter(P, K) ==
    [r \in Replicas |-> IF r \in P /\ K[r] > ackedSnap[r] THEN K[r] ELSE ackedSnap[r]]
\* wb.Count() > 0 after the two loops of saveRaftState
Writes(B) ==
    \E r \in DOMAIN B : StateChanged(r, B[r]) \/ SnapAccepted(r, B[r].snap)
                        \/ Recorded(r, B[r])

-----------------------------------------------------------------------------
(* The engine's calls. *)

Init ==
    /\ diskState = [r \in Replicas |-> NoState]
    /\ diskMax = [r \in Replicas |-> NoSavedLog]
    /\ diskSnaps = [r \in Replicas |-> {}]
    /\ diskEntries = [r \in Replicas |-> {}]
    /\ diskBootstrap = [r \in Replicas |-> FALSE]
    /\ cacheMax = [r \in Replicas |-> NoSavedLog]
    /\ cacheState = [r \in Replicas |-> NoState]
    /\ cacheSnap = [r \in Replicas |-> 0]
    /\ started = [r \in Replicas |-> FALSE]
    /\ removing = [r \in Replicas |-> FALSE]
    /\ acked = [r \in Replicas |-> NoState]
    /\ ackedSnap = [r \in Replicas |-> 0]

\* the replicas one batched call may address, one update each
BatchDomains == {D \in SUBSET Replicas : D # {} /\ Cardinality(D) <= MaxBatch}

(***************************************************************************)
(* What the raft engine hands to saveRaftState for r: entries follow the   *)
(* live snapshot and continue (or overwrite) the persisted log.            *)
(***************************************************************************)
EngineUpdate(r, u) ==
    /\ started[r] /\ ~removing[r]
    /\ HasEntries(u) => /\ LiveSnap(r) < u.lo
                        /\ u.lo <= OrZero(getMaxIndex(r)) + 1

\* the process restarts: openRDB builds a new, empty cache
Crash ==
    /\ cacheMax' = [r \in Replicas |-> NoSavedLog]
    /\ cacheState' = [r \in Replicas |-> NoState]
    /\ cacheSnap' = [r \in Replicas |-> 0]
    /\ started' = [r \in Replicas |-> FALSE]
    /\ removing' = [r \in Replicas |-> FALSE]
    /\ UNCHANGED <<disk, engine>>

(***************************************************************************)
(* saveRaftState: the first loop runs setState and trySaveSnapshot (with   *)
(* saveSnapshot and setMaxIndex) per update, saveEntries records the       *)
(* entries, and the batch is committed if it is not empty.  The cache is   *)
(* updated whether or not the commit succeeds.                             *)
(***************************************************************************)
SaveRaftState(B) ==
    LET D == DOMAIN B IN
    /\ \A r \in D : EngineUpdate(r, B[r]) /\ ~Aborts(r, B[r])
    /\ cacheState' = StatesAfter(D, B, cacheState)
    /\ cacheSnap' = SnapIndexAfter(D, SnapOf(B))
    /\ cacheMax' = MaxAfter(D, B, cacheMax)
    /\ \/ /\ diskState' = StatesAfter(D, B, diskState)
          /\ diskMax' = MaxAfter(D, B, diskMax)
          /\ diskSnaps' = SnapsAfter(D, SnapOf(B))
          /\ diskEntries' = EntriesAfter(D, B)
          /\ acked' = AckedAfter(B)
          /\ ackedSnap' = SnapAckedAfter(D, SnapOf(B))
          /\ UNCHANGED diskBootstrap
       \/ /\ CommitFails /\ Writes(B)
          /\ UNCHANGED <<disk, engine>>
    /\ UNCHANGED <<started, removing>>

(***************************************************************************)
(* saveSnapshot fails for the update of f, after the updates of P went     *)
(* through the first loop: saveRaftState returns nil with nothing         *)
(* committed and the cache already advanced.                               *)
(***************************************************************************)
SaveRaftStateListFails(B, P, f) ==
    /\ ListFails
    /\ \A r \in DOMAIN B : EngineUpdate(r, B[r])
    /\ \A r \in P \cup {f} : ~Aborts(r, B[r])
    /\ SnapAccepted(f, B[f].snap)
    /\ cacheState' = StatesAfter(P \cup {f}, B, cacheState)
    /\ cacheSnap' = SnapIndexAfter(P \cup {f}, SnapOf(B))
    /\ cacheMax' = [r \in Replicas |->
                      IF r \in P /\ SnapAccepted(r, B[r].snap) THEN B[r].snap
                      ELSE cacheMax[r]]
    /\ acked' = AckedAfter(B)
    /\ ackedSnap' = SnapAckedAfter(DOMAIN B, SnapOf(B))
    /\ UNCHANGED <<disk, started, removing>>

\* an update with an accepted snapshot beyond its last entry: plog.Panicf
SaveRaftStateAborts(B) ==
    /\ \A r \in DOMAIN B : EngineUpdate(r, B[r])
    /\ \E r \in DOMAIN B : Aborts(r, B[r])
    /\ Crash

(***************************************************************************)
(* saveSnapshots: the engine saves snapshots it took of its applied state, *)
(* K[r] <= the persisted max index; the MaxIndex record is not touched.    *)
(***************************************************************************)
EngineSnapshot(r, k) == started[r] /\ ~removing[r] /\ k <= OrZero(getMaxIndex(r))

SaveSnapshots(K) ==
    LET D == DOMAIN K IN
    /\ \A r \in D : EngineSnapshot(r, K[r])
    /\ cacheSnap' = SnapIndexAfter(D, K)
    /\ \/ diskSnaps' = SnapsAfter(D, K) /\ ackedSnap' = SnapAckedAfter(D, K)
       \/ /\ CommitFails
          /\ \E r \in D : SnapAccepted(r, K[r])
          /\ UNCHANGED <<diskSnaps, ackedSnap>>
    /\ UNCHANGED <<diskState, diskMax, diskEntries, diskBootstrap,
                   cacheMax, cacheState, started, removing, acked>>

\* saveSnapshot fails for f after the snapshots of P: returns nil, no commit
SaveSnapshotsListFails(K, P, f) ==
    /\ ListFails
    /\ \A r \in DOMAIN K : EngineSnapshot(r, K[r])
    /\ SnapAccepted(f, K[f])
    /\ cacheSnap' = SnapIndexAfter(P \cup {f}, K)
    /\ ackedSnap' = SnapAckedAfter(DOMAIN K, K)
    /\ UNCHANGED <<disk, cacheMax, cacheState, started, removing, acked>>

\* mutant of GetSnapshot: the snapshot index is not put back into the cache
GetSnapshotNoReload(r) ==
    /\ started' = [started EXCEPT ![r] = TRUE]
    /\ UNCHANGED <<disk, cache, removing, engine>>

\* getSnapshot: the newest Snapshot record, whose index is cached; the engine
\* calls it when it loads the replica
GetSnapshot(r) ==
    /\ cacheSnap' = [cacheSnap EXCEPT ![r] = IF diskSnaps[r] = {} THEN @
                                             ELSE LiveSnap(r)]
    /\ started' = [started EXCEPT ![r] = TRUE]
    /\ UNCHANGED <<disk, cacheMax, cacheState, removing, engine>>

\* the cache has not seen r since the process started (the NodeHost is down)
Untouched(r) ==
    /\ ~started[r] /\ ~removing[r]
    /\ cacheMax[r] = NoSavedLog /\ cacheState[r] = NoState /\ cacheSnap[r] = 0

\* mutant of ImportSnapshot: the import runs while the replica is loaded
ImportSnapshotWhileLoaded(r, k, s) ==
    /\ ~removing[r]
    /\ diskState' = [diskState EXCEPT ![r] = s]
    /\ diskMax' = [diskMax EXCEPT ![r] = k]
    /\ diskSnaps' = [diskSnaps EXCEPT ![r] = {k}]
    /\ diskBootstrap' = [diskBootstrap EXCEPT ![r] = TRUE]
    /\ acked' = [acked EXCEPT ![r] = s]
    /\ ackedSnap' = [ackedSnap EXCEPT ![r] = k]
    /\ UNCHANGED <<diskEntries, cache, started, removing>>

\* mutant of ImportSnapshot: the MaxIndex record is not written
ImportSnapshotNoMaxIndex(r, k, s) ==
    /\ Untouched(r)
    /\ diskState' = [diskState EXCEPT ![r] = s]
    /\ diskSnaps' = [diskSnaps EXCEPT ![r] = {k}]
    /\ diskBootstrap' = [diskBootstrap EXCEPT ![r] = TRUE]
    /\ acked' = [acked EXCEPT ![r] = s]
    /\ ackedSnap' = [ackedSnap EXCEPT ![r] = k]
    /\ UNCHANGED <<diskMax, diskEntries, cache, started, removing>>

(***************************************************************************)
(* importSnapshot of a snapshot at k whose state is s: delete the Snapshot *)
(* records at or above k (saveRemoveNodeData) and below k (saveSnapshot),  *)
(* write Bootstrap, State, the Snapshot and MaxIndex in one batch.  The    *)
(* cache is not touched.                                                   *)
(***************************************************************************)
ImportSnapshot(r, k, s) ==
    /\ Untouched(r)
    /\ diskState' = [diskState EXCEPT ![r] = s]
    /\ diskMax' = [diskMax EXCEPT ![r] = k]
    /\ diskSnaps' = [diskSnaps EXCEPT ![r] = {k}]
    /\ diskBootstrap' = [diskBootstrap EXCEPT ![r] = TRUE]
    /\ acked' = [acked EXCEPT ![r] = s]
    /\ ackedSnap' = [ackedSnap EXCEPT ![r] = k]
    /\ UNCHANGED <<diskEntries, cache, started, removing>>

\* saveBootstrapInfo
SaveBootstrapInfo(r) ==
    /\ ~removing[r]
    /\ diskBootstrap' = [diskBootstrap EXCEPT ![r] = TRUE]
    /\ UNCHANGED <<diskState, diskMax, diskSnaps, diskEntries, cache,
                   started, removing, engine>>

\* removeNodeData, first half: commit the deletion of State, Bootstrap,
\* MaxIndex and the Snapshot records, then cache max index 0
RemoveNodeData(r) ==
    /\ ~removing[r]
    /\ diskState' = [diskState EXCEPT ![r] = NoState]
    /\ diskMax' = [diskMax EXCEPT ![r] = NoSavedLog]
    /\ diskSnaps' = [diskSnaps EXCEPT ![r] = {}]
    /\ diskBootstrap' = [diskBootstrap EXCEPT ![r] = FALSE]
    /\ cacheMax' = [cacheMax EXCEPT ![r] = 0]
    /\ removing' = [removing EXCEPT ![r] = TRUE]
    /\ acked' = [acked EXCEPT ![r] = NoState]
    /\ ackedSnap' = [ackedSnap EXCEPT ![r] = 0]
    /\ UNCHANGED <<diskEntries, cacheState, cacheSnap, started>>

\* removeNodeData, second half: removeEntriesTo(math.MaxUint64)
RemoveNodeDataEntries(r) ==
    /\ removing[r]
    /\ diskEntries' = [diskEntries EXCEPT ![r] = {}]
    /\ removing' = [removing EXCEPT ![r] = FALSE]
    /\ UNCHANGED <<diskState, diskMax, diskSnaps, diskBootstrap, cache,
                   started, engine>>

\* mutant of RemoveEntriesTo: the range end is one past the cut-off index
RemoveEntriesToOffByOne(r, i) ==
    /\ started[r] /\ ~removing[r] /\ i <= LiveSnap(r)
    /\ diskEntries' = [diskEntries EXCEPT ![r] = {j \in @ : j > i + 1}]
    /\ UNCHANGED <<diskState, diskMax, diskSnaps, diskBootstrap, cache,
                   started, removing, engine>>

\* removeEntriesTo: rangedOp deletes the entries at or below i; the engine
\* compacts up to its live snapshot
RemoveEntriesTo(r, i) ==
    /\ started[r] /\ ~removing[r] /\ i <= LiveSnap(r)
    /\ diskEntries' = [diskEntries EXCEPT ![r] = {j \in @ : j > i}]
    /\ UNCHANGED <<diskState, diskMax, diskSnaps, diskBootstrap, cache,
                   started, removing, engine>>

Next ==
    \/ \E D \in BatchDomains : \E B \in [D -> Update] :
          \/ SaveRaftState(B)
          \/ SaveRaftStateAborts(B)
          \/ \E f \in D, P \in SUBSET D : f \notin P /\ SaveRaftStateListFails(B, P, f)
    \/ \E D \in BatchDomains : \E K \in [D -> Idx] :
          \/ SaveSnapshots(K)
          \/ \E f \in D, P \in SUBSET D : f \notin P /\ SaveSnapshotsListFails(K, P, f)
    \/ \E r \in Replicas :
          \/ GetSnapshot(r)
          \/ SaveBootstrapInfo(r)
          \/ RemoveNodeData(r)
          \/ RemoveNodeDataEntries(r)
          \/ \E i \in Idx : RemoveEntriesTo(r, i)
          \/ \E k \in Idx, s \in States : ImportSnapshot(r, k, s)
    \/ Crash

Spec == Init /\ [][Next]_vars

-----------------------------------------------------------------------------
(* Properties. *)

(***************************************************************************)
(* The log readRaftState reports is on disk: for every replica, the span   *)
(* getRange returns from the live snapshot (firstIndex, entryCount) has a  *)
(* non-negative length (entryCount is a uint64 and would wrap) and every   *)
(* index of it after the snapshot has an Entry record.  It rests on the    *)
(* snapshot guard of the cache, the MaxIndex updates of saveRaftState, the *)
(* fallback of getMaxIndex after a restart and the ranges compaction and   *)
(* removal delete.                                                         *)
(***************************************************************************)
LogReadable ==
    \A r \in Replicas :
        LET rg == getRange(r, LiveSnap(r)) IN
        /\ rg.length >= 0
        /\ \A i \in (LiveSnap(r) + 1)..(rg.first + rg.length - 1) :
              i \in diskEntries[r]

(***************************************************************************)
(* At most one Snapshot record per replica survives (spec section 3): a    *)
(* new snapshot deletes the older records in its batch, and the cache's    *)
(* trySaveSnapshot, reloaded by getSnapshot after a restart, keeps an      *)
(* older snapshot from being written beside a newer one.                   *)
(***************************************************************************)
SingleLiveSnapshot == \A r \in Replicas : Cardinality(diskSnaps[r]) <= 1

(***************************************************************************)
(* A state saveRaftState or importSnapshot reported as saved is the State  *)
(* record on disk, until the replica is removed or a newer state is        *)
(* reported saved (spec section 7: no partial application).               *)
(***************************************************************************)
AckedStateDurable ==
    \A r \in Replicas : acked[r] # NoState => diskState[r] = acked[r]

(***************************************************************************)
(* A snapshot saveSnapshots or saveRaftState reported as saved is on disk, *)
(* or a newer one is, until the replica is removed: the engine compacts    *)
(* the log up to the snapshots it was told are durable.                    *)
(***************************************************************************)
AckedSnapshotDurable == \A r \in Replicas : ackedSnap[r] <= LiveSnap(r)

(***************************************************************************)
(* The MaxIndex record of a live replica never decreases (spec section 3:  *)
(* reset only by node-data removal) across the steps of a loaded replica.  *)
(***************************************************************************)
MaxIndexMonotone ==
    [][\A r \in Replicas :
          (started[r] /\ started'[r] /\ diskMax'[r] # NoSavedLog)
             => OrZero(diskMax'[r]) >= OrZero(diskMax[r])]_vars

-----------------------------------------------------------------------------
(* The abstract log the store implements. *)

\* a replica's log as readRaftState reports it: the live snapshot, and
\* getMaxIndex as the end of the log
AbsLog == INSTANCE ReplicaLog
              WITH snap <- [r \in Replicas |-> LiveSnap(r)],
                   last <- [r \in Replicas |-> OrZero(getMaxIndex(r))]

(***************************************************************************)
(* Every call of the store changes each replica's log as ReplicaLog allows *)
(* it: the live snapshot only moves forward and stays within the log,      *)
(* except when removeNodeData or importSnapshot replace the whole log by a *)
(* snapshot.  It rests on trySaveSnapshot's guard, reloaded by getSnapshot *)
(* after a restart, and on each handler writing MaxIndex with the snapshot.*)
(***************************************************************************)
ReplicaLogRefined == AbsLog!Spec

=============================================================================
