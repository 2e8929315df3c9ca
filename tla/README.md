# A TLA+ verification project for tugboat-logdb

tugboat-logdb is the durable log store of the Tugboat raft library. For every
raft replica (a `(clusterID, nodeID)` pair) it persists the following over the
pebble key-value store:
- the raft state (term, vote, commit);
- the log entries;
- the snapshot records;
- the bootstrap record;
- the index of the last entry (`MaxIndex`).

This directory holds the TLA+ modules that model the store, the TLC
configurations that model-check them, and the TLAPS proofs of the main
invariants.

## 1. The system

| Part | Code | What it does |
|---|---|---|
| LogDB shard (`db`) | `src/unnamed/part_000` lines 1-504 | One pebble instance, with its handlers `saveRaftState`, `saveSnapshots`, `importSnapshot`, `saveBootstrapInfo`, `getSnapshot`, `removeNodeData`, `removeEntriesTo`, `getRange`, `getMaxIndex` and `listSnapshots`. Each writing handler builds one write batch and commits it atomically. The one exception is `removeNodeData`, which makes two separate store calls. |
| Replica cache (`cs`) | `cache.go`, not under `src/`; spec.md 4.3 | Per replica: the last state written, the last snapshot index accepted, and the max index. It suppresses redundant state writes, rejects snapshots that are not newer, and answers `getMaxIndex` without a read. |
| Plain entry manager | `plain.go`, not under `src/`; spec.md 4.4 | `record` stages entries and reports the new max index. `getRange` computes the first index and the length of the stored log. `rangedOp` deletes a range of entries. |
| Batched entry manager | `batched.go`, not under `src/` | An alternative record layout. `openRDB` never selects it (part_000 line 81). |
| Key codec and key pool | `key.go`, not under `src/`; interfaces in part_001 | Builds the big-endian keys that make the flat key space a set of per-replica ordered logs. |
| Sharded dispatch | `sharded.go`, not under `src/`; `NewLogDB` in part_001 | Routes each replica to one of N shards. |
| Directory layout | part_001 lines 83-118 | `NewLogDB` and `checkDirs` validate and expand the directory lists. |
| Configuration | part_000 lines 505-632 | Preset constants, and `MemorySizeMB`. |
| Filesystem shim (`PebbleFS`) | `src/pebble/vfs.go` | Implements pebble's `vfs.FS` over `lni/vfs`. Every method hands the inner call and its error through, except `GetDiskUsage`, which drops the error. `Lock` is the flock that gives one pebble instance a shard's directory. |

### How the parts interact

The raft engine calls the shard for one replica at a time. The shard consults
the cache before it writes, and the cache is updated before the batch is
committed. This is the interaction the model is about.

### The hard behaviours

- **Restarts.** A restart drops the cache. `getMaxIndex` then falls back to the
  `MaxIndex` record, and `getSnapshot` reloads the snapshot guard.
- **Two-step removal.** `removeNodeData` commits its deletions, and only then
  removes the entries, as a second store operation.
- **I/O failures.** `listSnapshots` and `CommitWriteBatch` can fail after the
  cache has already been advanced.
- **Batched calls.** One `saveRaftState` call carries updates for several
  replicas. Its snapshot loop, its entry staging and its single commit interact.

## 2. Modules

### `LogDB.tla`: the shard, its cache and the plain entry manager

The store is abstracted to one variable per record kind, each a function on
replicas:

| Variable | Record kind |
|---|---|
| `diskState` | State |
| `diskMax` | MaxIndex (`NoSavedLog` = absent) |
| `diskSnaps` | the indices of the Snapshot records |
| `diskEntries` | the indices of the Entry records |
| `diskBootstrap` | Bootstrap |

The cache is `cacheState`, `cacheSnap` and `cacheMax`. Three more variables
describe the engine's view:
- `started`: the replica has been loaded by `getSnapshot` since the process
  started;
- `removing`: the first half of `removeNodeData` is committed and the second is
  not;
- `acked`: the state the engine was last told is durable;
- `ackedSnap`: the newest snapshot index the engine was told is durable.
  The engine compacts its log up to it, so it must stay on disk.

Data is abstracted:
- entries are their indices (terms are not modelled);
- states are model values;
- an update (`Update`) carries a state, a snapshot index and an entry range
  `lo..hi`.

Each action is one whole handler. A handler that commits one batch is one
atomic step, because `CommitWriteBatch` is atomic.

| Action | Code |
|---|---|
| `SaveRaftState(B)` | `saveRaftState` 163-188, with the cache calls it makes. Its guard is the engine's contract (`EngineUpdate`) and the absence of the `Panicf` case (`Aborts`). The cache is always advanced. The commit then either succeeds or, when `CommitFails`, fails and leaves the store as it was. |
| `SaveRaftStateListFails(B, P, f)` | `saveSnapshot` failing for update `f`, after the updates in `P`: `return nil` at line 178, with no commit. |
| `SaveRaftStateAborts(B)` | The `plog.Panicf` at line 172, modelled as a crash. |
| `SaveSnapshots(K)`, `SaveSnapshotsListFails(K, P, f)` | `saveSnapshots` 330-347. |
| `GetSnapshot(r)` | `getSnapshot` 349-360, which reloads the cached snapshot index. |
| `ImportSnapshot(r, k, s)` | `importSnapshot` 190-225, run while the replica is not loaded. |
| `SaveBootstrapInfo(r)` | `saveBootstrapInfo` 306-311. |
| `RemoveNodeData(r)`, `RemoveNodeDataEntries(r)` | The two store operations of `removeNodeData` 431-444. A crash may fall between them. |
| `RemoveEntriesTo(r, i)` | `removeEntriesTo` 423-429, compaction up to the live snapshot. |
| `Crash` | A process restart: `openRDB` builds an empty cache. The store survives. |

The reads are operators:
- `LiveSnap`: the newest snapshot that `listSnapshots` returns;
- `getMaxIndex`;
- `getRange`: `db.getRange` together with the entry manager's `getRange`.

### `ReplicaLog.tla`: what the shard promises

The abstract specification. Per replica, a log is a snapshot index `snap`
and the last index `last`. Each step may, per replica:
- `Append`: write entries after the snapshot;
- `Snapshot`: move the snapshot forward, with `last` not below it;
- `Restore`: replace the log by a snapshot with nothing after it (removal,
  import);
- `Keep` it as it is.

`LogDB` defines `AbsLog`, an `INSTANCE ReplicaLog` whose `snap` is `LiveSnap`
and whose `last` is `getMaxIndex` (0 if none). `ReplicaLogRefined ==
AbsLog!Spec` is a property of the core run, and is proved (section 5). It
fails under I/O faults, through the finding at line 185: after a failed
commit, a restart drops the advanced cache, and `last` falls back below the
snapshot the engine wrote earlier.

### `PebbleFS.tla`: the filesystem shim

Owners are the pebble instances (processes) that share a filesystem. The
inner `lni/vfs` filesystem is the environment: each call may fail with the
errno the OS gives, and with `IOFails` also with EIO, after which a write may
or may not have happened.

| Variable | Meaning |
|---|---|
| `dirs`, `files` | the directories and file paths that exist |
| `lockOf` | directory -> the owner of the flock on its LOCK file |
| `closer` | owner -> directory -> the closer `Lock` returned |
| `told` | owner -> path -> what the replies told the owner (present, absent, unknown), a history variable |
| `free`, `usage` | the volume's free space; the last `GetDiskUsage` answer an owner took as a success, with the truth at that time |

There is one action per method of `vfs.go`:
- `GetFreeSpace`, `GetDiskUsage`, `MkdirAll`, `OpenDir`, `Lock`, `Create`,
  `Link`, `Open`, `Stat`, `Remove`, `RemoveAll`, `Rename`, `ReuseForWrite`
  and `List`. Each one's guard and reply come from the inner call, its success
  or its errno.
- `ReuseForWrite` is two inner calls: a rename, then an open. The rename can
  succeed and the open then fail.
- `PathJoin`, `PathDir` and `PathBase` are operators on paths as sequences.

The environment has three actions:
- `Unlock`: closing the closer;
- `Crash`: a process dies, which releases its flocks;
- `FreeSpaceChanges`: another process uses the volume.

A reply is recorded in `told` with `Learn(o, f)`, where `f` is what the reply
says of one path (`Says`) or of two paths (`Says2`). These are plain functions,
not TLC's `:>`/`@@`, so that TLAPS can expand them.

### `LogDBProofs.tla`, `LogDBSnapshotProofs.tla`, `PebbleFSProofs.tla`: the TLAPS proofs

Described in section 5. `MCLogDB` extends `LogDBSnapshotProofs`, so that a run
can check `SInv`, the inductive invariant defined there.

### `MCLogDB.tla` and `MCPebbleFS.tla`: the models for TLC

`MCLogDB` instantiates the model with model-value replicas `r1, r2` and states
`s1, s2`. `MCPebbleFS` uses owners `o1, o2`, directories `d1, d2` and names
`n1, n2`. Symmetry over each of these sets is sound: their members are only
compared for equality.

`MCLogDB` also defines `MCSaveSnapshotsScanFailsSpec`. It is `Spec` with the
`SaveRaftStateListFails` disjunct left out, so listSnapshots fails only inside
`saveSnapshots`. Each of its behaviours is a behaviour of `Spec`. The run
`swallowed_snapshot_scan_error` uses it to show the return at line 338 on its own.

## 3. Runs

| Run | cfg | Bounds | Checks | Result |
|---|---|---|---|---|
| core | `MCLogDB.cfg` | 1 replica, MaxIdx 4, batches of 1, no I/O faults | `TypeOK`, `LogReadable`, `SingleLiveSnapshot`, `IInv`, `ReplicaLogRefined` | passes |
| io_faults | `MCLogDBFaults.cfg` | 1 replica, MaxIdx 3, both kinds of I/O fault | `SingleLiveSnapshot`, `SInv` | passes |
| swallowed_snapshot_error | `MCLogDBSwallowed.cfg` | 2 replicas, batches of 2, failing scans | `AckedStateDurable` | violated: finding at line 178 |
| removal_keeps_cached_state | `MCLogDBRemoval.cfg` | 1 replica | `AckedStateDurable` | violated: finding at line 442 |
| snapshot_lowers_max_index | `MCLogDBMaxIndex.cfg` | 1 replica | `MaxIndexMonotone` | violated: finding at line 180 |
| commit_failure_advances_cache | `MCLogDBCommitFails.cfg` | 1 replica, failing commits | `LogReadable` | violated: finding at line 185 |
| swallowed_snapshot_scan_error | `MCLogDBSnapAck.cfg` | 1 replica, MaxIdx 3, scans fail only inside `saveSnapshots` (`MCSaveSnapshotsScanFailsSpec`) | `AckedSnapshotDurable` | violated: finding at line 338 |
| fs_lock_and_replies | `MCPebbleFS.cfg` | 2 owners, 2 directories, 2 names, free space 0..1, EIO | `TypeOK`, `LockHeldExclusively`, `ToldTrue` | passes |
| disk_usage_error_swallowed | `MCPebbleFSDiskUsage.cfg` | the same | `DiskUsageAccurate` | violated: finding at vfs.go:24 |

Why these bounds are enough:
- **One replica in the passing runs.** Without faults, the replicas of a shard
  never interact. Each handler touches only the records and the cache entry of
  the replicas it is given. `LogReadableHolds` (section 5) proves the same
  property for any number of replicas.
- **Two replicas in `swallowed_snapshot_error`.** The only interaction between
  replicas is that one update's failure drops the other updates of the same
  call.
- **MaxIdx 4.** This is enough for a snapshot, entries on both sides of it,
  compaction, and an overwrite below the max index.
- **Two owners and two directories in `PebbleFS`.** Two owners can race for
  one directory's lock. Two names in a directory are enough for `Rename`,
  `Link` and `ReuseForWrite`, which take two paths. A free space of 0..1
  tells an answer that is stale from one that is current.

All of these are safety properties. No liveness is claimed: the store has no
background activity. Every call is made by the engine, so no fairness
assumption is justified. Deadlock is checked, and it never occurs: `Crash` and
`GetSnapshot` are always enabled.

### Properties

- `LogReadable`: the span `getRange` returns from the live snapshot has a
  non-negative length, and every index in it has an Entry record.
- `SingleLiveSnapshot`: at most one Snapshot record exists per replica.
- `AckedStateDurable`: a state reported as saved is the State record on disk.
- `MaxIndexMonotone` (action property): the MaxIndex record of a loaded replica
  never decreases.
- `IInv`: the inductive invariant of the proof (section 5).
- `ReplicaLogRefined`: `LogDB` implements `ReplicaLog` under `AbsLog`.
- `AckedSnapshotDurable`: a snapshot reported as saved is on disk, or a
  newer one is. The engine compacts its log up to that snapshot.
- `LockHeldExclusively`: the directory lock an instance believes it holds is
  the flock, so no two instances own a shard's store at once.
- `ToldTrue`: what an instance was told about a file of the directory it
  holds is still true. It catches an error that is dropped, or a write by
  another instance.
- `SInv`: the inductive invariant of the `SingleLiveSnapshot` proof
  (section 5), checked under I/O faults.
- `DiskUsageAccurate`: a disk-usage answer given without an error is the
  volume's free space.

Each property of a passing run has a mutant in `PROJECT.json` that TLC must
find violated:
- `NewMaxOffByOne`: a max index one past the last entry. It breaks `TypeOK`;
- `RemoveEntriesToOffByOne`;
- `GetSnapshotNoReload`: `getSnapshot` that does not reload the cache. It
  breaks `SingleLiveSnapshot` and `SInv`;
- `ImportSnapshotWhileLoaded`: an import that runs while the replica is
  loaded. It breaks `IInv`: the cache's snapshot guard goes stale (hazard at
  line 224);
- `ImportSnapshotNoMaxIndex`: an import that does not write MaxIndex. It
  breaks `ReplicaLogRefined`;
- `LockDropsErr`: a `Lock` that returns a nil closer and drops the inner
  error. It breaks `TypeOK` and `LockHeldExclusively`;
- `ReuseForWriteSwapped`: a `ReuseForWrite` that passes its two names to
  the inner call in the wrong order. It renames `b` onto `a`, while the reply
  tells the caller that `a` is gone and `b` exists. It breaks `ToldTrue`.

## 4. Findings

| Line | Kind | What the code does |
|---|---|---|
| part_000:178 | code bug | `saveRaftState` swallows the error of `saveSnapshot`. It returns nil without committing, with the cache already advanced. The engine is told that states were saved which are not on disk. `saveSnapshots` does the same at line 338. |
| part_000:185 | divergence | The cache is advanced before `CommitWriteBatch`. After a failed commit, `getMaxIndex` reports entries that were never written. The spec says a failed update leaves prior state untouched. |
| part_000:442 | divergence | `removeNodeData` resets only the cached max index. A replica re-created in the same process has its first state write suppressed. |
| part_000:338 | code bug | `saveSnapshots` returns nil when `saveSnapshot` fails, with the cache advanced and nothing committed. The engine compacts past a snapshot that is not on disk. A `SaveRaftStateListFails` step with no prefix and no new state has the same effect, and TLC's shortest trace under `Spec` takes it first. So the run uses `MCSaveSnapshotsScanFailsSpec` from `MCLogDB`, where listSnapshots fails only inside `saveSnapshots`. Every behaviour of that spec is a behaviour of `Spec`, and its trace is getSnapshot, a saveRaftState of entry 1, then saveSnapshots of snapshot 1 through this return. |
| vfs.go:24 | code bug | `GetDiskUsage` drops the error of `GetFreeSpace` and reports 0 bytes free with a nil error. |
| part_000:180 | divergence | An accepted snapshot sets MaxIndex to its own index, even when that index is below the persisted max. The spec says MaxIndex only grows until the replica is removed. |

## 5. What is proved

Three modules hold proofs. Every theorem holds for every value of the
constants.
- `LogDBProofs.tla` (EXTENDS `LogDB`, `WellFoundedInduction` and `TLAPS`)
  proves `TypeCorrect`, `IInvHolds`, `LogReadableHolds` and
  `RefinesReplicaLog`.
- `LogDBSnapshotProofs.tla` (EXTENDS `LogDBProofs` and `FiniteSetTheorems`)
  proves `SInvHolds` and `SingleLiveSnapshotHolds`.
- `PebbleFSProofs.tla` (EXTENDS `PebbleFS` and `TLAPS`) proves
  `FSTypeCorrect`, `LockHeldExclusivelyHolds` and `ToldTrueHolds`.

### `TypeCorrect == Spec => []TypeOK`

It rests on three things:
- the step lemma `TypeNext`;
- typing lemmas for the batch operators (`UpdateAfterTypes`, `SnapAfterTypes`);
- `LiveSnapFacts`, which says that `LiveSnap` is the largest snapshot index, or
  0.

`LiveSnapFacts` needs a greatest element of a finite set of naturals. That
comes from `MaxExists`, which reflects the set and applies the library's
`WFMin` with `NatLessThanWellFounded`.

### `LogReadableHolds`

The statement is: when `~ListFails /\ ~CommitFails`, `Spec => []LogReadable`.
`LogReadable` alone is not inductive, so the proof uses the strengthening
`IInv == TypeOK /\ \A r : LogInv(r)`. For every replica, with L the live
snapshot and M the max index (0 if none), `LogInv(r)` requires:

1. L ≤ M, and the entries L+1..M are on disk;
2. a cached max index equals the `MaxIndex` record, so a restart that drops the
   cache does not move M;
3. a loaded replica's cached snapshot index is at least L, so `trySaveSnapshot`
   accepts only a newer snapshot, and the new snapshot replaces the old one;
4. a replica whose removal is half done has M = 0 and no snapshot, so the
   second half may delete every entry.

The proof has three parts:
- `IInvInit`;
- `IInvNext`, with one step per action and a split on whether the step touches
  the replica in question. The per-replica work of the batched handlers is in
  `SaveOne` and `SnapOne`;
- `IInvReadable`, which needs the least element of the entries `getRange` scans
  (`MinExists`).

`IInv` is also checked by the core run.

### `RefinesReplicaLog`

The statement is: when `~ListFails /\ ~CommitFails`,
`Spec => ReplicaLogRefined`. It rests on `IInv`:
- `SnapForward`, with one step per action, shows that per replica the live
  snapshot does not go back, or the step leaves the log with nothing after
  the snapshot.
  - A snapshot written by `saveRaftState` or `saveSnapshots` is one that
    `trySaveSnapshot` accepted. For a loaded replica, `LogInv` puts the cached
    snapshot index at or above the live one, so the new snapshot is newer
    (`AcceptedForward`, `SnapNotBack`).
  - `removeNodeData` leaves snapshot 0 and cached max index 0.
  - `importSnapshot` leaves snapshot k and MaxIndex k, with the cache empty.
- `RefineStep` adds `L <= M` from `LogInv` in the next state, and picks
  Append, Snapshot or Restore.
- The temporal step is `PTL`.

### `IInvHolds == ~ListFails /\ ~CommitFails => (Spec => []IInv)`

The inductive invariant of `LogReadableHolds`, stated as a theorem, so that
the `IInv` the core run checks is proved too.

### Why the `LogDBProofs` theorems assume no I/O faults

The hypotheses `~ListFails` and `~CommitFails` are not stronger than the code
needs. TLC finds each of them necessary:
- **Commit failures alone, one replica.** A snapshot commit fails, the cache
  keeps the new snapshot and max index, and the process restarts.
  `getMaxIndex` then falls back to the disk, which is below what the engine
  last saw. This is not a `ReplicaLog` step.
- **List failures alone, one replica.** `LogReadable`, `IInv` and the
  refinement all hold (checked with MaxIdx 4).
- **List failures alone, two replicas in one batch.** The replicas handled
  before the failing one keep their advanced cache with nothing committed.
  So `LogReadable` fails, and so does the refinement (the finding at line
  178).

### `SInvHolds == Spec => []SInv` and `SingleLiveSnapshotHolds == Spec => []SingleLiveSnapshot`

These theorems need no fault assumption. It holds with failing scans and
failing commits, which `io_faults` checks. The invariant alone is not
inductive. The strengthening is
`SInv == TypeOK /\ \A r : SnapInv(r)`, where `SnapInv(r)` says:
- all of `diskSnaps[r]` are one index;
- a loaded replica's cached snapshot index is at least the live one on disk.

The argument:
- `saveSnapshot` writes a Snapshot record only above the cached index.
  Because of the second conjunct, that is above every record on disk, and
  the write deletes the older record in the same batch (`SnapInvWritten`).
- A failed commit changes neither the disk nor the guard's lower bound. The
  cache only grows (`SnapIndexGrows`).
- Removal, import and restart either reset the records or reload the cache.
- `SInvSingle` turns "all one index" into at most one record
  (`FS_EmptySet`, `FS_Singleton`).

`SInvHolds` states the strengthening itself, which `io_faults` checks.
`SingleLiveSnapshotHolds` follows from it by `SInvSingle`.

### `PebbleFSProofs`: `FSInvHolds`, `FSTypeCorrect`, `LockHeldExclusivelyHolds`, `ToldTrueHolds`

`FSInv == TypeOK /\ LockHeldExclusively /\ ToldTrue` is inductive. The proof
has one lemma per operation.
- `FileStep` is the shape every file operation shares: it touches only
  `files` and `told`, and the paths it changes lie in a directory the caller
  holds.
- `NotMineOther` says that a path of a directory `o` holds is not a path of
  a directory any other owner holds, by `LockHeldExclusively`. So no other
  process's write can falsify what `o` was told.
- `Lock` and `Unlock` forget what the owner knew of the directory.
- `Crash` forgets all that the owner knew.

### What stays with TLC

- the properties of the fault runs other than `SingleLiveSnapshot` and
  `SInv`: `LogReadable`, `IInv` and `ReplicaLogRefined` do not hold under
  faults;
- the findings (they are violations), among them the action property
  `MaxIndexMonotone`;
- `AckedStateDurable` and `AckedSnapshotDurable`, which are violated;
- `DiskUsageAccurate`, which is violated.

Liveness and `ENABLED` are out of the prover's reach. So is induction over
data. No theorem module reaches a RECURSIVE operator.

## 6. What is not modelled, and why

- **Reuse of the write batch stored in `IContext`** (line 104). This needs a
  model of the batch's contents across calls. It is not modelled yet.
- **Entry terms** (line 474). Conflicting overwrites need terms, and terms are
  abstracted away. This is not modelled yet.
- **`MemorySizeMB`** (line 625). It is pure arithmetic on configuration
  fields, with no state. Its uint64 product could wrap only for buffer sizes
  far beyond any real configuration, so it is not listed as a hazard.
- **The key codec, the sharded dispatch and the batched entry layout.** Their
  code is not under `src/`. Only their interfaces are.
- **The directory checks** (`NewLogDB`, `checkDirs`). They are one-shot
  validation, with no state to interleave.
- **The read-only handlers** (`getState`, `getBootstrapInfo`, `listNodeInfo`,
  `iterateEntries`). None of the properties reads them.
- **Liveness.** The store has no background activity, and every step is a
  call of the engine. No fairness is justified, so no liveness is claimed.
