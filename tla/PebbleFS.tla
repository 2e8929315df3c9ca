------------------------------ MODULE PebbleFS ------------------------------
(***************************************************************************)
(* The filesystem shim of src/pebble/vfs.go: PebbleFS implements pebble's  *)
(* vfs.FS over an lni/vfs.FS, and every method but GetDiskUsage hands its  *)
(* call, and the inner call's error, straight through.                     *)
(*                                                                         *)
(* The callers are the pebble instances that open a LogDB shard, one per   *)
(* process (Owners).  Each locks its directory before it touches a file    *)
(* there (spec.md: the storage instance of a shard is exclusively owned),  *)
(* and what it learns from the replies, told, is a history variable: the   *)
(* facts a caller may act on.  The inner filesystem is the environment: a  *)
(* call fails with the errno the OS gives, and with IOFails also with EIO, *)
(* after which a write may or may not have happened.                       *)
(***************************************************************************)
EXTENDS Naturals, Sequences

CONSTANTS
    Owners,    \* the pebble instances (processes) that use the filesystem
    Dirs,      \* the directory names
    Names,     \* the file names inside a directory
    NoOwner,   \* the lock of a directory nobody holds
    MaxFree,   \* the largest free space of a run, in abstract units
    IOFails    \* can an inner call fail with EIO?

ASSUME PebbleFSAssumption ==
    /\ NoOwner \notin Owners
    /\ MaxFree \in Nat
    /\ IOFails \in BOOLEAN

(***************************************************************************)
(* Paths are sequences of components.  PathJoin, PathDir and PathBase      *)
(* delegate to filepath.Join, filepath.Dir and filepath.Base, which on     *)
(* clean components concatenate, drop the last and keep the last.          *)
(***************************************************************************)
PathJoin(elem1, elem2) == elem1 \o elem2
PathDir(path) == SubSeq(path, 1, Len(path) - 1)
PathBase(path) == <<path[Len(path)]>>

DirPath(d) == <<d>>
FilePaths == {PathJoin(DirPath(d), <<n>>) : d \in Dirs, n \in Names}

\* what a caller knows of a path from the replies it got
Knowledge == {"present", "absent", "unknown"}
\* the io.Closer a successful Lock returned ("none": no lock held)
Closers == {"none", "flock"}
NoUsage == [avail |-> 0, actual |-> 0, valid |-> FALSE]

VARIABLES
    dirs,     \* the directories that exist
    files,    \* the paths of the files that exist
    lockOf,   \* directory -> the owner of the flock on its LOCK file
    closer,   \* owner -> directory -> the closer Lock gave it
    told,     \* owner -> path -> what the replies told the owner
    free,     \* the free space of the volume
    usage     \* owner -> the last free space reported as a success, and the truth then

vars == <<dirs, files, lockOf, closer, told, free, usage>>

TypeOK ==
    /\ dirs \subseteq Dirs
    /\ files \subseteq FilePaths
    /\ lockOf \in [Dirs -> Owners \cup {NoOwner}]
    /\ closer \in [Owners -> [Dirs -> Closers]]
    /\ told \in [Owners -> [FilePaths -> Knowledge]]
    /\ free \in 0..MaxFree
    /\ usage \in [Owners -> [avail: 0..MaxFree, actual: 0..MaxFree, valid: BOOLEAN]]

\* the directories an owner believes it has locked
Held(o) == {d \in Dirs : closer[o][d] # "none"}
\* a caller only touches files of a directory it holds (pebble's own dir)
Mine(o, p) == PathDir(p) \in {DirPath(d) : d \in Held(o)}

\* record what a reply told owner o about some paths
\* what a reply says of one path, and of two distinct paths
Says(p, k) == [q \in {p} |-> k]
Says2(a, ka, b, kb) == [q \in {a, b} |-> IF q = a THEN ka ELSE kb]
Learn(o, f) ==
    told' = [told EXCEPT ![o] =
                [p \in FilePaths |-> IF p \in DOMAIN f THEN f[p] ELSE told[o][p]]]
Forget(o, d) ==
    [p \in FilePaths |-> IF PathDir(p) = DirPath(d) THEN "unknown" ELSE told[o][p]]

\* NewPebbleFS: the wrapper over a filesystem the process finds as it is
Init ==
    /\ dirs \in SUBSET Dirs
    /\ files \in SUBSET {p \in FilePaths : PathDir(p) \in {DirPath(d) : d \in dirs}}
    /\ lockOf = [d \in Dirs |-> NoOwner]
    /\ closer = [o \in Owners |-> [d \in Dirs |-> "none"]]
    /\ told = [o \in Owners |-> [p \in FilePaths |-> "unknown"]]
    /\ free \in 0..MaxFree
    /\ usage = [o \in Owners |-> NoUsage]

-----------------------------------------------------------------------------
(* Free space and directories. *)

\* GetFreeSpace: the inner statfs, its error returned
GetFreeSpace(o) ==
    /\ \/ usage' = [usage EXCEPT ![o] = [avail |-> free, actual |-> free, valid |-> TRUE]]
       \/ IOFails /\ UNCHANGED usage
    /\ UNCHANGED <<dirs, files, lockOf, closer, told, free>>

\* GetDiskUsage: the inner statfs, whose error is dropped; a failed statfs
\* returns 0 bytes, which is reported as a success
GetDiskUsage(o) ==
    /\ \/ usage' = [usage EXCEPT ![o] = [avail |-> free, actual |-> free, valid |-> TRUE]]
       \/ IOFails /\ usage' = [usage EXCEPT ![o] = [avail |-> 0, actual |-> free, valid |-> TRUE]]
    /\ UNCHANGED <<dirs, files, lockOf, closer, told, free>>

MkdirAll(o, d) ==
    /\ \/ dirs' = dirs \cup {d}
       \/ IOFails /\ dirs' \in {dirs, dirs \cup {d}}
    /\ UNCHANGED <<files, lockOf, closer, told, free, usage>>

\* OpenDir: a handle to fsync the directory; it changes no state
OpenDir(o, d) ==
    /\ d \in dirs \/ IOFails
    /\ UNCHANGED vars

-----------------------------------------------------------------------------
(* Locking: the inner Lock takes an flock on the directory's LOCK file. *)

\* Lock with the inner error dropped: a refused lock returns a nil closer
LockDropsErr(o, d) ==
    /\ closer[o][d] = "none"
    /\ \/ /\ lockOf[d] = NoOwner /\ d \in dirs
          /\ lockOf' = [lockOf EXCEPT ![d] = o]
          /\ closer' = [closer EXCEPT ![o][d] = "flock"]
       \/ /\ lockOf[d] # NoOwner \/ d \notin dirs
          /\ closer' = [closer EXCEPT ![o][d] = "nil"]
          /\ UNCHANGED lockOf
    /\ told' = [told EXCEPT ![o] = Forget(o, d)]
    /\ UNCHANGED <<dirs, files, free, usage>>

Lock(o, d) ==
    /\ closer[o][d] = "none"
    /\ \/ /\ lockOf[d] = NoOwner /\ d \in dirs
          /\ lockOf' = [lockOf EXCEPT ![d] = o]
          /\ closer' = [closer EXCEPT ![o][d] = "flock"]
          /\ told' = [told EXCEPT ![o] = Forget(o, d)]
       \/ /\ lockOf[d] # NoOwner \/ d \notin dirs \/ IOFails
          /\ UNCHANGED <<lockOf, closer, told>>
    /\ UNCHANGED <<dirs, files, free, usage>>

\* environment: Close on the closer Lock returned releases the flock
Unlock(o, d) ==
    /\ closer[o][d] = "flock"
    /\ lockOf' = [lockOf EXCEPT ![d] = NoOwner]
    /\ closer' = [closer EXCEPT ![o][d] = "none"]
    /\ told' = [told EXCEPT ![o] = Forget(o, d)]
    /\ UNCHANGED <<dirs, files, free, usage>>

\* environment: the process of o exits; the kernel releases its flocks
Crash(o) ==
    /\ lockOf' = [d \in Dirs |-> IF lockOf[d] = o THEN NoOwner ELSE lockOf[d]]
    /\ closer' = [closer EXCEPT ![o] = [d \in Dirs |-> "none"]]
    /\ told' = [told EXCEPT ![o] = [p \in FilePaths |-> "unknown"]]
    /\ usage' = [usage EXCEPT ![o] = NoUsage]
    /\ UNCHANGED <<dirs, files, free>>

\* environment: other processes use or release space on the volume
FreeSpaceChanges ==
    /\ free' \in (0..MaxFree) \ {free}
    /\ UNCHANGED <<dirs, files, lockOf, closer, told, usage>>

-----------------------------------------------------------------------------
(***************************************************************************)
(* File operations, each called by an owner on paths of a directory it     *)
(* holds.  The reply decides what the caller learns: a success or ENOENT   *)
(* tells it the outcome, EIO that it cannot know whether a write happened. *)
(***************************************************************************)

\* the state after renaming a to b (rename(2) replaces b)
Renamed(a, b) == (files \ {a}) \cup {b}

Create(o, p) ==
    /\ Mine(o, p)
    /\ \/ files' = files \cup {p} /\ Learn(o, Says(p, "present"))
       \/ IOFails /\ files' \in {files, files \cup {p}} /\ Learn(o, Says(p, "unknown"))
    /\ UNCHANGED <<dirs, lockOf, closer, free, usage>>

Link(o, a, b) ==
    /\ Mine(o, a) /\ Mine(o, b) /\ a # b
    /\ \/ a \in files /\ b \notin files
          /\ files' = files \cup {b} /\ Learn(o, Says2(a, "present", b, "present"))
       \/ a \notin files /\ UNCHANGED files /\ Learn(o, Says(a, "absent"))
       \/ a \in files /\ b \in files /\ UNCHANGED files /\ Learn(o, Says(b, "present"))
       \/ IOFails /\ a \in files /\ b \notin files
          /\ files' \in {files, files \cup {b}} /\ Learn(o, Says(b, "unknown"))
    /\ UNCHANGED <<dirs, lockOf, closer, free, usage>>

\* Open for reading: the inner Open, then each option applied to the file;
\* options tune reads and change nothing the model keeps
Open(o, p) ==
    /\ Mine(o, p)
    /\ \/ p \in files /\ Learn(o, Says(p, "present"))
       \/ p \notin files /\ Learn(o, Says(p, "absent"))
       \/ IOFails /\ UNCHANGED told
    /\ UNCHANGED <<dirs, files, lockOf, closer, free, usage>>

Stat(o, p) ==
    /\ Mine(o, p)
    /\ \/ p \in files /\ Learn(o, Says(p, "present"))
       \/ p \notin files /\ Learn(o, Says(p, "absent"))
       \/ IOFails /\ UNCHANGED told
    /\ UNCHANGED <<dirs, files, lockOf, closer, free, usage>>

Remove(o, p) ==
    /\ Mine(o, p)
    /\ \/ files' = files \ {p} /\ Learn(o, Says(p, "absent"))
       \/ IOFails /\ files' \in {files, files \ {p}} /\ Learn(o, Says(p, "unknown"))
    /\ UNCHANGED <<dirs, lockOf, closer, free, usage>>

\* RemoveAll succeeds on a missing path too; it fails only with EIO
RemoveAll(o, p) ==
    /\ Mine(o, p)
    /\ \/ files' = files \ {p} /\ Learn(o, Says(p, "absent"))
       \/ IOFails /\ files' \in {files, files \ {p}} /\ Learn(o, Says(p, "unknown"))
    /\ UNCHANGED <<dirs, lockOf, closer, free, usage>>

Rename(o, a, b) ==
    /\ Mine(o, a) /\ Mine(o, b) /\ a # b
    /\ \/ a \in files /\ files' = Renamed(a, b)
          /\ Learn(o, Says2(a, "absent", b, "present"))
       \/ a \notin files /\ UNCHANGED files /\ Learn(o, Says(a, "absent"))
       \/ IOFails /\ a \in files /\ files' \in {files, Renamed(a, b)}
          /\ Learn(o, Says2(a, "unknown", b, "unknown"))
    /\ UNCHANGED <<dirs, lockOf, closer, free, usage>>

\* ReuseForWrite with its two names swapped
ReuseForWriteSwapped(o, a, b) ==
    /\ Mine(o, a) /\ Mine(o, b) /\ a # b
    /\ \/ b \in files /\ files' = Renamed(b, a)
          /\ Learn(o, Says2(a, "absent", b, "present"))
       \/ b \notin files /\ UNCHANGED files /\ Learn(o, Says(a, "absent"))
       \/ IOFails /\ b \in files /\ files' = Renamed(b, a)
          /\ Learn(o, Says2(a, "unknown", b, "unknown"))
       \/ IOFails /\ UNCHANGED files /\ Learn(o, Says2(a, "unknown", b, "unknown"))
    /\ UNCHANGED <<dirs, lockOf, closer, free, usage>>

\* ReuseForWrite: the inner call renames a to b and then opens b for
\* writing; the open can fail after the rename is done
ReuseForWrite(o, a, b) ==
    /\ Mine(o, a) /\ Mine(o, b) /\ a # b
    /\ \/ a \in files /\ files' = Renamed(a, b)
          /\ Learn(o, Says2(a, "absent", b, "present"))
       \/ a \notin files /\ UNCHANGED files /\ Learn(o, Says(a, "absent"))
       \/ IOFails /\ a \in files /\ files' = Renamed(a, b)
          /\ Learn(o, Says2(a, "unknown", b, "unknown"))
       \/ IOFails /\ UNCHANGED files /\ Learn(o, Says2(a, "unknown", b, "unknown"))
    /\ UNCHANGED <<dirs, lockOf, closer, free, usage>>

\* List: the names in the directory, the whole of it learnt at once
List(o, d) ==
    /\ d \in Held(o)
    /\ \/ Learn(o, [p \in {q \in FilePaths : PathDir(q) = DirPath(d)} |->
                      IF p \in files THEN "present" ELSE "absent"])
       \/ IOFails /\ UNCHANGED told
    /\ UNCHANGED <<dirs, files, lockOf, closer, free, usage>>

-----------------------------------------------------------------------------
Next ==
    \/ \E o \in Owners :
          \/ GetFreeSpace(o) \/ GetDiskUsage(o) \/ Crash(o)
          \/ \E d \in Dirs : MkdirAll(o, d) \/ OpenDir(o, d) \/ Lock(o, d)
                             \/ Unlock(o, d) \/ List(o, d)
          \/ \E p \in FilePaths : Create(o, p) \/ Open(o, p) \/ Stat(o, p)
                                  \/ Remove(o, p) \/ RemoveAll(o, p)
          \/ \E a, b \in FilePaths : Link(o, a, b) \/ Rename(o, a, b)
                                     \/ ReuseForWrite(o, a, b)
    \/ FreeSpaceChanges

Spec == Init /\ [][Next]_vars

-----------------------------------------------------------------------------
(* Properties. *)

(***************************************************************************)
(* The lock a pebble instance believes it holds is the flock on the        *)
(* directory, so no two instances own a shard's store at once.  It rests   *)
(* on Lock returning the inner error when another process holds the flock. *)
(***************************************************************************)
LockHeldExclusively ==
    \A o \in Owners : \A d \in Held(o) : lockOf[d] = o

(***************************************************************************)
(* What an instance was told about a file of the directory it holds is     *)
(* still true: no other instance wrote there, and every failed call,       *)
(* ReuseForWrite's open after its rename included, came back as an error.  *)
(***************************************************************************)
ToldTrue ==
    \A o \in Owners : \A p \in FilePaths :
        Mine(o, p) =>
            /\ told[o][p] = "present" => p \in files
            /\ told[o][p] = "absent" => p \notin files

(***************************************************************************)
(* GetDiskUsage reports, when it reports no error, the free space the      *)
(* volume had (spec.md: StorageIO errors are propagated, none swallowed).  *)
(***************************************************************************)
DiskUsageAccurate ==
    \A o \in Owners : usage[o].valid => usage[o].avail = usage[o].actual
=============================================================================
