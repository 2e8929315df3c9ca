--------------------------- MODULE PebbleFSProofs ---------------------------
(***************************************************************************)
(* Proofs about the filesystem shim of src/pebble/vfs.go, for any number   *)
(* of processes, directories and file names: the flock Lock returns gives  *)
(* one process a directory, and what a process was told about a file of    *)
(* the directory it holds stays true, EIO replies and the two inner calls  *)
(* of ReuseForWrite included.                                              *)
(***************************************************************************)
EXTENDS PebbleFS, TLAPS

\* the inductive invariant: the three invariants the run checks are inductive
\* together; LockHeldExclusively is what keeps other processes' writes out of
\* the files ToldTrue speaks of
FSInv == TypeOK /\ LockHeldExclusively /\ ToldTrue

-----------------------------------------------------------------------------
(* The replies a caller learns from. *)

LEMMA SaysFacts ==
    ASSUME NEW p, NEW k
    PROVE  /\ Says(p, k) \in [{p} -> {k}]
           /\ Says(p, k)[p] = k
    BY DEF Says

\* two processes never both hold the directory of a path
LEMMA NotMineOther ==
    ASSUME LockHeldExclusively, NEW o \in Owners, NEW o2 \in Owners, o # o2,
           NEW p, Mine(o2, p)
    PROVE  ~Mine(o, p)
<1>1. PICK d2 \in Held(o2) : PathDir(p) = DirPath(d2)
    BY DEF Mine
<1>2. SUFFICES ASSUME Mine(o, p) PROVE FALSE
    OBVIOUS
<1>3. PICK d \in Held(o) : PathDir(p) = DirPath(d)
    BY <1>2 DEF Mine
<1>4. d = d2
    BY <1>1, <1>3 DEF DirPath
<1>5. lockOf[d] = o /\ lockOf[d2] = o2
    BY DEF LockHeldExclusively
<1>. QED
    BY <1>4, <1>5

(***************************************************************************)
(* One step of a file operation of o2 on the paths S of directories it     *)
(* holds: it learns f about S, what f says is the outcome, and no other    *)
(* path changes.  Every file operation of vfs.go is an instance.          *)
(***************************************************************************)
LEMMA FileStep ==
    ASSUME FSInv, NEW o2 \in Owners, NEW S \in SUBSET FilePaths,
           NEW f \in [S -> Knowledge],
           \A q \in S : Mine(o2, q),
           Learn(o2, f),
           files' \subseteq FilePaths,
           \A q \in FilePaths \ S : q \in files' <=> q \in files,
           \A q \in S : /\ f[q] = "present" => q \in files'
                        /\ f[q] = "absent" => q \notin files',
           UNCHANGED <<dirs, lockOf, closer, free, usage>>
    PROVE  FSInv'
<1>1. TypeOK'
    BY DEF FSInv, TypeOK, Learn
<1>2. LockHeldExclusively'
    BY DEF FSInv, LockHeldExclusively, Held
<1>3. ToldTrue'
    <2> SUFFICES ASSUME NEW o \in Owners, NEW p \in FilePaths, Mine(o, p)'
                 PROVE  /\ told'[o][p] = "present" => p \in files'
                        /\ told'[o][p] = "absent" => p \notin files'
        BY DEF ToldTrue
    <2>1. Mine(o, p)
        BY DEF Mine, Held
    <2>2. CASE o = o2 /\ p \in S
        <3>1. told'[o][p] = f[p]
            BY <2>2 DEF Learn, FSInv, TypeOK
        <3>. QED
            BY <2>2, <3>1
    <2>3. CASE o = o2 /\ p \notin S
        <3>1. told'[o][p] = told[o][p]
            BY <2>3 DEF Learn, FSInv, TypeOK
        <3>. QED
            BY <2>1, <2>3, <3>1 DEF FSInv, ToldTrue
    <2>4. CASE o # o2
        <3>1. told'[o] = told[o]
            BY <2>4 DEF Learn, FSInv, TypeOK
        <3>2. p \notin S
            BY <2>1, <2>4, NotMineOther DEF FSInv
        <3>. QED
            BY <2>1, <3>1, <3>2 DEF FSInv, ToldTrue
    <2>. QED
        BY <2>2, <2>3, <2>4
<1>. QED
    BY <1>1, <1>2, <1>3 DEF FSInv

\* Create: the file exists, or with EIO may exist, and the caller learns so
LEMMA CreateStep ==
    ASSUME FSInv, NEW o \in Owners, NEW p \in FilePaths, Create(o, p)
    PROVE  FSInv'
<1>1. files \subseteq FilePaths /\ Mine(o, p)
    BY DEF FSInv, TypeOK, Create
<1>2. CASE files' = files \cup {p} /\ Learn(o, Says(p, "present"))
    <2>1. Says(p, "present") \in [{p} -> Knowledge] /\ Says(p, "present")[p] = "present"
        BY SaysFacts DEF Knowledge
    <2>. QED
        BY <1>1, <1>2, <2>1, FileStep DEF Create
<1>3. CASE files' \in {files, files \cup {p}} /\ Learn(o, Says(p, "unknown"))
    <2>1. Says(p, "unknown") \in [{p} -> Knowledge] /\ Says(p, "unknown")[p] = "unknown"
        BY SaysFacts DEF Knowledge
    <2>. QED
        BY <1>1, <1>3, <2>1, FileStep DEF Create
<1>. QED
    BY <1>2, <1>3 DEF Create

\* Open: the caller learns whether the file exists, or nothing on EIO
LEMMA OpenStep ==
    ASSUME FSInv, NEW o \in Owners, NEW p \in FilePaths, Open(o, p)
    PROVE  FSInv'
<1>1. files \subseteq FilePaths /\ Mine(o, p)
    BY DEF FSInv, TypeOK, Open
<1>2. CASE p \in files /\ Learn(o, Says(p, "present"))
    <2>1. Says(p, "present") \in [{p} -> Knowledge] /\ Says(p, "present")[p] = "present"
        BY SaysFacts DEF Knowledge
    <2>. QED
        BY <1>1, <1>2, <2>1, FileStep DEF Open
<1>3. CASE p \notin files /\ Learn(o, Says(p, "absent"))
    <2>1. Says(p, "absent") \in [{p} -> Knowledge] /\ Says(p, "absent")[p] = "absent"
        BY SaysFacts DEF Knowledge
    <2>. QED
        BY <1>1, <1>3, <2>1, FileStep DEF Open
<1>4. CASE UNCHANGED told
    BY <1>4 DEF Open, FSInv, TypeOK, LockHeldExclusively, ToldTrue, Held, Mine
<1>. QED
    BY <1>2, <1>3, <1>4 DEF Open

\* Stat: as Open
LEMMA StatStep ==
    ASSUME FSInv, NEW o \in Owners, NEW p \in FilePaths, Stat(o, p)
    PROVE  FSInv'
<1>1. files \subseteq FilePaths /\ Mine(o, p)
    BY DEF FSInv, TypeOK, Stat
<1>2. CASE p \in files /\ Learn(o, Says(p, "present"))
    <2>1. Says(p, "present") \in [{p} -> Knowledge] /\ Says(p, "present")[p] = "present"
        BY SaysFacts DEF Knowledge
    <2>. QED
        BY <1>1, <1>2, <2>1, FileStep DEF Stat
<1>3. CASE p \notin files /\ Learn(o, Says(p, "absent"))
    <2>1. Says(p, "absent") \in [{p} -> Knowledge] /\ Says(p, "absent")[p] = "absent"
        BY SaysFacts DEF Knowledge
    <2>. QED
        BY <1>1, <1>3, <2>1, FileStep DEF Stat
<1>4. CASE UNCHANGED told
    BY <1>4 DEF Stat, FSInv, TypeOK, LockHeldExclusively, ToldTrue, Held, Mine
<1>. QED
    BY <1>2, <1>3, <1>4 DEF Stat

\* Remove: the file is gone, or with EIO may be gone
LEMMA RemoveStep ==
    ASSUME FSInv, NEW o \in Owners, NEW p \in FilePaths, Remove(o, p)
    PROVE  FSInv'
<1>1. files \subseteq FilePaths /\ Mine(o, p)
    BY DEF FSInv, TypeOK, Remove
<1>2. CASE files' = files \ {p} /\ Learn(o, Says(p, "absent"))
    <2>1. Says(p, "absent") \in [{p} -> Knowledge] /\ Says(p, "absent")[p] = "absent"
        BY SaysFacts DEF Knowledge
    <2>. QED
        BY <1>1, <1>2, <2>1, FileStep DEF Remove
<1>3. CASE files' \in {files, files \ {p}} /\ Learn(o, Says(p, "unknown"))
    <2>1. Says(p, "unknown") \in [{p} -> Knowledge] /\ Says(p, "unknown")[p] = "unknown"
        BY SaysFacts DEF Knowledge
    <2>. QED
        BY <1>1, <1>3, <2>1, FileStep DEF Remove
<1>. QED
    BY <1>2, <1>3 DEF Remove

\* RemoveAll: as Remove
LEMMA RemoveAllStep ==
    ASSUME FSInv, NEW o \in Owners, NEW p \in FilePaths, RemoveAll(o, p)
    PROVE  FSInv'
<1>1. files \subseteq FilePaths /\ Mine(o, p)
    BY DEF FSInv, TypeOK, RemoveAll
<1>2. CASE files' = files \ {p} /\ Learn(o, Says(p, "absent"))
    <2>1. Says(p, "absent") \in [{p} -> Knowledge] /\ Says(p, "absent")[p] = "absent"
        BY SaysFacts DEF Knowledge
    <2>. QED
        BY <1>1, <1>2, <2>1, FileStep DEF RemoveAll
<1>3. CASE files' \in {files, files \ {p}} /\ Learn(o, Says(p, "unknown"))
    <2>1. Says(p, "unknown") \in [{p} -> Knowledge] /\ Says(p, "unknown")[p] = "unknown"
        BY SaysFacts DEF Knowledge
    <2>. QED
        BY <1>1, <1>3, <2>1, FileStep DEF RemoveAll
<1>. QED
    BY <1>2, <1>3 DEF RemoveAll

\* Link: b is a new name of a, or the reply says why not
LEMMA LinkStep ==
    ASSUME FSInv, NEW o \in Owners, NEW a \in FilePaths, NEW b \in FilePaths,
           Link(o, a, b)
    PROVE  FSInv'
<1>1. files \subseteq FilePaths /\ Mine(o, a) /\ Mine(o, b) /\ a # b
    BY DEF FSInv, TypeOK, Link
<1>2. CASE a \in files /\ b \notin files /\ files' = files \cup {b} /\ Learn(o, Says2(a, "present", b, "present"))
    <2>1. Says2(a, "present", b, "present") \in [{a, b} -> Knowledge]
          /\ Says2(a, "present", b, "present")[a] = "present" /\ Says2(a, "present", b, "present")[b] = "present"
        BY <1>1 DEF Says2, Knowledge
    <2>. QED
        BY <1>1, <1>2, <2>1, FileStep DEF Link, Renamed
<1>3. CASE a \notin files /\ UNCHANGED files /\ Learn(o, Says(a, "absent"))
    <2>1. Says(a, "absent") \in [{a} -> Knowledge] /\ Says(a, "absent")[a] = "absent"
        BY SaysFacts DEF Knowledge
    <2>. QED
        BY <1>1, <1>3, <2>1, FileStep DEF Link, Renamed
<1>4. CASE a \in files /\ b \in files /\ UNCHANGED files /\ Learn(o, Says(b, "present"))
    <2>1. Says(b, "present") \in [{b} -> Knowledge] /\ Says(b, "present")[b] = "present"
        BY SaysFacts DEF Knowledge
    <2>. QED
        BY <1>1, <1>4, <2>1, FileStep DEF Link, Renamed
<1>5. CASE files' \in {files, files \cup {b}} /\ Learn(o, Says(b, "unknown"))
    <2>1. Says(b, "unknown") \in [{b} -> Knowledge] /\ Says(b, "unknown")[b] = "unknown"
        BY SaysFacts DEF Knowledge
    <2>. QED
        BY <1>1, <1>5, <2>1, FileStep DEF Link, Renamed
<1>. QED
    BY <1>2, <1>3, <1>4, <1>5 DEF Link

\* Rename: a is moved over b, or with EIO may be
LEMMA RenameStep ==
    ASSUME FSInv, NEW o \in Owners, NEW a \in FilePaths, NEW b \in FilePaths,
           Rename(o, a, b)
    PROVE  FSInv'
<1>1. files \subseteq FilePaths /\ Mine(o, a) /\ Mine(o, b) /\ a # b
    BY DEF FSInv, TypeOK, Rename
<1>2. CASE a \in files /\ files' = Renamed(a, b) /\ Learn(o, Says2(a, "absent", b, "present"))
    <2>1. Says2(a, "absent", b, "present") \in [{a, b} -> Knowledge]
          /\ Says2(a, "absent", b, "present")[a] = "absent" /\ Says2(a, "absent", b, "present")[b] = "present"
        BY <1>1 DEF Says2, Knowledge
    <2>. QED
        BY <1>1, <1>2, <2>1, FileStep DEF Rename, Renamed
<1>3. CASE a \notin files /\ UNCHANGED files /\ Learn(o, Says(a, "absent"))
    <2>1. Says(a, "absent") \in [{a} -> Knowledge] /\ Says(a, "absent")[a] = "absent"
        BY SaysFacts DEF Knowledge
    <2>. QED
        BY <1>1, <1>3, <2>1, FileStep DEF Rename, Renamed
<1>4. CASE files' \in {files, Renamed(a, b)} /\ Learn(o, Says2(a, "unknown", b, "unknown"))
    <2>1. Says2(a, "unknown", b, "unknown") \in [{a, b} -> Knowledge]
          /\ Says2(a, "unknown", b, "unknown")[a] = "unknown" /\ Says2(a, "unknown", b, "unknown")[b] = "unknown"
        BY <1>1 DEF Says2, Knowledge
    <2>. QED
        BY <1>1, <1>4, <2>1, FileStep DEF Rename, Renamed
<1>. QED
    BY <1>2, <1>3, <1>4 DEF Rename

\* ReuseForWrite: the rename and the open; a failed open after the rename tells the caller nothing
LEMMA ReuseForWriteStep ==
    ASSUME FSInv, NEW o \in Owners, NEW a \in FilePaths, NEW b \in FilePaths,
           ReuseForWrite(o, a, b)
    PROVE  FSInv'
<1>1. files \subseteq FilePaths /\ Mine(o, a) /\ Mine(o, b) /\ a # b
    BY DEF FSInv, TypeOK, ReuseForWrite
<1>2. CASE a \in files /\ files' = Renamed(a, b) /\ Learn(o, Says2(a, "absent", b, "present"))
    <2>1. Says2(a, "absent", b, "present") \in [{a, b} -> Knowledge]
          /\ Says2(a, "absent", b, "present")[a] = "absent" /\ Says2(a, "absent", b, "present")[b] = "present"
        BY <1>1 DEF Says2, Knowledge
    <2>. QED
        BY <1>1, <1>2, <2>1, FileStep DEF ReuseForWrite, Renamed
<1>3. CASE a \notin files /\ UNCHANGED files /\ Learn(o, Says(a, "absent"))
    <2>1. Says(a, "absent") \in [{a} -> Knowledge] /\ Says(a, "absent")[a] = "absent"
        BY SaysFacts DEF Knowledge
    <2>. QED
        BY <1>1, <1>3, <2>1, FileStep DEF ReuseForWrite, Renamed
<1>4. CASE files' = Renamed(a, b) /\ Learn(o, Says2(a, "unknown", b, "unknown"))
    <2>1. Says2(a, "unknown", b, "unknown") \in [{a, b} -> Knowledge]
          /\ Says2(a, "unknown", b, "unknown")[a] = "unknown" /\ Says2(a, "unknown", b, "unknown")[b] = "unknown"
        BY <1>1 DEF Says2, Knowledge
    <2>. QED
        BY <1>1, <1>4, <2>1, FileStep DEF ReuseForWrite, Renamed
<1>5. CASE UNCHANGED files /\ Learn(o, Says2(a, "unknown", b, "unknown"))
    <2>1. Says2(a, "unknown", b, "unknown") \in [{a, b} -> Knowledge]
          /\ Says2(a, "unknown", b, "unknown")[a] = "unknown" /\ Says2(a, "unknown", b, "unknown")[b] = "unknown"
        BY <1>1 DEF Says2, Knowledge
    <2>. QED
        BY <1>1, <1>5, <2>1, FileStep DEF ReuseForWrite, Renamed
<1>. QED
    BY <1>2, <1>3, <1>4, <1>5 DEF ReuseForWrite

\* List: the caller learns the whole directory it holds
LEMMA ListStep ==
    ASSUME FSInv, NEW o \in Owners, NEW d \in Dirs, List(o, d)
    PROVE  FSInv'
<1> DEFINE S == {q \in FilePaths : PathDir(q) = DirPath(d)}
           f == [q \in S |-> IF q \in files THEN "present" ELSE "absent"]
<1>1. files \subseteq FilePaths /\ \A q \in S : Mine(o, q)
    BY DEF FSInv, TypeOK, List, Mine
<1>2. f \in [S -> Knowledge]
    BY DEF Knowledge
<1>3. CASE Learn(o, f)
    BY <1>1, <1>2, <1>3, FileStep DEF List
<1>4. CASE UNCHANGED told
    BY <1>4 DEF List, FSInv, TypeOK, LockHeldExclusively, ToldTrue, Held, Mine
<1>. QED
    BY <1>3, <1>4 DEF List

\* Forget keeps told a map of paths to knowledge
LEMMA ForgetType ==
    ASSUME TypeOK, NEW o \in Owners, NEW d
    PROVE  Forget(o, d) \in [FilePaths -> Knowledge]
    BY DEF TypeOK, Forget, Knowledge

\* Lock: the flock is taken only when nobody holds it, and the caller
\* forgets what it knew of the directory
LEMMA LockStep ==
    ASSUME FSInv, NEW o \in Owners, NEW d \in Dirs, Lock(o, d)
    PROVE  FSInv'
<1>1. CASE /\ lockOf[d] = NoOwner /\ d \in dirs
           /\ lockOf' = [lockOf EXCEPT ![d] = o]
           /\ closer' = [closer EXCEPT ![o][d] = "flock"]
           /\ told' = [told EXCEPT ![o] = Forget(o, d)]
    <2>1. TypeOK'
        BY <1>1, ForgetType DEF Lock, FSInv, TypeOK, Closers
    <2>2. LockHeldExclusively'
        <3> SUFFICES ASSUME NEW o2 \in Owners, NEW d2 \in Held(o2)'
                     PROVE  lockOf'[d2] = o2
            BY DEF LockHeldExclusively
        <3>1. CASE d2 = d /\ o2 = o
            BY <1>1, <3>1 DEF FSInv, TypeOK
        <3>2. CASE d2 = d /\ o2 # o
            <4>1. d \in Held(o2)
                BY <1>1, <3>2 DEF Held, FSInv, TypeOK
            <4>. QED
                BY <1>1, <4>1, PebbleFSAssumption DEF FSInv, LockHeldExclusively
        <3>3. CASE d2 # d
            BY <1>1, <3>3 DEF Held, FSInv, TypeOK, LockHeldExclusively
        <3>. QED
            BY <3>1, <3>2, <3>3
    <2>3. ToldTrue'
        <3> SUFFICES ASSUME NEW o2 \in Owners, NEW p \in FilePaths, Mine(o2, p)'
                     PROVE  /\ told'[o2][p] = "present" => p \in files'
                            /\ told'[o2][p] = "absent" => p \notin files'
            BY DEF ToldTrue
        <3>1. CASE o2 = o /\ PathDir(p) = DirPath(d)
            BY <1>1, <3>1 DEF Forget, FSInv, TypeOK
        <3>2. CASE ~(o2 = o /\ PathDir(p) = DirPath(d))
            <4>1. Mine(o2, p)
                BY <1>1, <3>2 DEF Mine, Held, FSInv, TypeOK
            <4>2. told'[o2][p] = told[o2][p]
                BY <1>1, <3>2 DEF Forget, FSInv, TypeOK
            <4>. QED
                BY <4>1, <4>2 DEF Lock, FSInv, ToldTrue
        <3>. QED
            BY <3>1, <3>2
    <2>. QED
        BY <2>1, <2>2, <2>3 DEF FSInv
<1>2. CASE UNCHANGED <<lockOf, closer, told>>
    BY <1>2 DEF Lock, FSInv, TypeOK, LockHeldExclusively, ToldTrue, Held, Mine
<1>. QED
    BY <1>1, <1>2 DEF Lock

\* Unlock: the caller gives up the directory and what it knew of it
LEMMA UnlockStep ==
    ASSUME FSInv, NEW o \in Owners, NEW d \in Dirs, Unlock(o, d)
    PROVE  FSInv'
<1>1. lockOf[d] = o
    BY DEF Unlock, FSInv, LockHeldExclusively, Held
<1>2. TypeOK'
    BY ForgetType, PebbleFSAssumption DEF Unlock, FSInv, TypeOK, Closers
<1>3. LockHeldExclusively'
    <2> SUFFICES ASSUME NEW o2 \in Owners, NEW d2 \in Held(o2)'
                 PROVE  lockOf'[d2] = o2
        BY DEF LockHeldExclusively
    <2>1. d2 \in Held(o2) /\ ~(o2 = o /\ d2 = d)
        BY DEF Unlock, Held, FSInv, TypeOK
    <2>2. d2 # d
        BY <1>1, <2>1 DEF FSInv, LockHeldExclusively
    <2>. QED
        BY <2>1, <2>2 DEF Unlock, FSInv, TypeOK, LockHeldExclusively
<1>4. ToldTrue'
    <2> SUFFICES ASSUME NEW o2 \in Owners, NEW p \in FilePaths, Mine(o2, p)'
                 PROVE  /\ told'[o2][p] = "present" => p \in files'
                        /\ told'[o2][p] = "absent" => p \notin files'
        BY DEF ToldTrue
    <2>1. Mine(o2, p)
        BY DEF Unlock, Mine, Held, FSInv, TypeOK
    <2>2. told'[o2][p] = told[o2][p] \/ told'[o2][p] = "unknown"
        BY DEF Unlock, Forget, FSInv, TypeOK
    <2>. QED
        BY <2>1, <2>2 DEF Unlock, FSInv, ToldTrue
<1>. QED
    BY <1>2, <1>3, <1>4 DEF FSInv

\* Crash: the kernel drops the process's flocks along with all it knew
LEMMA CrashStep ==
    ASSUME FSInv, NEW o \in Owners, Crash(o)
    PROVE  FSInv'
<1>1. TypeOK'
    BY PebbleFSAssumption DEF Crash, FSInv, TypeOK, Closers, NoUsage, Knowledge
<1>2. LockHeldExclusively'
    <2> SUFFICES ASSUME NEW o2 \in Owners, NEW d2 \in Held(o2)'
                 PROVE  lockOf'[d2] = o2
        BY DEF LockHeldExclusively
    <2>1. o2 # o /\ d2 \in Held(o2)
        BY DEF Crash, Held, FSInv, TypeOK
    <2>2. d2 \in Dirs /\ lockOf[d2] = o2
        BY <2>1 DEF Held, FSInv, LockHeldExclusively
    <2>. QED
        BY <2>1, <2>2 DEF Crash
<1>3. ToldTrue'
    <2> SUFFICES ASSUME NEW o2 \in Owners, NEW p \in FilePaths, Mine(o2, p)'
                 PROVE  /\ told'[o2][p] = "present" => p \in files'
                        /\ told'[o2][p] = "absent" => p \notin files'
        BY DEF ToldTrue
    <2>1. o2 # o /\ Mine(o2, p)
        BY DEF Crash, Mine, Held, FSInv, TypeOK
    <2>. QED
        BY <2>1 DEF Crash, FSInv, TypeOK, ToldTrue
<1>. QED
    BY <1>1, <1>2, <1>3 DEF FSInv

\* the calls that change neither locks, nor files, nor what callers know
LEMMA QuietStep ==
    ASSUME FSInv,
           \/ \E o \in Owners : GetFreeSpace(o) \/ GetDiskUsage(o)
           \/ \E o \in Owners, d \in Dirs : MkdirAll(o, d) \/ OpenDir(o, d)
           \/ FreeSpaceChanges
    PROVE  FSInv'
<1>1. TypeOK'
    <2>1. CASE \E o \in Owners : GetFreeSpace(o) \/ GetDiskUsage(o)
        <3>1. PICK o \in Owners : GetFreeSpace(o) \/ GetDiskUsage(o)
            BY <2>1
        <3>2. free \in 0..MaxFree /\ 0 \in 0..MaxFree
            BY PebbleFSAssumption DEF FSInv, TypeOK
        <3>3. /\ [avail |-> free, actual |-> free, valid |-> TRUE]
                 \in [avail: 0..MaxFree, actual: 0..MaxFree, valid: BOOLEAN]
              /\ [avail |-> 0, actual |-> free, valid |-> TRUE]
                 \in [avail: 0..MaxFree, actual: 0..MaxFree, valid: BOOLEAN]
            BY <3>2
        <3>4. usage' \in [Owners -> [avail: 0..MaxFree, actual: 0..MaxFree, valid: BOOLEAN]]
            BY <3>1, <3>3 DEF GetFreeSpace, GetDiskUsage, FSInv, TypeOK
        <3>. QED
            BY <3>1, <3>4 DEF GetFreeSpace, GetDiskUsage, FSInv, TypeOK
    <2>2. CASE \E o \in Owners, d \in Dirs : MkdirAll(o, d) \/ OpenDir(o, d)
        BY <2>2 DEF MkdirAll, OpenDir, FSInv, TypeOK, vars
    <2>3. CASE FreeSpaceChanges
        BY <2>3 DEF FreeSpaceChanges, FSInv, TypeOK
    <2>. QED
        BY <2>1, <2>2, <2>3
<1>2. LockHeldExclusively' /\ ToldTrue'
    BY DEF GetFreeSpace, GetDiskUsage, MkdirAll, OpenDir, FreeSpaceChanges,
       FSInv, LockHeldExclusively, ToldTrue, Held, Mine, vars
<1>. QED
    BY <1>1, <1>2 DEF FSInv

-----------------------------------------------------------------------------

LEMMA FSInvInit == Init => FSInv
    BY PebbleFSAssumption DEF Init, FSInv, TypeOK, LockHeldExclusively,
       ToldTrue, Held, Mine, NoUsage, Closers, Knowledge

LEMMA FSInvNext == FSInv /\ [Next]_vars => FSInv'
<1> SUFFICES ASSUME FSInv, [Next]_vars PROVE FSInv'
    OBVIOUS
<1>1. CASE \E o \in Owners : GetFreeSpace(o) \/ GetDiskUsage(o)
    BY <1>1, QuietStep
<1>2. CASE \E o \in Owners, d \in Dirs : MkdirAll(o, d) \/ OpenDir(o, d)
    BY <1>2, QuietStep
<1>3. CASE FreeSpaceChanges
    BY <1>3, QuietStep
<1>4. CASE \E o \in Owners : Crash(o)
    BY <1>4, CrashStep
<1>5. CASE \E o \in Owners, d \in Dirs : Lock(o, d)
    BY <1>5, LockStep
<1>6. CASE \E o \in Owners, d \in Dirs : Unlock(o, d)
    BY <1>6, UnlockStep
<1>7. CASE \E o \in Owners, d \in Dirs : List(o, d)
    BY <1>7, ListStep
<1>8. CASE \E o \in Owners, p \in FilePaths :
               Create(o, p) \/ Open(o, p) \/ Stat(o, p) \/ Remove(o, p)
               \/ RemoveAll(o, p)
    BY <1>8, CreateStep, OpenStep, StatStep, RemoveStep, RemoveAllStep
<1>9. CASE \E o \in Owners, a, b \in FilePaths :
               Link(o, a, b) \/ Rename(o, a, b) \/ ReuseForWrite(o, a, b)
    BY <1>9, LinkStep, RenameStep, ReuseForWriteStep
<1>10. CASE UNCHANGED vars
    BY <1>10 DEF vars, FSInv, TypeOK, LockHeldExclusively, ToldTrue, Held, Mine
<1>. QED
    BY <1>1, <1>2, <1>3, <1>4, <1>5, <1>6, <1>7, <1>8, <1>9, <1>10 DEF Next

\* every reachable state satisfies the inductive invariant
THEOREM FSInvHolds == Spec => []FSInv
    BY FSInvInit, FSInvNext, PTL DEF Spec

(***************************************************************************)
(* A pebble instance that believes it holds a directory holds its flock:  *)
(* Lock hands back the inner error when another process has the flock, so  *)
(* no two instances open one shard's store, whatever they do and however   *)
(* many there are.                                                         *)
(***************************************************************************)
THEOREM LockHeldExclusivelyHolds == Spec => []LockHeldExclusively
    BY FSInvHolds, PTL DEF FSInv

(***************************************************************************)
(* What a pebble instance was told about a file of the directory it holds  *)
(* is true: every failed inner call, the open after ReuseForWrite's rename *)
(* included, comes back as an error, and no other instance writes there.   *)
(***************************************************************************)
THEOREM ToldTrueHolds == Spec => []ToldTrue
    BY FSInvHolds, PTL DEF FSInv

\* every variable of the shim keeps its type
THEOREM FSTypeCorrect == Spec => []TypeOK
    BY FSInvHolds, PTL DEF FSInv
=============================================================================
