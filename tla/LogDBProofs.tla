----------------------------- MODULE LogDBProofs -----------------------------
(***************************************************************************)
(* Proofs about the LogDB shard: its type invariant, and that the log      *)
(* readRaftState reports is on disk (LogReadable) when no I/O call fails.  *)
(***************************************************************************)
EXTENDS LogDB, WellFoundedInduction, TLAPS

-----------------------------------------------------------------------------
(* Lemmas about the operators the model is built from. *)

\* every non-empty set of naturals has a least element
LEMMA MinExists ==
    ASSUME NEW S \in SUBSET Nat, S # {}
    PROVE  \E i \in S : \A j \in S : i <= j
<1>1. PICK x \in S : \A y \in S : ~(<<y, x>> \in OpToRel(<, Nat))
    BY WFMin, NatLessThanWellFounded
<1>2. \A y \in S : ~(y < x)
    BY <1>1 DEF OpToRel
<1>. QED
    BY <1>2

\* every non-empty set of naturals bounded by N has a greatest element
LEMMA MaxExists ==
    ASSUME NEW N \in Nat, NEW S \in SUBSET (0..N), S # {}
    PROVE  \E i \in S : \A j \in S : j <= i
<1>. DEFINE T == {N - i : i \in S}
<1>1. T \in SUBSET Nat
    BY SMT
<1>2a. T # {}
    OBVIOUS
<1>2. PICK m \in T : \A j \in T : m <= j
    BY <1>1, <1>2a, MinExists
<1>3. PICK i0 \in S : m = N - i0
    OBVIOUS
<1>4. \A j \in S : N - i0 <= N - j
    BY <1>2, <1>3
<1>. QED
    BY <1>4

\* the expression LiveSnap evaluates, on any set of indices
SetMax(S) == IF S = {} THEN 0 ELSE CHOOSE i \in S : \A j \in S : j <= i

\* SetMax is the largest element of a set of indices, 0 of the empty set
LEMMA SetMaxFacts ==
    ASSUME NEW S \in SUBSET (0..MaxIdx)
    PROVE  /\ SetMax(S) \in 0..MaxIdx
           /\ S = {} => SetMax(S) = 0
           /\ S # {} => SetMax(S) \in S /\ \A j \in S : j <= SetMax(S)
<1>1. CASE S = {}
    BY <1>1, ConstantsAssumption DEF SetMax
<1>2. CASE S # {}
    <2>1. \E i \in S : \A j \in S : j <= i
        BY <1>2, ConstantsAssumption, MaxExists
    <2>. QED
        BY <1>2, <2>1 DEF SetMax
<1>. QED
    BY <1>1, <1>2

\* the live snapshot before and after a step
LEMMA LiveSnapIsSetMax ==
    ASSUME NEW r
    PROVE  /\ LiveSnap(r) = SetMax(diskSnaps[r])
           /\ LiveSnap(r)' = SetMax(diskSnaps'[r])
    BY DEF LiveSnap, SetMax

\* LiveSnap is the largest Snapshot index of r, 0 if there is none
LEMMA LiveSnapFacts ==
    ASSUME TypeOK, NEW r \in Replicas
    PROVE  /\ LiveSnap(r) \in 0..MaxIdx
           /\ diskSnaps[r] = {} => LiveSnap(r) = 0
           /\ diskSnaps[r] # {} =>
                 /\ LiveSnap(r) \in diskSnaps[r]
                 /\ \A j \in diskSnaps[r] : j <= LiveSnap(r)
<1>1. diskSnaps[r] \in SUBSET (0..MaxIdx)
    BY ConstantsAssumption DEF TypeOK, Idx
<1>. QED
    BY <1>1, SetMaxFacts, LiveSnapIsSetMax

\* the fields of an update are in range
LEMMA UpdateFields ==
    ASSUME NEW u \in Update
    PROVE  /\ u.state \in StateOrNone /\ u.snap \in 0..MaxIdx
           /\ u.lo \in Idx /\ u.hi \in 0..MaxIdx
           /\ u.lo..u.hi \subseteq Idx
    BY ConstantsAssumption DEF Update, Idx

\* the effects of the updates of P, taken from B, keep each variable in its type
LEMMA UpdateAfterTypes ==
    ASSUME TypeOK, NEW D \in SUBSET Replicas, NEW B \in [D -> Update],
           NEW P \in SUBSET D
    PROVE  /\ StatesAfter(P, B, cacheState) \in [Replicas -> StateOrNone]
           /\ StatesAfter(P, B, diskState) \in [Replicas -> StateOrNone]
           /\ MaxAfter(P, B, cacheMax) \in [Replicas -> IndexOrNone]
           /\ MaxAfter(P, B, diskMax) \in [Replicas -> IndexOrNone]
           /\ EntriesAfter(P, B) \in [Replicas -> SUBSET Idx]
           /\ AckedAfter(B) \in [Replicas -> StateOrNone]
           /\ SnapOf(B) \in [D -> 0..MaxIdx]
<1>1. \A r \in D : /\ B[r].state \in StateOrNone /\ B[r].snap \in 0..MaxIdx
                   /\ B[r].hi \in 0..MaxIdx /\ B[r].lo..B[r].hi \subseteq Idx
    BY UpdateFields
<1>2. \A r \in P : NewMax(r, B[r]) \in 0..MaxIdx
    BY <1>1 DEF NewMax
<1>3. StatesAfter(P, B, cacheState) \in [Replicas -> StateOrNone]
    BY <1>1 DEF TypeOK, StatesAfter
<1>4. StatesAfter(P, B, diskState) \in [Replicas -> StateOrNone]
    BY <1>1 DEF TypeOK, StatesAfter
<1>5. MaxAfter(P, B, cacheMax) \in [Replicas -> IndexOrNone]
    BY <1>2 DEF TypeOK, MaxAfter, IndexOrNone
<1>6. MaxAfter(P, B, diskMax) \in [Replicas -> IndexOrNone]
    BY <1>2 DEF TypeOK, MaxAfter, IndexOrNone
<1>7. EntriesAfter(P, B) \in [Replicas -> SUBSET Idx]
    BY <1>1 DEF TypeOK, EntriesAfter
<1>8. AckedAfter(B) \in [Replicas -> StateOrNone]
    BY <1>1 DEF TypeOK, AckedAfter
<1>9. SnapOf(B) \in [D -> 0..MaxIdx]
    BY <1>1 DEF SnapOf
<1>. QED
    BY <1>3, <1>4, <1>5, <1>6, <1>7, <1>8, <1>9

\* the effects of the snapshots K[r], r \in P, keep the snapshot variables typed
LEMMA SnapAfterTypes ==
    ASSUME TypeOK, NEW D \in SUBSET Replicas, NEW K \in [D -> 0..MaxIdx],
           NEW P \in SUBSET D
    PROVE  /\ SnapIndexAfter(P, K) \in [Replicas -> 0..MaxIdx]
           /\ SnapsAfter(P, K) \in [Replicas -> SUBSET Idx]
           /\ SnapAckedAfter(P, K) \in [Replicas -> 0..MaxIdx]
<1>1. \A r \in P : SnapAccepted(r, K[r]) => K[r] \in Idx
    BY ConstantsAssumption DEF SnapAccepted, Idx
<1>2. SnapIndexAfter(P, K) \in [Replicas -> 0..MaxIdx]
    BY DEF TypeOK, SnapIndexAfter
<1>3. SnapsAfter(P, K) \in [Replicas -> SUBSET Idx]
    BY <1>1 DEF TypeOK, SnapsAfter
<1>4. SnapAckedAfter(P, K) \in [Replicas -> 0..MaxIdx]
    BY DEF TypeOK, SnapAckedAfter
<1>. QED
    BY <1>2, <1>3, <1>4

-----------------------------------------------------------------------------
(* Type correctness. *)

\* one step of any handler, the restart or a failure path keeps the types
LEMMA TypeNext ==
    ASSUME TypeOK, [Next]_vars
    PROVE  TypeOK'
<1>1. ASSUME NEW D \in BatchDomains, NEW B \in [D -> Update],
             SaveRaftState(B)
      PROVE TypeOK'
    <2>1. D \in SUBSET Replicas /\ DOMAIN B = D
        BY DEF BatchDomains
    <2>2. /\ StatesAfter(D, B, cacheState) \in [Replicas -> StateOrNone]
          /\ StatesAfter(D, B, diskState) \in [Replicas -> StateOrNone]
          /\ MaxAfter(D, B, cacheMax) \in [Replicas -> IndexOrNone]
          /\ MaxAfter(D, B, diskMax) \in [Replicas -> IndexOrNone]
          /\ EntriesAfter(D, B) \in [Replicas -> SUBSET Idx]
          /\ AckedAfter(B) \in [Replicas -> StateOrNone]
          /\ SnapOf(B) \in [D -> 0..MaxIdx]
        BY <2>1, UpdateAfterTypes
    <2>3. /\ SnapIndexAfter(D, SnapOf(B)) \in [Replicas -> 0..MaxIdx]
          /\ SnapsAfter(D, SnapOf(B)) \in [Replicas -> SUBSET Idx]
          /\ SnapAckedAfter(D, SnapOf(B)) \in [Replicas -> 0..MaxIdx]
        BY <2>1, <2>2, SnapAfterTypes
    <2>. QED
        BY <1>1, <2>1, <2>2, <2>3 DEF SaveRaftState, TypeOK, disk, engine
<1>2. ASSUME NEW D \in BatchDomains, NEW B \in [D -> Update],
             SaveRaftStateAborts(B)
      PROVE TypeOK'
    BY <1>2, ConstantsAssumption
    DEF SaveRaftStateAborts, Crash, TypeOK, IndexOrNone, StateOrNone, disk, engine
<1>3. ASSUME NEW D \in BatchDomains, NEW B \in [D -> Update],
             NEW f \in D, NEW P \in SUBSET D, SaveRaftStateListFails(B, P, f)
      PROVE TypeOK'
    <2>1. D \in SUBSET Replicas /\ DOMAIN B = D /\ P \cup {f} \in SUBSET D
        BY DEF BatchDomains
    <2>2. /\ StatesAfter(P \cup {f}, B, cacheState) \in [Replicas -> StateOrNone]
          /\ AckedAfter(B) \in [Replicas -> StateOrNone]
          /\ SnapOf(B) \in [D -> 0..MaxIdx]
        BY <2>1, UpdateAfterTypes
    <2>3. /\ SnapIndexAfter(P \cup {f}, SnapOf(B)) \in [Replicas -> 0..MaxIdx]
          /\ SnapAckedAfter(D, SnapOf(B)) \in [Replicas -> 0..MaxIdx]
        BY <2>1, <2>2, SnapAfterTypes
    <2>4. cacheMax' \in [Replicas -> IndexOrNone]
        BY <1>3, <2>1, UpdateFields DEF SaveRaftStateListFails, TypeOK, IndexOrNone
    <2>. QED
        BY <1>3, <2>2, <2>3, <2>4 DEF SaveRaftStateListFails, TypeOK, disk
<1>4. ASSUME NEW D \in BatchDomains, NEW K \in [D -> Idx], SaveSnapshots(K)
      PROVE TypeOK'
    <2>1. D \in SUBSET Replicas /\ DOMAIN K = D /\ K \in [D -> 0..MaxIdx]
        BY DEF BatchDomains, Idx
    <2>2. /\ SnapIndexAfter(D, K) \in [Replicas -> 0..MaxIdx]
          /\ SnapsAfter(D, K) \in [Replicas -> SUBSET Idx]
          /\ SnapAckedAfter(D, K) \in [Replicas -> 0..MaxIdx]
        BY <2>1, SnapAfterTypes
    <2>. QED
        BY <1>4, <2>2 DEF SaveSnapshots, TypeOK
<1>5. ASSUME NEW D \in BatchDomains, NEW K \in [D -> Idx],
             NEW f \in D, NEW P \in SUBSET D, SaveSnapshotsListFails(K, P, f)
      PROVE TypeOK'
    <2>1. D \in SUBSET Replicas /\ P \cup {f} \in SUBSET D
          /\ K \in [D -> 0..MaxIdx] /\ DOMAIN K = D
        BY DEF BatchDomains, Idx
    <2>2. /\ SnapIndexAfter(P \cup {f}, K) \in [Replicas -> 0..MaxIdx]
          /\ SnapAckedAfter(D, K) \in [Replicas -> 0..MaxIdx]
        BY <2>1, SnapAfterTypes
    <2>. QED
        BY <1>5, <2>2 DEF SaveSnapshotsListFails, TypeOK, disk
<1>6. ASSUME NEW r \in Replicas, GetSnapshot(r) PROVE TypeOK'
    BY <1>6, LiveSnapFacts DEF GetSnapshot, TypeOK, disk, engine
<1>7. ASSUME NEW r \in Replicas, SaveBootstrapInfo(r) PROVE TypeOK'
    BY <1>7 DEF SaveBootstrapInfo, TypeOK, cache, engine
<1>8. ASSUME NEW r \in Replicas, RemoveNodeData(r) PROVE TypeOK'
    BY <1>8, ConstantsAssumption DEF RemoveNodeData, TypeOK, IndexOrNone, StateOrNone, disk
<1>9. ASSUME NEW r \in Replicas, RemoveNodeDataEntries(r) PROVE TypeOK'
    BY <1>9 DEF RemoveNodeDataEntries, TypeOK, cache, engine
<1>10. ASSUME NEW r \in Replicas, NEW i \in Idx, RemoveEntriesTo(r, i)
       PROVE TypeOK'
    BY <1>10 DEF RemoveEntriesTo, TypeOK, cache, engine
<1>11. ASSUME NEW r \in Replicas, NEW k \in Idx, NEW st \in States,
              ImportSnapshot(r, k, st)
       PROVE TypeOK'
    BY <1>11, ConstantsAssumption DEF ImportSnapshot, TypeOK, IndexOrNone, StateOrNone, Idx, cache
<1>12. CASE Crash
    BY <1>12, ConstantsAssumption
    DEF Crash, TypeOK, IndexOrNone, StateOrNone, disk, engine
<1>13. CASE UNCHANGED vars
    BY <1>13 DEF vars, disk, cache, engine, TypeOK
<1>. QED
    BY <1>1, <1>2, <1>3, <1>4, <1>5, <1>6, <1>7, <1>8, <1>9, <1>10,
       <1>11, <1>12, <1>13 DEF Next

\* every variable of the store, the cache and the engine's view keeps its type
\* under every handler of db.go, the restart and the failure paths
THEOREM TypeCorrect == Spec => []TypeOK
<1>1. Init => TypeOK
    BY ConstantsAssumption DEF Init, TypeOK, IndexOrNone, StateOrNone
<1>2. TypeOK /\ [Next]_vars => TypeOK'
    BY TypeNext
<1>. QED
    BY <1>1, <1>2, PTL DEF Spec

-----------------------------------------------------------------------------
(* The log on disk, when no I/O call fails. *)

(***************************************************************************)
(* What makes LogReadable inductive, per replica r with live snapshot L    *)
(* and max index M (getMaxIndex, 0 if none): the entries L+1..M are on     *)
(* disk; a cached max index agrees with the MaxIndex record, so a restart  *)
(* that drops the cache leaves M as it was; a loaded replica's cached      *)
(* snapshot index is at least L, so trySaveSnapshot only accepts a newer   *)
(* snapshot; and a replica whose removal is half done has no log.          *)
(***************************************************************************)
LogInv(r) ==
    LET M == OrZero(getMaxIndex(r))
        L == LiveSnap(r)
    IN  /\ L <= M
        /\ (L + 1)..M \subseteq diskEntries[r]
        /\ cacheMax[r] # NoSavedLog => OrZero(cacheMax[r]) = OrZero(diskMax[r])
        /\ started[r] => cacheSnap[r] >= L
        /\ removing[r] => M = 0 /\ diskSnaps[r] = {}

\* the inductive invariant behind LogReadable: the types, and LogInv for every
\* replica of the shard
IInv == TypeOK /\ \A r \in Replicas : LogInv(r)

\* LogInv(r) reads only the r-entries of the variables
LEMMA LogInvLocal ==
    ASSUME NEW r,
           diskMax'[r] = diskMax[r], diskSnaps'[r] = diskSnaps[r],
           diskEntries'[r] = diskEntries[r], cacheMax'[r] = cacheMax[r],
           cacheSnap'[r] = cacheSnap[r], started'[r] = started[r],
           removing'[r] = removing[r]
    PROVE  LogInv(r)' = LogInv(r)
    BY DEF LogInv, LiveSnap, getMaxIndex

\* a step that leaves the r-entries alone keeps LogInv(r)
LEMMA LogInvKept ==
    ASSUME NEW r, LogInv(r),
           diskMax'[r] = diskMax[r], diskSnaps'[r] = diskSnaps[r],
           diskEntries'[r] = diskEntries[r], cacheMax'[r] = cacheMax[r],
           cacheSnap'[r] = cacheSnap[r], started'[r] = started[r],
           removing'[r] = removing[r]
    PROVE  LogInv(r)'
    BY LogInvLocal

\* LogInv after a step, conjunct by conjunct
LEMMA LogInvPrimed ==
    ASSUME NEW r,
           LiveSnap(r)' <= OrZero(getMaxIndex(r))',
           (LiveSnap(r)' + 1)..OrZero(getMaxIndex(r))' \subseteq diskEntries'[r],
           cacheMax'[r] # NoSavedLog => OrZero(cacheMax'[r]) = OrZero(diskMax'[r]),
           started'[r] => cacheSnap'[r] >= LiveSnap(r)',
           removing'[r] => OrZero(getMaxIndex(r))' = 0 /\ diskSnaps'[r] = {}
    PROVE  LogInv(r)'
    BY DEF LogInv

\* the least element of the entries getRange finds
LEMMA FirstFound ==
    ASSUME NEW S \in SUBSET Nat, NEW a \in Nat, a \in S
    PROVE  LET first == CHOOSE i \in S : \A j \in S : i <= j
           IN  first \in S /\ first <= a
<1>1. \E i \in S : \A j \in S : i <= j
    BY MinExists
<1>. QED
    BY <1>1

\* the strengthening implies that the log readRaftState reports is on disk
LEMMA IInvReadable ==
    ASSUME IInv
    PROVE  LogReadable
<1> SUFFICES ASSUME NEW r \in Replicas
             PROVE  LET rg == getRange(r, LiveSnap(r)) IN
                    /\ rg.length >= 0
                    /\ \A i \in (LiveSnap(r) + 1)..(rg.first + rg.length - 1) :
                          i \in diskEntries[r]
    BY DEF LogReadable
<1>. DEFINE L == LiveSnap(r)
            mi == getMaxIndex(r)
            found == {i \in diskEntries[r] : L <= i /\ i <= mi}
            first == CHOOSE i \in found : \A j \in found : i <= j
<1>1. /\ L \in 0..MaxIdx /\ mi \in IndexOrNone
      /\ diskEntries[r] \in SUBSET Idx
      /\ LogInv(r)
    BY LiveSnapFacts DEF IInv, TypeOK, getMaxIndex
<1>2. CASE mi = NoSavedLog \/ mi = L
    BY <1>1, <1>2 DEF getRange
<1>3. CASE mi # NoSavedLog /\ mi # L
    <2>1. mi \in 0..MaxIdx /\ L < mi /\ (L + 1)..mi \subseteq diskEntries[r]
        BY <1>1, <1>3 DEF LogInv, OrZero, IndexOrNone, NoSavedLog
    <2>2. found \in SUBSET Nat /\ L + 1 \in found
        BY <1>1, <2>1, ConstantsAssumption DEF Idx
    <2>3. first \in found /\ first <= L + 1
        BY <2>2, FirstFound
    <2>4. getRange(r, L) = [first |-> first, length |-> mi - first + 1]
        BY <2>2, <1>3 DEF getRange
    <2>5. first \in Nat /\ L <= first /\ first <= L + 1 /\ first <= mi
        BY <2>2, <2>3
    <2>6. getRange(r, L).length = mi - first + 1 /\ mi - first + 1 >= 0
          /\ getRange(r, L).first + getRange(r, L).length - 1 = mi
        BY <2>1, <2>4, <2>5, <1>1
    <2>. QED
        BY <2>1, <2>6
<1>. QED
    BY <1>2, <1>3

(***************************************************************************)
(* saveRaftState keeps LogInv for a replica r of its batch, given the      *)
(* values the committed batch leaves at r.  An accepted snapshot k is      *)
(* newer than the live one, so it replaces it, and the entries after it    *)
(* are either old ones (below the previous max index) or the new ones.     *)
(***************************************************************************)
LEMMA SaveOne ==
    ASSUME TypeOK, TypeOK', NEW r \in Replicas, LogInv(r), NEW u \in Update,
           EngineUpdate(r, u), ~Aborts(r, u),
           cacheSnap'[r] = IF SnapAccepted(r, u.snap) THEN u.snap ELSE cacheSnap[r],
           diskSnaps'[r] = IF SnapAccepted(r, u.snap)
                           THEN {i \in diskSnaps[r] : ~(u.snap > i)} \cup {u.snap}
                           ELSE diskSnaps[r],
           cacheMax'[r] = IF MaxSet(r, u) THEN NewMax(r, u) ELSE cacheMax[r],
           diskMax'[r] = IF MaxSet(r, u) THEN NewMax(r, u) ELSE diskMax[r],
           diskEntries'[r] = IF Recorded(r, u) THEN diskEntries[r] \cup u.lo..u.hi
                             ELSE diskEntries[r],
           started'[r] = started[r], removing'[r] = removing[r]
    PROVE  LogInv(r)'
<1>. DEFINE L == LiveSnap(r)
            M == OrZero(getMaxIndex(r))
            k == u.snap
<1>1. /\ L \in 0..MaxIdx /\ M \in 0..MaxIdx
      /\ \A j \in diskSnaps[r] : j <= L
      /\ started[r] /\ ~removing[r] /\ cacheSnap[r] >= L
      /\ L <= M /\ (L + 1)..M \subseteq diskEntries[r]
      /\ HasEntries(u) => L < u.lo /\ u.lo <= M + 1
      /\ cacheSnap[r] \in 0..MaxIdx
      /\ diskSnaps[r] \in SUBSET Idx /\ diskEntries[r] \in SUBSET Idx
    BY LiveSnapFacts DEF LogInv, EngineUpdate, TypeOK, getMaxIndex, OrZero,
                         IndexOrNone, NoSavedLog
<1>2. /\ k \in 0..MaxIdx /\ u.lo \in Idx /\ u.hi \in 0..MaxIdx
      /\ NewMax(r, u) \in 0..MaxIdx
    BY UpdateFields DEF NewMax
<1>3. /\ MaxSet(r, u) => OrZero(getMaxIndex(r))' = NewMax(r, u)
      /\ ~MaxSet(r, u) => OrZero(getMaxIndex(r))' = M
    BY <1>2 DEF getMaxIndex, OrZero, NoSavedLog
<1>4. cacheMax'[r] # NoSavedLog => OrZero(cacheMax'[r]) = OrZero(diskMax'[r])
    BY DEF LogInv
<1>5. /\ LiveSnap(r)' \in 0..MaxIdx
      /\ diskSnaps'[r] # {} => LiveSnap(r)' \in diskSnaps'[r]
      /\ diskSnaps'[r] = {} => LiveSnap(r)' = 0
    <2>1. diskSnaps'[r] \in SUBSET (0..MaxIdx)
        BY ConstantsAssumption DEF TypeOK, Idx
    <2>2. SetMax(diskSnaps'[r]) \in 0..MaxIdx
          /\ (diskSnaps'[r] # {} => SetMax(diskSnaps'[r]) \in diskSnaps'[r])
          /\ (diskSnaps'[r] = {} => SetMax(diskSnaps'[r]) = 0)
        BY <2>1, SetMaxFacts
    <2>. QED
        BY <2>2, LiveSnapIsSetMax
<1>6. CASE SnapAccepted(r, k)
    <2>1. k > L /\ k # 0
        BY <1>1, <1>2, <1>6 DEF SnapAccepted
    <2>2. diskSnaps'[r] = {k}
        <3>1. {i \in diskSnaps[r] : ~(k > i)} = {}
            BY <1>1, <1>2, <2>1 DEF Idx
        <3>. QED
            BY <1>6, <3>1
    <2>3. LiveSnap(r)' = k
        BY <1>5, <2>2
    <2>4. cacheSnap'[r] = k /\ MaxSet(r, u)
        BY <1>6 DEF MaxSet
    <2>5. CASE HasEntries(u)
        <3>1. k <= u.hi /\ Recorded(r, u) /\ NewMax(r, u) = u.hi
            BY <1>2, <1>6, <2>5 DEF Aborts, Recorded, MaxBefore, NewMax
        <3>2. diskEntries'[r] = diskEntries[r] \cup u.lo..u.hi
            BY <3>1
        <3>3. (k + 1)..u.hi \subseteq diskEntries'[r]
            BY <1>1, <1>2, <2>1, <2>5, <3>2 DEF HasEntries, Idx
        <3>4. /\ LiveSnap(r)' <= OrZero(getMaxIndex(r))'
              /\ (LiveSnap(r)' + 1)..OrZero(getMaxIndex(r))' \subseteq diskEntries'[r]
              /\ started'[r] => cacheSnap'[r] >= LiveSnap(r)'
              /\ removing'[r] => OrZero(getMaxIndex(r))' = 0 /\ diskSnaps'[r] = {}
            BY <1>1, <1>2, <1>3, <2>3, <2>4, <3>1, <3>3
        <3>. QED
            BY <1>4, <3>4, LogInvPrimed
    <2>6. CASE ~HasEntries(u)
        <3>1. NewMax(r, u) = k
            BY <2>6 DEF NewMax, Recorded
        <3>4. /\ LiveSnap(r)' <= OrZero(getMaxIndex(r))'
              /\ (LiveSnap(r)' + 1)..OrZero(getMaxIndex(r))' \subseteq diskEntries'[r]
              /\ started'[r] => cacheSnap'[r] >= LiveSnap(r)'
              /\ removing'[r] => OrZero(getMaxIndex(r))' = 0 /\ diskSnaps'[r] = {}
            BY <1>1, <1>2, <1>3, <2>3, <2>4, <3>1
        <3>. QED
            BY <1>4, <3>4, LogInvPrimed
    <2>. QED
        BY <2>5, <2>6
<1>7. CASE ~SnapAccepted(r, k)
    <2>1. diskSnaps'[r] = diskSnaps[r] /\ cacheSnap'[r] = cacheSnap[r]
          /\ LiveSnap(r)' = L
        BY <1>7, LiveSnapIsSetMax
    <2>2. CASE Recorded(r, u)
        <3>1. u.hi >= M /\ HasEntries(u) /\ MaxSet(r, u) /\ NewMax(r, u) = u.hi
            BY <1>7, <2>2 DEF Recorded, MaxBefore, MaxSet, NewMax
        <3>2. (L + 1)..u.hi \subseteq diskEntries'[r]
            BY <1>1, <1>2, <2>2, <3>1 DEF HasEntries, Idx
        <3>4. /\ LiveSnap(r)' <= OrZero(getMaxIndex(r))'
              /\ (LiveSnap(r)' + 1)..OrZero(getMaxIndex(r))' \subseteq diskEntries'[r]
              /\ started'[r] => cacheSnap'[r] >= LiveSnap(r)'
              /\ removing'[r] => OrZero(getMaxIndex(r))' = 0 /\ diskSnaps'[r] = {}
            BY <1>1, <1>2, <1>3, <2>1, <3>1, <3>2
        <3>. QED
            BY <1>4, <3>4, LogInvPrimed
    <2>3. CASE ~Recorded(r, u)
        <3>1. ~MaxSet(r, u)
            BY <1>7, <2>3 DEF MaxSet
        <3>2. LogInv(r)' = LogInv(r)
            BY <2>1, <2>3, <3>1, LogInvLocal
        <3>. QED
            BY <3>2
    <2>. QED
        BY <2>2, <2>3
<1>. QED
    BY <1>6, <1>7

\* saveSnapshots keeps LogInv for a replica r it saves a snapshot k <= M of
LEMMA SnapOne ==
    ASSUME TypeOK, TypeOK', NEW r \in Replicas, LogInv(r), NEW k \in Idx,
           EngineSnapshot(r, k),
           cacheSnap'[r] = IF SnapAccepted(r, k) THEN k ELSE cacheSnap[r],
           diskSnaps'[r] = IF SnapAccepted(r, k)
                           THEN {i \in diskSnaps[r] : ~(k > i)} \cup {k}
                           ELSE diskSnaps[r],
           diskMax'[r] = diskMax[r], diskEntries'[r] = diskEntries[r],
           cacheMax'[r] = cacheMax[r], started'[r] = started[r],
           removing'[r] = removing[r]
    PROVE  LogInv(r)'
<1>. DEFINE L == LiveSnap(r)
            M == OrZero(getMaxIndex(r))
<1>1. /\ L \in 0..MaxIdx /\ M \in 0..MaxIdx /\ k \in Idx
      /\ \A j \in diskSnaps[r] : j <= L
      /\ started[r] /\ ~removing[r] /\ cacheSnap[r] >= L /\ k <= M
      /\ (L + 1)..M \subseteq diskEntries[r]
      /\ cacheSnap[r] \in 0..MaxIdx /\ diskSnaps[r] \in SUBSET Idx
    BY LiveSnapFacts DEF LogInv, EngineSnapshot, TypeOK, getMaxIndex, OrZero,
                         IndexOrNone, NoSavedLog
<1>2. OrZero(getMaxIndex(r))' = M
    BY DEF getMaxIndex
<1>3. CASE SnapAccepted(r, k)
    <2>1. k > L
        BY <1>1, <1>3 DEF SnapAccepted, Idx
    <2>2. {i \in diskSnaps[r] : ~(k > i)} = {}
        BY <1>1, <2>1 DEF Idx
    <2>3. diskSnaps'[r] = {k}
        BY <1>3, <2>2
    <2>4. LiveSnap(r)' = k
        <3>1. {k} \in SUBSET (0..MaxIdx)
            BY <1>1 DEF Idx
        <3>. QED
            BY <2>3, <3>1, SetMaxFacts, LiveSnapIsSetMax
    <2>5. /\ LiveSnap(r)' <= OrZero(getMaxIndex(r))'
          /\ (LiveSnap(r)' + 1)..OrZero(getMaxIndex(r))' \subseteq diskEntries'[r]
          /\ started'[r] => cacheSnap'[r] >= LiveSnap(r)'
          /\ removing'[r] => OrZero(getMaxIndex(r))' = 0 /\ diskSnaps'[r] = {}
        BY <1>1, <1>2, <1>3, <2>1, <2>4 DEF Idx
    <2>6. cacheMax'[r] # NoSavedLog => OrZero(cacheMax'[r]) = OrZero(diskMax'[r])
        BY DEF LogInv
    <2>. QED
        BY <2>5, <2>6, LogInvPrimed
<1>4. CASE ~SnapAccepted(r, k)
    BY <1>4, LogInvLocal
<1>. QED
    BY <1>3, <1>4

(***************************************************************************)
(* Every step keeps IInv when no I/O call fails: one step per handler,     *)
(* split on whether it touches the replica r the goal is about.            *)
(***************************************************************************)
LEMMA IInvNext ==
    ASSUME ~ListFails, ~CommitFails, IInv, [Next]_vars
    PROVE  IInv'
<1>1. TypeOK /\ TypeOK'
    BY TypeNext DEF IInv
<1> SUFFICES ASSUME NEW r \in Replicas PROVE LogInv(r)'
    BY <1>1 DEF IInv
<1>2. LogInv(r) /\ LiveSnap(r) \in 0..MaxIdx
      /\ (diskSnaps[r] = {} => LiveSnap(r) = 0)
      /\ cacheSnap[r] \in 0..MaxIdx
    BY <1>1, LiveSnapFacts DEF IInv, TypeOK
<1>3. ASSUME NEW D \in BatchDomains, NEW B \in [D -> Update], SaveRaftState(B)
      PROVE  LogInv(r)'
    <2>1. D \in SUBSET Replicas /\ DOMAIN B = D
        BY DEF BatchDomains
    <2>2. /\ diskSnaps' = SnapsAfter(D, SnapOf(B))
          /\ diskMax' = MaxAfter(D, B, diskMax)
          /\ diskEntries' = EntriesAfter(D, B)
          /\ cacheSnap' = SnapIndexAfter(D, SnapOf(B))
          /\ cacheMax' = MaxAfter(D, B, cacheMax)
          /\ UNCHANGED <<started, removing>>
        BY <1>3, <2>1 DEF SaveRaftState
    <2>3. CASE r \in D
        <3>1. EngineUpdate(r, B[r]) /\ ~Aborts(r, B[r]) /\ B[r] \in Update
            BY <1>3, <2>1, <2>3 DEF SaveRaftState
        <3>2. SnapOf(B)[r] = B[r].snap
            BY <2>1, <2>3 DEF SnapOf
        <3>. QED
            BY <1>1, <1>2, <2>2, <2>3, <3>1, <3>2, SaveOne
            DEF SnapsAfter, MaxAfter, EntriesAfter, SnapIndexAfter
    <2>4. CASE r \notin D
        <3>1. /\ diskMax'[r] = diskMax[r] /\ diskSnaps'[r] = diskSnaps[r]
              /\ diskEntries'[r] = diskEntries[r] /\ cacheMax'[r] = cacheMax[r]
              /\ cacheSnap'[r] = cacheSnap[r] /\ started'[r] = started[r]
              /\ removing'[r] = removing[r]
            BY <2>2, <2>4 DEF SnapsAfter, MaxAfter, EntriesAfter, SnapIndexAfter
        <3>. QED
            BY <3>1, <1>2, LogInvKept
    <2>. QED
        BY <2>3, <2>4
<1>4. ASSUME NEW D \in BatchDomains, NEW K \in [D -> Idx], SaveSnapshots(K)
      PROVE  LogInv(r)'
    <2>1. D \in SUBSET Replicas /\ DOMAIN K = D
        BY DEF BatchDomains
    <2>2. /\ diskSnaps' = SnapsAfter(D, K)
          /\ cacheSnap' = SnapIndexAfter(D, K)
          /\ UNCHANGED <<diskMax, diskEntries, cacheMax, started, removing>>
        BY <1>4, <2>1 DEF SaveSnapshots
    <2>3. CASE r \in D
        <3>1. EngineSnapshot(r, K[r]) /\ K[r] \in Idx
            BY <1>4, <2>1, <2>3 DEF SaveSnapshots
        <3>. QED
            BY <1>1, <1>2, <2>2, <2>3, <3>1, SnapOne DEF SnapsAfter, SnapIndexAfter
    <2>4. CASE r \notin D
        <3>1. /\ diskMax'[r] = diskMax[r] /\ diskSnaps'[r] = diskSnaps[r]
              /\ diskEntries'[r] = diskEntries[r] /\ cacheMax'[r] = cacheMax[r]
              /\ cacheSnap'[r] = cacheSnap[r] /\ started'[r] = started[r]
              /\ removing'[r] = removing[r]
            BY <2>2, <2>4 DEF SnapsAfter, SnapIndexAfter
        <3>. QED
            BY <3>1, <1>2, LogInvKept
    <2>. QED
        BY <2>3, <2>4
<1>5. CASE Crash
    <2>1. /\ diskMax' = diskMax /\ diskSnaps' = diskSnaps
          /\ diskEntries' = diskEntries
          /\ cacheMax'[r] = NoSavedLog /\ ~started'[r] /\ ~removing'[r]
        BY <1>5 DEF Crash, disk
    <2>2. LiveSnap(r)' = LiveSnap(r)
        BY <2>1 DEF LiveSnap
    <2>3. OrZero(getMaxIndex(r))' = OrZero(getMaxIndex(r))
        BY <1>2, <2>1 DEF LogInv, getMaxIndex
    <2>. QED
        BY <1>2, <2>1, <2>2, <2>3, LogInvPrimed DEF LogInv

<1>6. ASSUME NEW D \in BatchDomains, NEW B \in [D -> Update],
             SaveRaftStateAborts(B)
      PROVE  LogInv(r)'
    BY <1>5, <1>6 DEF SaveRaftStateAborts
<1>7. ASSUME NEW r0 \in Replicas, GetSnapshot(r0) PROVE LogInv(r)'
    <2>1. CASE r0 = r
        <3>2. /\ diskSnaps' = diskSnaps /\ diskMax' = diskMax
              /\ diskEntries' = diskEntries /\ cacheMax' = cacheMax
              /\ removing' = removing
              /\ cacheSnap'[r] = IF diskSnaps[r] = {} THEN cacheSnap[r]
                                 ELSE LiveSnap(r)
            BY <1>1, <1>7, <2>1 DEF GetSnapshot, disk, TypeOK
        <3>3. LiveSnap(r)' = LiveSnap(r)
              /\ OrZero(getMaxIndex(r))' = OrZero(getMaxIndex(r))
            BY <3>2 DEF LiveSnap, getMaxIndex
        <3>. QED
            BY <1>2, <3>2, <3>3, LogInvPrimed DEF LogInv
    <2>4. CASE r0 # r
        <3>1. /\ diskMax'[r] = diskMax[r] /\ diskSnaps'[r] = diskSnaps[r]
              /\ diskEntries'[r] = diskEntries[r] /\ cacheMax'[r] = cacheMax[r]
              /\ cacheSnap'[r] = cacheSnap[r] /\ started'[r] = started[r]
              /\ removing'[r] = removing[r]
            BY <1>1, <1>7, <2>4 DEF GetSnapshot, disk, TypeOK
        <3>. QED
            BY <3>1, <1>2, LogInvKept
    <2>. QED
        BY <2>1, <2>4
<1>8. ASSUME NEW r0 \in Replicas, SaveBootstrapInfo(r0) PROVE LogInv(r)'
    <2>1. /\ diskMax'[r] = diskMax[r] /\ diskSnaps'[r] = diskSnaps[r]
          /\ diskEntries'[r] = diskEntries[r] /\ cacheMax'[r] = cacheMax[r]
          /\ cacheSnap'[r] = cacheSnap[r] /\ started'[r] = started[r]
          /\ removing'[r] = removing[r]
        BY <1>8 DEF SaveBootstrapInfo, cache
    <2>. QED
        BY <2>1, <1>2, LogInvKept
<1>9. ASSUME NEW r0 \in Replicas, RemoveNodeData(r0) PROVE LogInv(r)'
    <2>1. CASE r0 = r
        <3>2. /\ diskSnaps'[r] = {} /\ diskMax'[r] = NoSavedLog
              /\ cacheMax'[r] = 0
            BY <1>1, <1>9, <2>1 DEF RemoveNodeData, TypeOK
        <3>3. LiveSnap(r)' = 0 /\ OrZero(getMaxIndex(r))' = 0
            BY <3>2 DEF LiveSnap, getMaxIndex, OrZero, NoSavedLog
        <3>4. started'[r] => cacheSnap'[r] >= 0
            BY <1>2, <1>9 DEF RemoveNodeData
        <3>. QED
            BY <3>2, <3>3, <3>4, LogInvPrimed DEF OrZero, NoSavedLog
    <2>5. CASE r0 # r
        <3>1. /\ diskMax'[r] = diskMax[r] /\ diskSnaps'[r] = diskSnaps[r]
              /\ diskEntries'[r] = diskEntries[r] /\ cacheMax'[r] = cacheMax[r]
              /\ cacheSnap'[r] = cacheSnap[r] /\ started'[r] = started[r]
              /\ removing'[r] = removing[r]
            BY <1>1, <1>9, <2>5 DEF RemoveNodeData, TypeOK
        <3>. QED
            BY <3>1, <1>2, LogInvKept
    <2>. QED
        BY <2>1, <2>5
<1>10. ASSUME NEW r0 \in Replicas, RemoveNodeDataEntries(r0) PROVE LogInv(r)'
    <2>1. CASE r0 = r
        <3>2. OrZero(getMaxIndex(r)) = 0 /\ diskSnaps[r] = {} /\ LiveSnap(r) = 0
            BY <1>2, <1>10, <2>1 DEF RemoveNodeDataEntries, LogInv
        <3>3. /\ diskSnaps' = diskSnaps /\ diskMax' = diskMax /\ cache' = cache
              /\ started' = started /\ ~removing'[r]
            BY <1>1, <1>10, <2>1 DEF RemoveNodeDataEntries, TypeOK
        <3>4. LiveSnap(r)' = 0 /\ OrZero(getMaxIndex(r))' = 0
            BY <3>2, <3>3 DEF LiveSnap, getMaxIndex, cache
        <3>. QED
            BY <1>2, <3>3, <3>4, LogInvPrimed DEF LogInv, cache
    <2>5. CASE r0 # r
        <3>1. /\ diskMax'[r] = diskMax[r] /\ diskSnaps'[r] = diskSnaps[r]
              /\ diskEntries'[r] = diskEntries[r] /\ cacheMax'[r] = cacheMax[r]
              /\ cacheSnap'[r] = cacheSnap[r] /\ started'[r] = started[r]
              /\ removing'[r] = removing[r]
            BY <1>1, <1>10, <2>5 DEF RemoveNodeDataEntries, TypeOK, cache
        <3>. QED
            BY <3>1, <1>2, LogInvKept
    <2>. QED
        BY <2>1, <2>5
<1>11. ASSUME NEW r0 \in Replicas, NEW i \in Idx, RemoveEntriesTo(r0, i)
       PROVE LogInv(r)'
    <2>1. CASE r0 = r
        <3>2. /\ i <= LiveSnap(r)
              /\ diskEntries'[r] = {j \in diskEntries[r] : j > i}
              /\ diskSnaps' = diskSnaps /\ diskMax' = diskMax /\ cache' = cache
              /\ UNCHANGED <<started, removing>>
            BY <1>1, <1>11, <2>1 DEF RemoveEntriesTo, TypeOK
        <3>3. LiveSnap(r)' = LiveSnap(r)
              /\ OrZero(getMaxIndex(r))' = OrZero(getMaxIndex(r))
            <4>1. LiveSnap(r)' = LiveSnap(r)
                BY <3>2, LiveSnapIsSetMax
            <4>2. getMaxIndex(r)' = getMaxIndex(r)
                BY <3>2 DEF getMaxIndex, cache
            <4>. QED
                BY <4>1, <4>2 DEF OrZero
        <3>4. (LiveSnap(r) + 1)..OrZero(getMaxIndex(r)) \subseteq diskEntries'[r]
            <4>1. (LiveSnap(r) + 1)..OrZero(getMaxIndex(r)) \subseteq diskEntries[r]
                BY <1>2 DEF LogInv
            <4>2. i \in Int /\ LiveSnap(r) \in Int /\ i <= LiveSnap(r)
                BY <1>2, <3>2 DEF Idx
            <4>3. SUFFICES ASSUME NEW j \in (LiveSnap(r) + 1)..OrZero(getMaxIndex(r))
                           PROVE  j \in diskEntries'[r]
                OBVIOUS
            <4>4. j \in diskEntries[r] /\ j > i
                BY <4>1, <4>2
            <4>. QED
                BY <4>4, <3>2
        <3>. QED
            BY <1>2, <3>2, <3>3, <3>4, LogInvPrimed DEF LogInv, cache
    <2>5. CASE r0 # r
        <3>1. /\ diskMax'[r] = diskMax[r] /\ diskSnaps'[r] = diskSnaps[r]
              /\ diskEntries'[r] = diskEntries[r] /\ cacheMax'[r] = cacheMax[r]
              /\ cacheSnap'[r] = cacheSnap[r] /\ started'[r] = started[r]
              /\ removing'[r] = removing[r]
            BY <1>1, <1>11, <2>5 DEF RemoveEntriesTo, TypeOK, cache
        <3>. QED
            BY <3>1, <1>2, LogInvKept
    <2>. QED
        BY <2>1, <2>5
<1>12. ASSUME NEW r0 \in Replicas, NEW k \in Idx, NEW st \in States,
              ImportSnapshot(r0, k, st)
       PROVE LogInv(r)'
    <2>1. CASE r0 = r
        <3>2. /\ diskSnaps'[r] = {k} /\ diskMax'[r] = k
              /\ cacheMax'[r] = NoSavedLog /\ ~started'[r] /\ ~removing'[r]
            BY <1>1, <1>12, <2>1 DEF ImportSnapshot, Untouched, TypeOK, cache
        <3>3. LiveSnap(r)' = k
            <4>1. {k} \in SUBSET (0..MaxIdx)
                BY DEF Idx
            <4>. QED
                BY <3>2, <4>1, SetMaxFacts, LiveSnapIsSetMax
        <3>4. OrZero(getMaxIndex(r))' = k
            BY <3>2 DEF getMaxIndex, OrZero, NoSavedLog, Idx
        <3>. QED
            BY <3>2, <3>3, <3>4, LogInvPrimed DEF Idx
    <2>5. CASE r0 # r
        <3>1. /\ diskMax'[r] = diskMax[r] /\ diskSnaps'[r] = diskSnaps[r]
              /\ diskEntries'[r] = diskEntries[r] /\ cacheMax'[r] = cacheMax[r]
              /\ cacheSnap'[r] = cacheSnap[r] /\ started'[r] = started[r]
              /\ removing'[r] = removing[r]
            BY <1>1, <1>12, <2>5 DEF ImportSnapshot, TypeOK, cache
        <3>. QED
            BY <3>1, <1>2, LogInvKept
    <2>. QED
        BY <2>1, <2>5
<1>13. CASE UNCHANGED vars
    <2>1. /\ diskMax'[r] = diskMax[r] /\ diskSnaps'[r] = diskSnaps[r]
          /\ diskEntries'[r] = diskEntries[r] /\ cacheMax'[r] = cacheMax[r]
          /\ cacheSnap'[r] = cacheSnap[r] /\ started'[r] = started[r]
          /\ removing'[r] = removing[r]
        BY <1>13 DEF vars, disk, cache, engine
    <2>. QED
        BY <2>1, <1>2, LogInvKept
<1>. QED
    BY <1>3, <1>4, <1>5, <1>6, <1>7, <1>8, <1>9, <1>10, <1>11, <1>12, <1>13
    DEF Next, SaveRaftStateListFails, SaveSnapshotsListFails


\* a fresh store satisfies the strengthening
LEMMA IInvInit ==
    ASSUME Init
    PROVE  IInv
<1>1. TypeOK
    BY ConstantsAssumption DEF Init, TypeOK, IndexOrNone, StateOrNone
<1>2. ASSUME NEW r \in Replicas
      PROVE  LiveSnap(r) = 0 /\ OrZero(getMaxIndex(r)) = 0
    BY DEF Init, LiveSnap, getMaxIndex, OrZero
<1>. QED
    BY <1>1, <1>2 DEF IInv, LogInv, Init

(***************************************************************************)
(* When neither listSnapshots nor CommitWriteBatch fails, the log          *)
(* readRaftState reports from the live snapshot is on disk in every state, *)
(* for any number of replicas, any index bound and any batch size: the     *)
(* cache's trySaveSnapshot and setMaxIndex, the MaxIndex fallback of       *)
(* getMaxIndex after a restart, compaction up to the live snapshot and the *)
(* two halves of removeNodeData never leave a hole between the live        *)
(* snapshot and the max index.                                             *)
(***************************************************************************)
(***************************************************************************)
(* Without I/O failures every reachable state satisfies IInv: for every    *)
(* replica the entries between the live snapshot and the max index are on  *)
(* disk, a cached max index is the MaxIndex record, the snapshot guard of   *)
(* a loaded replica is at or above the live snapshot, and a half-done       *)
(* removeNodeData has left no snapshot and max index 0.                    *)
(***************************************************************************)
THEOREM IInvHolds ==
    ASSUME ~ListFails, ~CommitFails
    PROVE  Spec => []IInv
<1>1. Init => IInv
    BY IInvInit
<1>2. IInv /\ [Next]_vars => IInv'
    BY IInvNext
<1>. QED
    BY <1>1, <1>2, PTL DEF Spec

THEOREM LogReadableHolds ==
    ASSUME ~ListFails, ~CommitFails
    PROVE  Spec => []LogReadable
<1>1. Init => IInv
    BY IInvInit
<1>2. IInv /\ [Next]_vars => IInv'
    BY IInvNext
<1>3. IInv => LogReadable
    BY IInvReadable
<1>. QED
    BY <1>1, <1>2, <1>3, PTL DEF Spec

-----------------------------------------------------------------------------
(* The store implements ReplicaLog (AbsLog, defined in LogDB). *)

\* a Snapshot record at or above L after the step keeps the live snapshot
\* from falling below L
LEMMA SnapNotBack ==
    ASSUME TypeOK', NEW r \in Replicas, NEW k \in diskSnaps'[r],
           NEW L \in Nat, k >= L
    PROVE  LiveSnap(r)' >= L
<1>1. diskSnaps'[r] \in SUBSET (0..MaxIdx)
    BY ConstantsAssumption DEF TypeOK, Idx
<1>2. SetMax(diskSnaps'[r]) \in 0..MaxIdx
      /\ \A j \in diskSnaps'[r] : j <= SetMax(diskSnaps'[r])
    BY <1>1, SetMaxFacts
<1>3. k \in 0..MaxIdx /\ k <= SetMax(diskSnaps'[r])
    BY <1>1, <1>2
<1>4. SetMax(diskSnaps'[r]) >= L
    BY <1>2, <1>3
<1>. QED
    BY <1>4, LiveSnapIsSetMax

\* a snapshot trySaveSnapshot accepts for a loaded replica is newer than the
\* live one, so writing it moves the live snapshot forward
LEMMA AcceptedForward ==
    ASSUME TypeOK, TypeOK', NEW r \in Replicas, LogInv(r), started[r],
           NEW k \in 0..MaxIdx, SnapAccepted(r, k), k \in diskSnaps'[r]
    PROVE  LiveSnap(r)' >= LiveSnap(r)
<1>1. LiveSnap(r) \in 0..MaxIdx /\ cacheSnap[r] \in 0..MaxIdx
    BY LiveSnapFacts DEF TypeOK
<1>2. cacheSnap[r] >= LiveSnap(r)
    BY DEF LogInv
<1>3. k >= LiveSnap(r)
    BY <1>1, <1>2 DEF SnapAccepted
<1>. QED
    BY <1>1, <1>3, SnapNotBack

\* the live snapshot of a step that leaves the Snapshot records of r alone
LEMMA SnapsKept ==
    ASSUME TypeOK, NEW r \in Replicas, diskSnaps'[r] = diskSnaps[r]
    PROVE  LiveSnap(r)' >= LiveSnap(r)
<1>1. LiveSnap(r) \in 0..MaxIdx
    BY LiveSnapFacts
<1>2. LiveSnap(r)' = LiveSnap(r)
    BY LiveSnapIsSetMax
<1>. QED
    BY <1>1, <1>2

(***************************************************************************)
(* Per replica, a step of the store either keeps the live snapshot from    *)
(* going back, or leaves a log with nothing after the snapshot: removal    *)
(* (RemoveNodeData) and importSnapshot replace the whole log.              *)
(***************************************************************************)
LEMMA SnapForward ==
    ASSUME ~ListFails, ~CommitFails, IInv, [Next]_vars, NEW r \in Replicas
    PROVE  \/ LiveSnap(r)' >= LiveSnap(r)
           \/ LiveSnap(r)' = OrZero(getMaxIndex(r))'
<1>1. TypeOK /\ TypeOK' /\ LogInv(r)
    BY TypeNext DEF IInv
<1>2. ASSUME NEW D \in BatchDomains, NEW B \in [D -> Update], SaveRaftState(B)
      PROVE  LiveSnap(r)' >= LiveSnap(r)
    <2>1. D \in SUBSET Replicas /\ DOMAIN B = D
        BY DEF BatchDomains
    <2>2. diskSnaps' = SnapsAfter(D, SnapOf(B))
        BY <1>2, <2>1 DEF SaveRaftState
    <2>3. CASE r \in D /\ SnapAccepted(r, B[r].snap)
        <3>1. started[r] /\ B[r].snap \in 0..MaxIdx
            BY <1>2, <2>1, <2>3 DEF SaveRaftState, EngineUpdate, Update
        <3>2. B[r].snap \in diskSnaps'[r]
            BY <2>1, <2>2, <2>3 DEF SnapsAfter, SnapOf
        <3>. QED
            BY <1>1, <2>3, <3>1, <3>2, AcceptedForward
    <2>4. CASE ~(r \in D /\ SnapAccepted(r, B[r].snap))
        <3>1. diskSnaps'[r] = diskSnaps[r]
            BY <2>1, <2>2, <2>4 DEF SnapsAfter, SnapOf
        <3>. QED
            BY <1>1, <3>1, SnapsKept
    <2>. QED
        BY <2>3, <2>4
<1>3. ASSUME NEW D \in BatchDomains, NEW K \in [D -> Idx], SaveSnapshots(K)
      PROVE  LiveSnap(r)' >= LiveSnap(r)
    <2>1. D \in SUBSET Replicas /\ DOMAIN K = D
        BY DEF BatchDomains
    <2>2. diskSnaps' = SnapsAfter(D, K)
        BY <1>3, <2>1 DEF SaveSnapshots
    <2>3. CASE r \in D /\ SnapAccepted(r, K[r])
        <3>1. started[r] /\ K[r] \in 0..MaxIdx
            BY <1>3, <2>1, <2>3 DEF SaveSnapshots, EngineSnapshot, Idx
        <3>2. K[r] \in diskSnaps'[r]
            BY <2>1, <2>2, <2>3 DEF SnapsAfter
        <3>. QED
            BY <1>1, <2>3, <3>1, <3>2, AcceptedForward
    <2>4. CASE ~(r \in D /\ SnapAccepted(r, K[r]))
        <3>1. diskSnaps'[r] = diskSnaps[r]
            BY <2>1, <2>2, <2>4 DEF SnapsAfter
        <3>. QED
            BY <1>1, <3>1, SnapsKept
    <2>. QED
        BY <2>3, <2>4
<1>4. ASSUME NEW r0 \in Replicas, RemoveNodeData(r0)
      PROVE  \/ LiveSnap(r)' >= LiveSnap(r)
             \/ LiveSnap(r)' = OrZero(getMaxIndex(r))'
    <2>1. CASE r0 = r
        <3>1. diskSnaps'[r] = {} /\ cacheMax'[r] = 0
            BY <1>1, <1>4, <2>1 DEF RemoveNodeData, TypeOK
        <3>. QED
            BY <3>1 DEF LiveSnap, getMaxIndex, OrZero, NoSavedLog
    <2>2. CASE r0 # r
        BY <1>1, <1>4, <2>2, SnapsKept DEF RemoveNodeData, TypeOK
    <2>. QED
        BY <2>1, <2>2
<1>5. ASSUME NEW r0 \in Replicas, NEW k \in Idx, NEW s \in States,
             ImportSnapshot(r0, k, s)
      PROVE  \/ LiveSnap(r)' >= LiveSnap(r)
             \/ LiveSnap(r)' = OrZero(getMaxIndex(r))'
    <2>1. CASE r0 = r
        <3>1. diskSnaps'[r] = {k} /\ diskMax'[r] = k
              /\ cacheMax'[r] = NoSavedLog
            BY <1>1, <1>5, <2>1 DEF ImportSnapshot, Untouched, cache, TypeOK
        <3>2. LiveSnap(r)' = k
            BY <3>1 DEF LiveSnap
        <3>. QED
            BY <3>1, <3>2, ConstantsAssumption DEF getMaxIndex, OrZero, NoSavedLog, Idx
    <2>2. CASE r0 # r
        BY <1>1, <1>5, <2>2, SnapsKept DEF ImportSnapshot, TypeOK
    <2>. QED
        BY <2>1, <2>2
<1>6. ASSUME UNCHANGED diskSnaps PROVE LiveSnap(r)' >= LiveSnap(r)
    BY <1>1, <1>6, SnapsKept
<1>. QED
    <2>1. CASE \E D \in BatchDomains : \E B \in [D -> Update] :
                 \/ SaveRaftState(B)
                 \/ SaveRaftStateAborts(B)
                 \/ \E f \in D, P \in SUBSET D :
                       f \notin P /\ SaveRaftStateListFails(B, P, f)
        BY <1>2, <1>6, <2>1 DEF SaveRaftStateAborts, Crash, disk,
           SaveRaftStateListFails
    <2>2. CASE \E D \in BatchDomains : \E K \in [D -> Idx] :
                 \/ SaveSnapshots(K)
                 \/ \E f \in D, P \in SUBSET D :
                       f \notin P /\ SaveSnapshotsListFails(K, P, f)
        BY <1>3, <2>2 DEF SaveSnapshotsListFails
    <2>3. CASE \E r0 \in Replicas :
                 \/ GetSnapshot(r0)
                 \/ SaveBootstrapInfo(r0)
                 \/ RemoveNodeData(r0)
                 \/ RemoveNodeDataEntries(r0)
                 \/ \E i \in Idx : RemoveEntriesTo(r0, i)
                 \/ \E k \in Idx, s \in States : ImportSnapshot(r0, k, s)
        BY <1>4, <1>5, <1>6, <2>3 DEF GetSnapshot, SaveBootstrapInfo,
           RemoveNodeDataEntries, RemoveEntriesTo, disk
    <2>4. CASE Crash \/ UNCHANGED vars
        BY <1>6, <2>4 DEF Crash, vars, disk
    <2>. QED
        BY <2>1, <2>2, <2>3, <2>4 DEF Next

\* getMaxIndex, with no MaxIndex as 0, is an index
LEMMA MaxIndexRange ==
    ASSUME NEW c \in IndexOrNone, NEW d \in IndexOrNone
    PROVE  OrZero(IF c # NoSavedLog THEN c ELSE d) \in 0..MaxIdx
    BY ConstantsAssumption DEF IndexOrNone, OrZero, NoSavedLog

\* every step of the store is a step of ReplicaLog under the mapping AbsLog
LEMMA RefineStep ==
    ASSUME ~ListFails, ~CommitFails, IInv, IInv', [Next]_vars
    PROVE  AbsLog!Next
<1>1. TypeOK'
    BY DEF IInv
<1>2. ASSUME NEW r \in Replicas
      PROVE  /\ LiveSnap(r)' \in 0..MaxIdx
             /\ OrZero(getMaxIndex(r))' \in 0..MaxIdx
             /\ LiveSnap(r)' <= OrZero(getMaxIndex(r))'
    <2>1. diskSnaps'[r] \in SUBSET (0..MaxIdx)
        BY <1>1, ConstantsAssumption DEF TypeOK, Idx
    <2>2. LiveSnap(r)' \in 0..MaxIdx
        BY <2>1, SetMaxFacts, LiveSnapIsSetMax
    <2>3. OrZero(getMaxIndex(r))' \in 0..MaxIdx
        <3>1. cacheMax'[r] \in IndexOrNone /\ diskMax'[r] \in IndexOrNone
            BY <1>1 DEF TypeOK
        <3> DEFINE m == IF cacheMax'[r] # NoSavedLog THEN cacheMax'[r] ELSE diskMax'[r]
        <3>2. OrZero(getMaxIndex(r))' = OrZero(m)
            BY DEF getMaxIndex, OrZero
        <3>3. OrZero(m) \in 0..MaxIdx
            BY <3>1, MaxIndexRange
        <3>. QED
            BY <3>2, <3>3
    <2>4. LiveSnap(r)' <= OrZero(getMaxIndex(r))'
        BY DEF IInv, LogInv
    <2>. QED
        BY <2>2, <2>3, <2>4
<1>3. ASSUME NEW r \in Replicas
      PROVE  \/ AbsLog!Keep(r)
             \/ AbsLog!Append(r)
             \/ AbsLog!Snapshot(r)
             \/ AbsLog!Restore(r)
    <2>1. LiveSnap(r) \in 0..MaxIdx
        BY LiveSnapFacts DEF IInv
    <2>2. \/ LiveSnap(r)' >= LiveSnap(r)
          \/ LiveSnap(r)' = OrZero(getMaxIndex(r))'
        BY SnapForward
    <2>. QED
        BY <1>2, <2>1, <2>2 DEF AbsLog!Keep, AbsLog!Append, AbsLog!Snapshot,
           AbsLog!Restore
<1>. QED
    BY <1>2, <1>3 DEF AbsLog!Next

(***************************************************************************)
(* Without I/O faults, the store implements ReplicaLog: per replica, every *)
(* call of the engine appends after the live snapshot, moves the snapshot  *)
(* forward, or (removeNodeData, importSnapshot) replaces the log by a      *)
(* snapshot with nothing after it.  The mapping reads the live snapshot    *)
(* (listSnapshots) and getMaxIndex, with the cache's fallback after a      *)
(* restart.                                                                *)
(***************************************************************************)
THEOREM RefinesReplicaLog ==
    ASSUME ~ListFails, ~CommitFails
    PROVE  Spec => ReplicaLogRefined
<1>1. Init => AbsLog!Init
    BY DEF Init, AbsLog!Init, LiveSnap, getMaxIndex, OrZero, NoSavedLog
<1>2. Init => IInv
    BY IInvInit
<1>3. IInv /\ [Next]_vars => IInv'
    BY IInvNext
<1>4. IInv /\ IInv' /\ [Next]_vars => [AbsLog!Next]_AbsLog!absVars
    BY RefineStep
<1>. QED
    BY <1>1, <1>2, <1>3, <1>4, PTL DEF Spec, ReplicaLogRefined, AbsLog!Spec

=============================================================================
