------------------------------ MODULE MCLogDB ------------------------------
(* Instantiates LogDB for TLC with model-value replicas and raft states. *)
EXTENDS LogDBSnapshotProofs, TLC

CONSTANTS r1, r2, s1, s2

MCOneReplica == {r1}
MCReplicas == {r1, r2}
MCStates == {s1, s2}
MCOneState == {s1}

\* replicas and states are only compared for equality
MCSymmetry == Permutations(MCReplicas) \cup Permutations(MCStates)

(***************************************************************************)
(* Next with listSnapshots failing only inside saveSnapshots: the scan in  *)
(* saveRaftState always succeeds.  Every behaviour of it is a behaviour of *)
(* Spec, so a violation it finds goes through the return at line 338.      *)
(***************************************************************************)
MCNextSaveSnapshotsScanFails ==
    \/ \E D \in BatchDomains : \E B \in [D -> Update] :
          SaveRaftState(B) \/ SaveRaftStateAborts(B)
    \/ \E D \in BatchDomains : \E K \in [D -> Idx] :
          \/ SaveSnapshots(K)
          \/ \E f \in D, P \in SUBSET D : f \notin P /\ SaveSnapshotsListFails(K, P, f)
    \/ \E r \in Replicas :
          \/ GetSnapshot(r)
          \/ SaveBootstrapInfo(r)
          \/ RemoveNodeData(r)
          \/ RemoveNodeDataEntries(r)
          \/ \E i \in Idx : RemoveEntriesTo(r, i)
          \/ \E k \in Idx, s \in States : ImportSnapshot(r, k, s)
    \/ Crash

MCSaveSnapshotsScanFailsSpec == Init /\ [][MCNextSaveSnapshotsScanFails]_vars

=============================================================================
