----------------------------- MODULE ReplicaLog -----------------------------
(***************************************************************************)
(* What the log store promises the raft engine, per replica, without the   *)
(* records, the cache or the batches: a log is the snapshot index snap and *)
(* the entries snap+1..last after it (spec.md sections 3 and 4).  A call   *)
(* of the store does one of three things to each replica it addresses:     *)
(* it appends (or overwrites a suffix of) entries after the snapshot, it   *)
(* moves the snapshot forward, or it replaces the whole log by a snapshot  *)
(* and nothing after it (removal, import).  One batched call may do this   *)
(* to several replicas at once.                                            *)
(***************************************************************************)
EXTENDS Naturals

CONSTANTS Replicas, MaxIdx

VARIABLES snap, last

absVars == <<snap, last>>

TypeOK ==
    /\ snap \in [Replicas -> 0..MaxIdx]
    /\ last \in [Replicas -> 0..MaxIdx]

Init ==
    /\ snap = [r \in Replicas |-> 0]
    /\ last = [r \in Replicas |-> 0]

\* entries written or overwritten after the snapshot
Append(r) == snap'[r] = snap[r] /\ last'[r] >= snap[r]

\* a newer snapshot; entries may follow it
Snapshot(r) == snap'[r] > snap[r] /\ last'[r] >= snap'[r]

\* the log is replaced by a snapshot with no entries after it
Restore(r) == last'[r] = snap'[r]

Keep(r) == snap'[r] = snap[r] /\ last'[r] = last[r]

Next ==
    /\ snap' \in [Replicas -> 0..MaxIdx]
    /\ last' \in [Replicas -> 0..MaxIdx]
    /\ \A r \in Replicas : Keep(r) \/ Append(r) \/ Snapshot(r) \/ Restore(r)

Spec == Init /\ [][Next]_absVars
=============================================================================
