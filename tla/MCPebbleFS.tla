----------------------------- MODULE MCPebbleFS -----------------------------
(* Instantiates PebbleFS for TLC: two processes contending for two shard *)
(* directories, with two file names in each.                             *)
EXTENDS PebbleFS, TLC

CONSTANTS o1, o2, d1, d2, n1, n2

MCOwners == {o1, o2}
MCDirs == {d1, d2}
MCNames == {n1, n2}

\* owners, directories and file names are only compared for equality
MCSymmetry ==
    Permutations(MCOwners) \cup Permutations(MCDirs) \cup Permutations(MCNames)
=============================================================================
