----------------------------- MODULE MCCluster -----------------------------
(***************************************************************************)
(* Model-checking instances of Cluster: three nodes, of which two are      *)
(* interchangeable.                                                        *)
(***************************************************************************)
EXTENDS Cluster

CONSTANTS n1, n2, n3

MCNodes == {n1, n2, n3}
Symmetry == Permutations({n2, n3})

Scenario(formed, joining, ops, keys, proposals, elections, crashed, snapshots, readers) ==
    [formed |-> formed, joining |-> joining, ops |-> ops, keys |-> keys, proposals |-> proposals,
     elections |-> elections, crashes |-> crashed, snapshots |-> snapshots, reads |-> readers]

\* A cluster being founded while its second node joins and takes over.
Founding == Scenario({}, {n2}, {"exec", "move"}, {}, 3, 2, 0, 0, 0)
\* The same with a crash of either node, and writes sent without a range.
FoundingCrash == Scenario({}, {n2}, {"forward"}, {}, 2, 2, 1, 0, 0)
\* Nodes that change the directory at the same time.
RangeContention == Scenario({n1, n2}, {}, {"split", "rebalance"}, {1}, 4, 1, 0, 0, 0)
\* The same across an election.
RangeFailover == Scenario({n1, n2}, {}, {"split", "rebalance"}, {1}, 3, 2, 0, 0, 0)
\* Directory changes at good and bad keys, snapshots and a restart.
RangeRecovery == Scenario({n1, n2}, {}, {"split"}, {0, 1}, 3, 1, 1, 1, 0)
\* Writes and batches, snapshots and a restart.
WriteRecovery == Scenario({n1, n2}, {}, {"exec", "batch"}, {}, 3, 1, 1, 1, 0)
\* A node that joins while ranges split and tables are assigned.
Joining == Scenario({n1}, {n2}, {"exec", "split", "assign"}, {1}, 3, 1, 0, 0, 0)
\* Linearizable reads across an election and a crash.
Reading == Scenario({n1, n2, n3}, {}, {"exec"}, {}, 2, 2, 1, 0, 1)

MCScenarios ==
    {Founding, FoundingCrash, RangeContention, RangeFailover, RangeRecovery, WriteRecovery, Joining, Reading}
MCJoining == {Joining}
MCRecovery == {WriteRecovery}
=============================================================================
