------------------------------ MODULE MCRaft ------------------------------
(***************************************************************************)
(* The instances of RaftCore for TLC.                                      *)
(***************************************************************************)
EXTENDS RaftCore, TLC

CONSTANTS a, b, c, x

Servers == {a, b, c}
Clients == {x}
Budget(t, f, r, l) == [timeouts |-> t, failures |-> f, requests |-> r, late |-> l]
SmallBudgets ==
  {Budget(2, 0, 1, 0), Budget(2, 0, 0, 1), Budget(2, 1, 0, 0), Budget(3, 0, 0, 0)}
CommitBudget == {Budget(4, 0, 0, 0)}

\* The behaviours in which at most two messages are ever on their way.
CommitSpec == RaftInit /\ [][RaftNext /\ Cardinality(net') <= 2]_raftVars

ServerSymmetry == Permutations(Servers)
=============================================================================
