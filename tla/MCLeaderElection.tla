------------------------- MODULE MCLeaderElection -------------------------
(* LeaderElection on small sets of processes.                              *)
EXTENDS LeaderElection, TLC

Symmetry == Permutations(Proc)
=============================================================================
