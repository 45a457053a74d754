-------------------------- MODULE MCProcessManager ---------------------------
(* ProcessManager on small instances.                                      *)
EXTENDS ProcessManager, TLC

Symmetry == Permutations(Reqs)
=============================================================================
