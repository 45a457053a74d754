---------------------------- MODULE MCSystemProxy ----------------------------
(* Values for TLC: processes, installations and ports are interchangeable.  *)
EXTENDS SystemProxy, TLC

MCServices == <<"wifi", "lan">>
MCKinds == <<"http", "socks">>
Symmetry == Permutations(Procs) \cup Permutations(Channels) \cup Permutations(Ports)
=============================================================================
