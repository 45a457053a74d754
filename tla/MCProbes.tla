------------------------------- MODULE MCProbes -------------------------------
(* Bounds for TLC: the session's checks, the profile checks, and both.       *)
EXTENDS Probes

MCLimits == {[nets |-> 1, edits |-> 0, stamps |-> 3, commands |-> 0],
             [nets |-> 1, edits |-> 1, stamps |-> 0, commands |-> 2]}
=============================================================================
