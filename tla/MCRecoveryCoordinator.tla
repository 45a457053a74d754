------------------------ MODULE MCRecoveryCoordinator -------------------------
(* RecoveryCoordinator on small instances: the times of policy.rs in units *)
(* that keep their order.                                                  *)
EXTENDS RecoveryCoordinator

TwoRetries == <<1, 2>>
=============================================================================
