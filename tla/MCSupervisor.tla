---------------------------- MODULE MCSupervisor ----------------------------
(* Model-checking instances of Supervisor; the bounds are in the cfgs.      *)
EXTENDS Supervisor, TLC

CONSTANTS k1, k2, k3

\* Requests are interchangeable.
TaskSymmetry == Permutations(Tasks)
=============================================================================
