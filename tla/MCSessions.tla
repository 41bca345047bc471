---------------------------- MODULE MCSessions ----------------------------
(* TLC instance of Sessions.  A tick stands for a few seconds. *)
EXTENDS Sessions, TLC

CONSTANTS p1, g1, g2

\* One process: two sessions, that of its start time and the one without.
PidOf == p1 :> 1

\* Nothing tells the GPUs apart.
AnyGpu == Permutations(Gpus)
=============================================================================
