-------------------------- MODULE MCProcessListing --------------------------
(* TLC instance of ProcessListing.  A tick stands for a second. *)
EXTENDS ProcessListing, TLC

CONSTANTS p1, p2, p3, g1, g2, unknown

\* Two processes of one pid draw on the first GPU, and /proc may not tell their
\* start; the third does both there, and computes on the other GPU.
PidOf  == (p1 :> 1) @@ (p2 :> 1) @@ (p3 :> 2)
GpuOf  == <<g1, g1, g2>>
OnGpus == (p1 :> {2}) @@ (p2 :> {2}) @@ (p3 :> {1, 2, 3})

\* Nothing tells the first two apart.
OfOnePid == Permutations({p1, p2})
=============================================================================
