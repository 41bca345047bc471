--------------------------- MODULE MCAgentControl ---------------------------
(* TLC instance of AgentControl. *)
EXTENDS AgentControl, TLC

CONSTANTS r1, r2, p1, p2, p3

Symmetric == Permutations({r1, r2}) \cup Permutations({p1, p2, p3})
=============================================================================
