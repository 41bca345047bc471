---------------------------- MODULE MCAgentLink ----------------------------
(* TLC instances of AgentLink. *)
EXTENDS AgentLink, TLC

CONSTANTS a1, a2, n1

\* Two agents that were both started for one node, as two overlapping runs of
\* its start script may leave it, and one agent alone.
TwinAgents == (a1 :> n1) @@ (a2 :> n1)
OneAgent   == a1 :> n1

\* Intervals in half seconds: a process interval below the refresh interval
\* is raised to it.
Start == [refresh |-> 2, process |-> 6]
=============================================================================
