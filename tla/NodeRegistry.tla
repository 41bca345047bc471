---------------------------- MODULE NodeRegistry ----------------------------
(***************************************************************************)
(* What ClusterState promises the dashboard, without agents, messages or   *)
(* channels: a node belongs to the connection that claimed it last, only   *)
(* its owner changes what it shows, by messages with rising numbers, and   *)
(* it is online until the owner's connection is over.  The end of any      *)
(* other connection leaves it alone.  AgentLink implements this.           *)
(***************************************************************************)
EXTENDS Integers

CONSTANTS Nodes, Conns, NoOwner, Nothing

VARIABLES
  phase,    \* of a connection: "idle" "claimed" "over"
  owner,    \* of a node: the connection that claimed it last
  online,
  floor,    \* number of the last message of the owner that counted
  shown     \* the sample on display, Nothing before the first

vars == <<phase, owner, online, floor, shown>>

Init ==
  /\ phase  = [c \in Conns |-> "idle"]
  /\ owner  = [n \in Nodes |-> NoOwner]
  /\ online = [n \in Nodes |-> FALSE]
  /\ floor  = [n \in Nodes |-> 0]
  /\ shown  = [n \in Nodes |-> Nothing]

\* The numbers restart with the owner; what is shown stays.
Claim(c, n) ==
  /\ phase[c] = "idle"
  /\ phase'  = [phase EXCEPT ![c] = "claimed"]
  /\ owner'  = [owner EXCEPT ![n] = c]
  /\ online' = [online EXCEPT ![n] = TRUE]
  /\ floor'  = [floor EXCEPT ![n] = 0]
  /\ UNCHANGED shown

Owned(n) == owner[n] # NoOwner /\ phase[owner[n]] = "claimed"

\* Any sample may come next, with any higher number.
Show(n) ==
  /\ Owned(n)
  /\ floor' = [floor EXCEPT ![n] = floor'[n]]
  /\ floor'[n] > floor[n]
  /\ shown' = [shown EXCEPT ![n] = shown'[n]]
  /\ UNCHANGED <<phase, owner, online>>

Beat(n) ==
  /\ Owned(n)
  /\ floor' = [floor EXCEPT ![n] = floor'[n]]
  /\ floor'[n] >= floor[n]
  /\ UNCHANGED <<phase, owner, online, shown>>

Leave(c) ==
  /\ phase[c] = "claimed"
  /\ phase'  = [phase EXCEPT ![c] = "over"]
  /\ online' = [n \in Nodes |-> online[n] /\ owner[n] # c]
  /\ UNCHANGED <<owner, floor, shown>>

\* A connection that ends before its hello was read.
Abandon(c) ==
  /\ phase[c] = "idle"
  /\ phase' = [phase EXCEPT ![c] = "over"]
  /\ UNCHANGED <<owner, online, floor, shown>>

\* The registry is lost with its process, and every open connection with it;
\* a connection that is still to be opened stays idle.
Lose ==
  /\ phase' \in [Conns -> {"idle", "over"}]
  /\ \A c \in Conns : phase[c] # "idle" => phase'[c] = "over"
  /\ owner'  = [n \in Nodes |-> NoOwner]
  /\ online' = [n \in Nodes |-> FALSE]
  /\ floor'  = [n \in Nodes |-> 0]
  /\ shown'  = [n \in Nodes |-> Nothing]

Next ==
  \/ \E c \in Conns, n \in Nodes : Claim(c, n)
  \/ \E n \in Nodes : Show(n) \/ Beat(n)
  \/ \E c \in Conns : Leave(c) \/ Abandon(c)
  \/ Lose

Spec == Init /\ [][Next]_vars
=============================================================================
