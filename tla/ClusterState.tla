---------------------------- MODULE ClusterState ----------------------------
(***************************************************************************)
(* The manager's map from node_id to NodeRuntime (cluster.py, ClusterState)*)
(* as a value and the methods that transform it.  A method is an operator  *)
(* that takes the map and returns the next one; the modules that own the   *)
(* map as a variable (AgentLink, ClusterFeed) apply them inside their      *)
(* actions.                                                                *)
(*                                                                         *)
(* A snapshot is an opaque `payload` chosen by the owner of the map;       *)
(* hostname, versions and hardware are left out.  last_seen_at is kept as  *)
(* its age: the ticks since, which Aged advances and which sticks at       *)
(* OfflineAfter + 1, the first value past every threshold.  Every caller   *)
(* in app.py passes a connection id, so the None that matches any          *)
(* connection does not occur.                                              *)
(***************************************************************************)
EXTENDS Integers

CONSTANTS
  Nodes,         \* node ids
  Conns,         \* the connection_id objects of the agent handlers
  NoRuntime,     \* stands for a node id that latest_by_node does not hold
  NoPayload,     \* the snapshot register_hello makes up for a new node
  StaleAfter,    \* stale_after, in ticks
  OfflineAfter   \* offline_after, in ticks

\* Mutant of RegisterHello: a new connection inherits the old last_seq.
RegisterHelloKeepsSeq(runtimes, n, c) ==
  [runtimes EXCEPT ![n] =
     [ payload       |-> IF runtimes[n] = NoRuntime THEN NoPayload ELSE runtimes[n].payload,
       last_seq      |-> IF runtimes[n] = NoRuntime THEN 0 ELSE runtimes[n].last_seq,
       connected     |-> TRUE,
       age           |-> 0,
       connection_id |-> c ]]

\* register_hello resets last_seq for every hello, and keeps the snapshot of
\* a node it already knows.
RegisterHello(runtimes, n, c) ==
  [runtimes EXCEPT ![n] =
     [ payload       |-> IF runtimes[n] = NoRuntime THEN NoPayload ELSE runtimes[n].payload,
       last_seq      |-> 0,
       connected     |-> TRUE,
       age           |-> 0,
       connection_id |-> c ]]

\* Mutant of ConnectionMatches: the identity of the connection is not compared.
MatchesAnyConnection(runtime, c) == TRUE

ConnectionMatches(runtime, c) == runtime.connection_id = c

\* What ingest_sample returns.
Accepts(runtimes, n, c, seq) ==
  \/ runtimes[n] = NoRuntime
  \/ ConnectionMatches(runtimes[n], c) /\ seq > runtimes[n].last_seq

IngestSample(runtimes, n, c, seq, payload) ==
  IF Accepts(runtimes, n, c, seq)
  THEN [runtimes EXCEPT ![n] =
          [ payload       |-> payload,
            last_seq      |-> seq,
            connected     |-> TRUE,
            age           |-> 0,
            connection_id |-> c ]]
  ELSE runtimes

\* A heartbeat of a node the manager does not know registers it first.
KeepAlive(runtimes, n, c, seq) ==
  IF ConnectionMatches(runtimes[n], c)
  THEN [runtimes EXCEPT ![n] =
          [ payload       |-> @.payload,
            last_seq      |-> IF seq > @.last_seq THEN seq ELSE @.last_seq,
            connected     |-> TRUE,
            age           |-> 0,
            connection_id |-> @.connection_id ]]
  ELSE runtimes

IngestHeartbeat(runtimes, n, c, seq) ==
  KeepAlive(IF runtimes[n] = NoRuntime THEN RegisterHello(runtimes, n, c) ELSE runtimes,
            n, c, seq)

\* Mutant of Disconnect: whichever connection of the node ends takes it offline.
DisconnectAlways(runtimes, n, c) ==
  IF runtimes[n] # NoRuntime THEN [runtimes EXCEPT ![n].connected = FALSE] ELSE runtimes

\* Mutant of Disconnect: the runtime forgets which connection it had.
DisconnectForgets(runtimes, n, c) ==
  IF runtimes[n] # NoRuntime /\ ConnectionMatches(runtimes[n], c)
  THEN [runtimes EXCEPT ![n] =
          [ payload       |-> @.payload,
            last_seq      |-> @.last_seq,
            connected     |-> FALSE,
            age           |-> @.age,
            connection_id |-> NoRuntime ]]
  ELSE runtimes

Disconnect(runtimes, n, c) ==
  IF runtimes[n] # NoRuntime /\ ConnectionMatches(runtimes[n], c)
  THEN [runtimes EXCEPT ![n].connected = FALSE]
  ELSE runtimes

\* One tick of time.time() for every runtime.
Aged(runtimes) ==
  [n \in Nodes |->
     IF runtimes[n] = NoRuntime \/ runtimes[n].age > OfflineAfter
     THEN runtimes[n]
     ELSE [runtimes[n] EXCEPT !.age = @ + 1]]

\* _status: the order of the tests matters, an error shows only while fresh.
Status(runtime, hasError) ==
  IF ~runtime.connected \/ runtime.age > OfflineAfter THEN "offline"
  ELSE IF runtime.age > StaleAfter THEN "stale"
  ELSE IF hasError THEN "error" ELSE "online"

Runtimes(payloads, seqs) ==
  [ payload: payloads, last_seq: seqs, connected: BOOLEAN,
    age: 0 .. OfflineAfter + 1, connection_id: Conns ]
=============================================================================
