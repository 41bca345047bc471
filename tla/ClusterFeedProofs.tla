------------------------- MODULE ClusterFeedProofs -------------------------
(***************************************************************************)
(* Theorems about ClusterFeed for any number of nodes, connections and     *)
(* pages: its types, and that a page whose last_seq is current lacks       *)
(* nothing but the passing of time.                                        *)
(*                                                                         *)
(* The argument: a handler's last_seq is never past the counter (Behind)   *)
(* and starts below it, so a bump leaves every page behind; what does not  *)
(* bump the counter only lets runtimes grow older.                         *)
(***************************************************************************)
EXTENDS ClusterFeed, TLAPS

USE FeedAssumption, RuntimeAssumption

Known   == Cluster!Runtimes(Payloads, 0 .. MaxSeq)
MapType == [Nodes -> {NoRuntime} \cup Known]

LEMMA AgeType ==
  ASSUME NEW r \in Known
  PROVE  r.age \in Int /\ 0 <= r.age /\ r.age <= OfflineAfter + 1 /\ r # NoRuntime
BY DEF Known, Cluster!Runtimes

----------------------------------------------------------------------------
(* What the methods of ClusterState return *)

\* A runtime as a hello, a sample or a heartbeat leaves it.
LEMMA FreshRuntime ==
  ASSUME NEW p \in Payloads, NEW k \in 0 .. MaxSeq, NEW c \in Conns
  PROVE  LET r == [payload |-> p, last_seq |-> k, connected |-> TRUE, age |-> 0,
                   connection_id |-> c]
         IN  r \in Known /\ r.last_seq = k
<1>1. 0 \in 0 .. OfflineAfter + 1
  OBVIOUS
<1> QED BY <1>1 DEF Known, Cluster!Runtimes

LEMMA HelloType ==
  ASSUME NEW map \in MapType, NEW n \in Nodes, NEW c \in Conns
  PROVE  /\ Cluster!RegisterHello(map, n, c) \in MapType
         /\ Cluster!RegisterHello(map, n, c)[n] \in Known
         /\ Cluster!RegisterHello(map, n, c)[n].last_seq = 0
         /\ \A m \in Nodes \ {n} : Cluster!RegisterHello(map, n, c)[m] = map[m]
<1> DEFINE p == IF map[n] = NoRuntime THEN NoPayload ELSE map[n].payload
           r == [payload |-> p, last_seq |-> 0, connected |-> TRUE, age |-> 0,
                 connection_id |-> c]
<1>1. p \in Payloads
  BY DEF MapType, Known, Cluster!Runtimes, Payloads
<1>2. r \in Known /\ r.last_seq = 0
  BY <1>1, FreshRuntime
<1>3. Cluster!RegisterHello(map, n, c) = [map EXCEPT ![n] = r]
  BY DEF Cluster!RegisterHello
<1> QED BY <1>2, <1>3 DEF MapType

LEMMA SampleType ==
  ASSUME NEW map \in MapType, NEW n \in Nodes, NEW c \in Conns, NEW k \in 0 .. MaxSeq,
         NEW p \in Payloads, Cluster!Accepts(map, n, c, k)
  PROVE  /\ Cluster!IngestSample(map, n, c, k, p) \in MapType
         /\ Cluster!IngestSample(map, n, c, k, p)[n] \in Known
         /\ Cluster!IngestSample(map, n, c, k, p)[n].last_seq = k
         /\ \A m \in Nodes \ {n} : Cluster!IngestSample(map, n, c, k, p)[m] = map[m]
<1> DEFINE r == [payload |-> p, last_seq |-> k, connected |-> TRUE, age |-> 0,
                 connection_id |-> c]
<1>1. r \in Known /\ r.last_seq = k
  BY FreshRuntime
<1>2. Cluster!IngestSample(map, n, c, k, p) = [map EXCEPT ![n] = r]
  BY DEF Cluster!IngestSample
<1> QED BY <1>1, <1>2 DEF MapType

LEMMA KeepAliveType ==
  ASSUME NEW map \in MapType, NEW n \in Nodes, NEW c \in Conns, NEW k \in 0 .. MaxSeq,
         map[n] # NoRuntime, map[n].connection_id = c, k = map[n].last_seq + 1
  PROVE  /\ Cluster!KeepAlive(map, n, c, k) \in MapType
         /\ Cluster!KeepAlive(map, n, c, k)[n] \in Known
         /\ Cluster!KeepAlive(map, n, c, k)[n].last_seq = k
         /\ \A m \in Nodes \ {n} : Cluster!KeepAlive(map, n, c, k)[m] = map[m]
<1> DEFINE r == [payload |-> map[n].payload, last_seq |-> k, connected |-> TRUE, age |-> 0,
                 connection_id |-> c]
<1>0. map[n] \in Known
  BY DEF MapType
<1>1. map[n].payload \in Payloads /\ map[n].last_seq \in Int
  BY <1>0 DEF Known, Cluster!Runtimes
<1>2. r \in Known /\ r.last_seq = k
  BY <1>1, FreshRuntime
<1>3. k > map[n].last_seq
  BY <1>1
<1>4. Cluster!KeepAlive(map, n, c, k) = [map EXCEPT ![n] = r]
  BY <1>3 DEF Cluster!KeepAlive, Cluster!ConnectionMatches
<1> QED BY <1>2, <1>4 DEF MapType

LEMMA HeartbeatType ==
  ASSUME NEW map \in MapType, NEW n \in Nodes, NEW c \in Conns, NEW k \in 0 .. MaxSeq,
         map[n] # NoRuntime, map[n].connection_id = c, k = map[n].last_seq + 1
  PROVE  /\ Cluster!IngestHeartbeat(map, n, c, k) \in MapType
         /\ Cluster!IngestHeartbeat(map, n, c, k)[n] \in Known
         /\ Cluster!IngestHeartbeat(map, n, c, k)[n].last_seq = k
         /\ \A m \in Nodes \ {n} : Cluster!IngestHeartbeat(map, n, c, k)[m] = map[m]
BY KeepAliveType DEF Cluster!IngestHeartbeat

LEMMA DisconnectType ==
  ASSUME NEW map \in MapType, NEW n \in Nodes, NEW c \in Conns
  PROVE  /\ Cluster!Disconnect(map, n, c) \in MapType
         /\ \A m \in Nodes : Cluster!Disconnect(map, n, c)[m] # NoRuntime <=> map[m] # NoRuntime
         /\ \A m \in Nodes : map[m] # NoRuntime =>
              Cluster!Disconnect(map, n, c)[m].last_seq = map[m].last_seq
<1>1. CASE map[n] # NoRuntime /\ Cluster!ConnectionMatches(map[n], c)
  <2> DEFINE off == [map[n] EXCEPT !.connected = FALSE]
  <2>1. map[n] \in Known
    BY <1>1 DEF MapType
  <2>2. off \in Known /\ off.last_seq = map[n].last_seq
    BY <2>1 DEF Known, Cluster!Runtimes
  <2>3. Cluster!Disconnect(map, n, c) = [map EXCEPT ![n] = off]
    BY <1>1 DEF Cluster!Disconnect
  <2> QED BY <1>1, <2>2, <2>3, AgeType DEF MapType
<1>2. CASE ~ (map[n] # NoRuntime /\ Cluster!ConnectionMatches(map[n], c))
  BY <1>2 DEF Cluster!Disconnect
<1> QED BY <1>1, <1>2

\* A tick leaves of a runtime all but its age, which is the same or one more.
LEMMA AgedType ==
  ASSUME NEW map \in MapType
  PROVE  /\ Cluster!Aged(map) \in MapType
         /\ \A m \in Nodes : map[m] = NoRuntime => Cluster!Aged(map)[m] = NoRuntime
         /\ \A m \in Nodes : map[m] # NoRuntime =>
              \E age \in map[m].age .. map[m].age + 1 :
                /\ age \in 0 .. OfflineAfter + 1
                /\ Cluster!Aged(map)[m] = [map[m] EXCEPT !.age = age]
<1>1. ASSUME NEW m \in Nodes, map[m] # NoRuntime
      PROVE  \E age \in map[m].age .. map[m].age + 1 :
                /\ age \in 0 .. OfflineAfter + 1
                /\ Cluster!Aged(map)[m] = [map[m] EXCEPT !.age = age]
  <2>1. map[m] \in Known
    BY <1>1 DEF MapType
  <2>2. map[m].age \in Int /\ 0 <= map[m].age /\ map[m].age <= OfflineAfter + 1
    BY <2>1, AgeType
  <2>3. CASE map[m].age > OfflineAfter
    <3>1. Cluster!Aged(map)[m] = map[m]
      BY <2>3 DEF Cluster!Aged
    <3>2. [map[m] EXCEPT !.age = map[m].age] = map[m]
      BY <2>1 DEF Known, Cluster!Runtimes
    <3> QED BY <2>2, <3>1, <3>2
  <2>4. CASE ~ (map[m].age > OfflineAfter)
    <3>1. Cluster!Aged(map)[m] = [map[m] EXCEPT !.age = map[m].age + 1]
      BY <1>1, <2>4 DEF Cluster!Aged
    <3>2. /\ map[m].age + 1 \in map[m].age .. map[m].age + 1
          /\ map[m].age + 1 \in 0 .. OfflineAfter + 1
      BY <2>2, <2>4
    <3> QED BY <3>1, <3>2
  <2> QED BY <2>3, <2>4
<1>2. ASSUME NEW m \in Nodes, map[m] = NoRuntime PROVE Cluster!Aged(map)[m] = NoRuntime
  BY <1>2 DEF Cluster!Aged
<1>3. ASSUME NEW m \in Nodes PROVE Cluster!Aged(map)[m] \in {NoRuntime} \cup Known
  <2>1. CASE map[m] = NoRuntime
    BY <1>2, <2>1
  <2>2. CASE map[m] # NoRuntime
    <3>1. PICK age \in 0 .. OfflineAfter + 1 : Cluster!Aged(map)[m] = [map[m] EXCEPT !.age = age]
      BY <1>1, <2>2
    <3>2. map[m] \in Known
      BY <2>2 DEF MapType
    <3>3. [map[m] EXCEPT !.age = age] \in Known
      BY <3>2 DEF Known, Cluster!Runtimes
    <3> QED BY <3>1, <3>3
  <2> QED BY <2>1, <2>2
<1>4. Cluster!Aged(map) \in MapType
  <2>1. Cluster!Aged(map) = [m \in Nodes |-> Cluster!Aged(map)[m]]
    BY DEF Cluster!Aged
  <2> DEFINE aged == Cluster!Aged(map)
  <2>2. \A m \in Nodes : aged[m] \in {NoRuntime} \cup Known
    BY <1>3
  <2>3. aged = [m \in Nodes |-> aged[m]]
    BY <2>1
  <2> HIDE DEF aged
  <2>4. aged \in MapType
    BY <2>2, <2>3 DEF MapType
  <2> QED BY <2>4 DEF aged
<1> QED BY <1>1, <1>2, <1>4
----------------------------------------------------------------------------
(* Types *)

Entries == [payload: Payloads, status: {"online", "stale", "offline", "error"}]
Views   == [Nodes -> {Absent} \cup Entries]

LEMMA SnapshotType ==
  ASSUME TypeOK
  PROVE  Snapshot \in Views
<1>1. ASSUME NEW n \in Nodes, latest[n] # NoRuntime PROVE Entry(latest[n]) \in Entries
  <2>1. latest[n] \in Known
    BY <1>1 DEF TypeOK, Known
  <2>2. latest[n].payload \in Payloads
    BY <2>1 DEF Known, Cluster!Runtimes
  <2>3. \A e : Cluster!Status(latest[n], e) \in {"online", "stale", "offline", "error"}
    BY DEF Cluster!Status
  <2> QED BY <2>2, <2>3 DEF Entry, Entries
<1> QED BY <1>1 DEF Snapshot, Views

\* A node that a connection serves is known; no number of the map is past the
\* counter, nor is a handler's; a handler starts below it.
Behind ==
  /\ \A c \in Conns : serves[c] \in Nodes => latest[serves[c]] # NoRuntime
  /\ \A n \in Nodes : latest[n] # NoRuntime => latest[n].last_seq <= seq
  /\ \A w \in Watchers : last[w] <= seq
  /\ \A w \in Watchers : pc[w] = "closed" => last[w] = -1

LEMMA Numbers ==
  ASSUME TypeOK
  PROVE  /\ latest \in MapType
         /\ seq \in Int /\ 0 <= seq /\ seq <= MaxSeq
         /\ \A w \in Watchers : last[w] \in Int
         /\ \A n \in Nodes : latest[n] # NoRuntime =>
              latest[n] \in Known /\ latest[n].last_seq \in Int /\ 0 <= latest[n].last_seq
<1>1. latest \in MapType
  BY DEF TypeOK, MapType, Known
<1>2. \A r \in Known : r.last_seq \in Int /\ 0 <= r.last_seq
  BY DEF Known, Cluster!Runtimes
<1>3. \A n \in Nodes : latest[n] # NoRuntime => latest[n] \in Known
  BY <1>1 DEF MapType
<1> QED BY <1>1, <1>2, <1>3 DEF TypeOK

\* What a step of an agent's connection does to the map.
Told ==
  /\ latest' \in MapType
  /\ \A n \in Nodes : latest'[n] # NoRuntime => latest'[n].last_seq <= seq'
  /\ \A n \in Nodes : latest[n] # NoRuntime => latest'[n] # NoRuntime

LEMMA HelloTold ==
  ASSUME TypeOK, Behind, NEW c \in Conns, NEW n \in Nodes, Hello(c, n)
  PROVE  Told /\ latest'[n] # NoRuntime
<1>1. latest' = Cluster!RegisterHello(latest, n, c) /\ seq' = seq + 1
  BY DEF Hello, Bump
<1>2. /\ latest' \in MapType /\ latest'[n] \in Known /\ latest'[n].last_seq = 0
      /\ \A m \in Nodes \ {n} : latest'[m] = latest[m]
  BY <1>1, Numbers, HelloType
<1>3. latest'[n] # NoRuntime
  BY <1>2, AgeType
<1> QED BY <1>1, <1>2, <1>3, Numbers DEF Told, Behind

\* The number that follows the last one of a node.
LEMMA NextNumber ==
  ASSUME TypeOK, Behind, seq < MaxSeq, NEW n \in Nodes, latest[n] # NoRuntime
  PROVE  latest[n].last_seq + 1 \in 0 .. MaxSeq /\ latest[n].last_seq + 1 <= seq + 1
BY Numbers DEF Behind

LEMMA SampleTold ==
  ASSUME TypeOK, Behind, NEW c \in Conns, NEW p \in {"fine", "broken"}, Sample(c, p)
  PROVE  Told
<1> DEFINE n == serves[c]
           k == latest[n].last_seq + 1
<1>1. /\ n \in Nodes /\ latest[n] # NoRuntime /\ p \in Payloads
      /\ Cluster!Accepts(latest, n, c, k)
      /\ latest' = Cluster!IngestSample(latest, n, c, k, p)
      /\ seq' = seq + 1 /\ seq < MaxSeq
  BY DEF Sample, Bump, Behind, Payloads
<1>2. k \in 0 .. MaxSeq /\ k <= seq'
  BY <1>1, NextNumber
<1> HIDE DEF n, k
<1>3. /\ latest' \in MapType /\ latest'[n] \in Known /\ latest'[n].last_seq = k
      /\ \A m \in Nodes \ {n} : latest'[m] = latest[m]
  BY <1>1, <1>2, Numbers, SampleType
<1>4. latest'[n] # NoRuntime
  BY <1>3, AgeType
<1> QED BY <1>1, <1>2, <1>3, <1>4, Numbers DEF Told, Behind

LEMMA HeartbeatTold ==
  ASSUME TypeOK, Behind, NEW c \in Conns, Heartbeat(c)
  PROVE  Told
<1> DEFINE n == serves[c]
           k == latest[n].last_seq + 1
<1>1. /\ n \in Nodes /\ latest[n] # NoRuntime
      /\ latest[n].connection_id = c
      /\ latest' = Cluster!IngestHeartbeat(latest, n, c, k)
      /\ seq' = seq + 1 /\ seq < MaxSeq
  BY DEF Heartbeat, Bump, Behind, Cluster!ConnectionMatches
<1>2. k \in 0 .. MaxSeq /\ k <= seq' /\ k = latest[n].last_seq + 1
  BY <1>1, NextNumber
<1> HIDE DEF n, k
<1>3. /\ latest' \in MapType /\ latest'[n] \in Known /\ latest'[n].last_seq = k
      /\ \A m \in Nodes \ {n} : latest'[m] = latest[m]
  BY <1>1, <1>2, Numbers, HeartbeatType
<1>4. latest'[n] # NoRuntime
  BY <1>3, AgeType
<1> QED BY <1>1, <1>2, <1>3, <1>4, Numbers DEF Told, Behind

LEMMA DisconnectTold ==
  ASSUME TypeOK, Behind, NEW c \in Conns, Disconnect(c)
  PROVE  Told
<1>1. /\ serves[c] \in Nodes
      /\ latest' = Cluster!Disconnect(latest, serves[c], c)
      /\ seq' = seq + 1 \/ seq' = seq
  BY DEF Disconnect, Bump
<1>2. /\ latest' \in MapType
      /\ \A m \in Nodes : latest'[m] # NoRuntime => latest[m] # NoRuntime
      /\ \A m \in Nodes : latest[m] # NoRuntime => latest'[m].last_seq = latest[m].last_seq
      /\ \A m \in Nodes : latest[m] # NoRuntime => latest'[m] # NoRuntime
  BY <1>1, Numbers, DisconnectType
<1>3. \A m \in Nodes : latest[m] # NoRuntime => latest[m].last_seq <= seq /\ latest[m].last_seq \in Int
  BY Numbers DEF Behind
<1> QED BY <1>1, <1>2, <1>3, Numbers DEF Told

LEMMA TickTold ==
  ASSUME TypeOK, Behind, Tick
  PROVE  Told
<1>1. latest' = Cluster!Aged(latest) /\ seq' = seq
  BY DEF Tick
<1>2. ASSUME NEW m \in Nodes, latest[m] # NoRuntime
      PROVE  latest'[m] # NoRuntime /\ latest'[m].last_seq = latest[m].last_seq
  <2>1. PICK age \in 0 .. OfflineAfter + 1 : latest'[m] = [latest[m] EXCEPT !.age = age]
    BY <1>1, <1>2, Numbers, AgedType, SMTT(30)
  <2>2. latest[m] \in Known
    BY <1>2, Numbers
  <2>3. [latest[m] EXCEPT !.age = age] \in Known
        /\ [latest[m] EXCEPT !.age = age].last_seq = latest[m].last_seq
    BY <2>2 DEF Known, Cluster!Runtimes
  <2> QED BY <2>1, <2>3, AgeType
<1>3. \A m \in Nodes : latest[m] = NoRuntime => latest'[m] = NoRuntime
  BY <1>1, Numbers, AgedType
<1>4. latest' \in MapType
  BY <1>1, Numbers, AgedType
<1> QED BY <1>1, <1>2, <1>3, <1>4, Numbers DEF Told, Behind

\* An agent's connection either makes every page fall behind, or changes
\* nothing a page shows.
LEMMA AgentEffect ==
  ASSUME TypeOK, Behind, NEW c \in Conns, AgentStep(c)
  PROVE  /\ Told
         /\ UNCHANGED <<last, view, gone>>
         /\ Bump \/ UNCHANGED <<latest, seq, event, pc>>
         /\ serves' \in [Conns -> Nodes \cup {NoNode, Over}]
         /\ \A d \in Conns : serves'[d] \in Nodes => latest'[serves'[d]] # NoRuntime
<1> DEFINE Kept == \A d \in Conns : serves'[d] \in Nodes => latest'[serves'[d]] # NoRuntime
<1>0. serves \in [Conns -> Nodes \cup {NoNode, Over}]
  BY DEF TypeOK
<1>1. ASSUME NEW n \in Nodes, Hello(c, n)
      PROVE  Told /\ UNCHANGED <<last, view, gone>> /\ Bump
             /\ serves' \in [Conns -> Nodes \cup {NoNode, Over}] /\ Kept
  <2>1. Told /\ latest'[n] # NoRuntime
    BY <1>1, HelloTold
  <2>2. serves' = [serves EXCEPT ![c] = n] /\ UNCHANGED <<last, view, gone>> /\ Bump
    BY <1>1 DEF Hello
  <2>3. ASSUME NEW d \in Conns, serves'[d] \in Nodes PROVE latest'[serves'[d]] # NoRuntime
    <3>1. CASE d = c
      BY <1>0, <2>1, <2>2, <3>1
    <3>2. CASE d # c
      BY <1>0, <2>1, <2>2, <2>3, <3>2 DEF Told, Behind
    <3> QED BY <3>1, <3>2
  <2> QED BY <1>0, <2>1, <2>2, <2>3
<1>2. ASSUME UNCHANGED serves, Told PROVE Kept
  BY <1>2 DEF Told, Behind
<1>3. CASE \E p \in {"fine", "broken"} : Sample(c, p)
  <2>1. PICK p \in {"fine", "broken"} : Sample(c, p)
    BY <1>3
  <2>2. Told
    BY <2>1, SampleTold
  <2>3. UNCHANGED serves /\ UNCHANGED <<last, view, gone>> /\ Bump
    BY <2>1 DEF Sample
  <2> QED BY <1>0, <1>2, <2>2, <2>3
<1>4. CASE Heartbeat(c)
  <2>1. Told
    BY <1>4, HeartbeatTold
  <2>2. UNCHANGED serves /\ UNCHANGED <<last, view, gone>> /\ Bump
    BY <1>4 DEF Heartbeat
  <2> QED BY <1>0, <1>2, <2>1, <2>2
<1>5. CASE Disconnect(c)
  <2>1. Told
    BY <1>5, DisconnectTold
  <2>2. serves' = [serves EXCEPT ![c] = Over] /\ UNCHANGED <<last, view, gone>>
    BY <1>5 DEF Disconnect
  <2>3. Bump \/ UNCHANGED <<latest, seq, event, pc>>
    BY <1>5 DEF Disconnect, Cluster!Disconnect
  <2>4. ASSUME NEW d \in Conns, serves'[d] \in Nodes PROVE latest'[serves'[d]] # NoRuntime
    <3>1. d # c /\ serves'[d] = serves[d]
      BY <1>0, <2>2, <2>4
    <3> QED BY <2>1, <2>4, <3>1 DEF Told, Behind
  <2> QED BY <1>0, <2>1, <2>2, <2>3, <2>4
<1> QED BY <1>1, <1>3, <1>4, <1>5 DEF AgentStep

LEMMA BumpType ==
  ASSUME TypeOK, Bump
  PROVE  /\ seq' = seq + 1 /\ seq' \in 0 .. MaxSeq
         /\ event' \in BOOLEAN
         /\ pc' \in [Watchers -> {"closed", "polling", "checking", "entering", "waiting", "pacing"}]
         /\ \A w \in Watchers : pc'[w] = "closed" <=> pc[w] = "closed"
BY DEF TypeOK, Bump

\* A step of a page or of its handler, on the handler's variables.
LEMMA WatcherEffect ==
  ASSUME TypeOK, Behind, NEW w \in Watchers, Open(w) \/ Leave(w) \/ HandlerStep(w)
  PROVE  /\ UNCHANGED <<latest, seq, serves>>
         /\ event' \in BOOLEAN
         /\ gone' \in [Watchers -> BOOLEAN]
         /\ pc' \in [Watchers -> {"closed", "polling", "checking", "entering", "waiting", "pacing"}]
         /\ \A v \in Watchers \ {w} : pc'[v] = pc[v] /\ last'[v] = last[v] /\ view'[v] = view[v]
         /\ last' \in [Watchers -> -1 .. MaxSeq]
         /\ view' \in [Watchers -> Views]
         /\ last'[w] <= seq
         /\ pc'[w] = "closed" => last'[w] = -1
         /\ last'[w] = seq => (last[w] = seq /\ view'[w] = view[w]) \/ view'[w] = Snapshot
<1>0. /\ view \in [Watchers -> Views] /\ last \in [Watchers -> -1 .. MaxSeq]
      /\ Nothing \in Views /\ Snapshot \in Views
      /\ seq \in Int /\ 0 <= seq /\ seq <= MaxSeq /\ last[w] \in Int
      /\ last[w] <= seq /\ (pc[w] = "closed" => last[w] = -1)
  BY Numbers, SnapshotType DEF TypeOK, Views, Entries, Nothing, Behind
<1>1. CASE Poll(w)
  <2>1. CASE seq # last[w] /\ gone[w]
    <3>1. last'[w] = -1 /\ UNCHANGED <<latest, seq, serves>>
      BY <1>0, <1>1, <2>1 DEF Poll, mapVars
    <3>2. /\ view' = [view EXCEPT ![w] = Nothing] /\ last' = [last EXCEPT ![w] = -1]
          /\ pc' = [pc EXCEPT ![w] = "closed"] /\ UNCHANGED <<event, gone>>
      BY <1>1, <2>1 DEF Poll, mapVars
    <3>3. /\ view' \in [Watchers -> Views] /\ last' \in [Watchers -> -1 .. MaxSeq]
          /\ event' \in BOOLEAN /\ gone' \in [Watchers -> BOOLEAN]
          /\ pc' \in [Watchers -> {"closed", "polling", "checking", "entering", "waiting", "pacing"}]
      BY <1>0, <3>2 DEF TypeOK
    <3>4. \A v \in Watchers \ {w} : pc'[v] = pc[v] /\ last'[v] = last[v] /\ view'[v] = view[v]
      BY <1>0, <3>2 DEF TypeOK
    <3>5. last'[w] <= seq /\ last'[w] # seq
      BY <1>0, <3>1
    <3> QED BY <3>1, <3>3, <3>4, <3>5
  <2>2. CASE ~ (seq # last[w] /\ gone[w])
    <3>1. last'[w] = seq /\ pc'[w] = "checking"
      BY <1>0, <1>1, <2>2 DEF Poll, TypeOK
    <3>2. view' \in [Watchers -> Views]
      BY <1>0, <1>1, <2>2 DEF Poll
    <3>3. (last[w] = seq /\ view'[w] = view[w]) \/ view'[w] = Snapshot
      BY <1>0, <1>1, <2>2 DEF Poll
    <3>4. \A v \in Watchers \ {w} : view'[v] = view[v]
      BY <1>0, <1>1, <2>2 DEF Poll
    <3>5. /\ pc' = [pc EXCEPT ![w] = "checking"] /\ last' = [last EXCEPT ![w] = seq]
          /\ UNCHANGED <<latest, seq, serves, event, gone>>
      BY <1>1, <2>2 DEF Poll, mapVars
    <3>6. /\ last' \in [Watchers -> -1 .. MaxSeq]
          /\ event' \in BOOLEAN /\ gone' \in [Watchers -> BOOLEAN]
          /\ pc' \in [Watchers -> {"closed", "polling", "checking", "entering", "waiting", "pacing"}]
      BY <1>0, <3>5 DEF TypeOK
    <3>7. \A v \in Watchers \ {w} : pc'[v] = pc[v] /\ last'[v] = last[v]
      BY <3>5 DEF TypeOK
    <3> QED BY <1>0, <3>1, <3>2, <3>3, <3>4, <3>5, <3>6, <3>7
  <2> QED BY <2>1, <2>2
<1>2. CASE Open(w)
  BY <1>0, <1>2 DEF Open, mapVars, TypeOK
<1>3. CASE Leave(w)
  BY <1>0, <1>3 DEF Leave, mapVars, TypeOK
<1>4. CASE Check(w)
  BY <1>0, <1>4 DEF Check, TypeOK
<1>5. CASE Enter(w)
  BY <1>0, <1>5 DEF Enter, mapVars, TypeOK
<1>6. CASE TimeOut(w)
  BY <1>0, <1>6 DEF TimeOut, mapVars, TypeOK
<1>7. CASE Pace(w)
  BY <1>0, <1>7 DEF Pace, mapVars, TypeOK
<1> QED BY <1>1, <1>2, <1>3, <1>4, <1>5, <1>6, <1>7 DEF HandlerStep

\* Time passes in the map alone.
LEMMA TickEffect ==
  ASSUME TypeOK, Behind, Tick
  PROVE  Told /\ UNCHANGED <<seq, event, serves, pc, last, view, gone>>
BY TickTold DEF Tick, watcherVars

TypeInv == TypeOK /\ Behind

LEMMA InitTypes == Init => TypeInv
<1> SUFFICES ASSUME Init PROVE TypeInv
  OBVIOUS
<1>1. 0 \in 0 .. MaxSeq /\ -1 \in -1 .. MaxSeq /\ -1 <= 0
  OBVIOUS
<1> QED BY <1>1 DEF Init, TypeInv, TypeOK, Behind, Nothing

LEMMA NextTypes == TypeInv /\ [Next]_vars => TypeInv'
<1> SUFFICES ASSUME TypeOK, Behind, [Next]_vars PROVE TypeOK' /\ Behind'
  BY DEF TypeInv
<1>0. /\ \A w \in Watchers : last[w] \in Int /\ last[w] <= seq
      /\ seq \in Int
  BY Numbers DEF Behind
<1>1. CASE UNCHANGED vars
  BY <1>1 DEF vars, TypeOK, Behind
<1>2. ASSUME NEW c \in Conns, AgentStep(c) PROVE TypeOK' /\ Behind'
  <2>1. /\ Told /\ UNCHANGED <<last, view, gone>>
        /\ serves' \in [Conns -> Nodes \cup {NoNode, Over}]
        /\ \A d \in Conns : serves'[d] \in Nodes => latest'[serves'[d]] # NoRuntime
        /\ Bump \/ UNCHANGED <<latest, seq, event, pc>>
    BY <1>2, AgentEffect
  <2>2. /\ seq' \in 0 .. MaxSeq /\ seq <= seq'
        /\ event' \in BOOLEAN
        /\ pc' \in [Watchers -> {"closed", "polling", "checking", "entering", "waiting", "pacing"}]
        /\ \A w \in Watchers : pc'[w] = "closed" <=> pc[w] = "closed"
    <3>1. CASE Bump
      BY <1>0, <3>1, BumpType
    <3>2. CASE UNCHANGED <<latest, seq, event, pc>>
      BY <1>0, <3>2 DEF TypeOK
    <3> QED BY <2>1, <3>1, <3>2
  <2>3. TypeOK'
    BY <2>1, <2>2 DEF TypeOK, Told, MapType, Known
  <2>4. \A w \in Watchers : last'[w] <= seq'
    BY <1>0, <2>1, <2>2
  <2> QED BY <2>1, <2>2, <2>3, <2>4 DEF Behind, Told
<1>3. CASE Tick
  BY <1>3, TickEffect DEF TypeOK, Told, MapType, Known, Behind
<1>4. ASSUME NEW w \in Watchers, Open(w) \/ Leave(w) \/ HandlerStep(w) PROVE TypeOK' /\ Behind'
  <2>1. TypeOK'
    BY <1>4, WatcherEffect DEF TypeOK, Views, Entries
  <2>2. UNCHANGED <<latest, seq, serves>>
    BY <1>4, WatcherEffect
  <2>3. ASSUME NEW v \in Watchers PROVE last'[v] <= seq' /\ (pc'[v] = "closed" => last'[v] = -1)
    <3>1. CASE v = w
      BY <1>4, <2>2, <3>1, WatcherEffect
    <3>2. CASE v # w
      BY <1>0, <1>4, <2>2, <3>2, WatcherEffect DEF Behind
    <3> QED BY <3>1, <3>2
  <2> QED BY <2>1, <2>2, <2>3 DEF Behind
<1> QED BY <1>1, <1>2, <1>3, <1>4 DEF Next

\* Every variable stays in its domain, for any agents, pages and bounds.
THEOREM TypeCorrect == Spec => []TypeOK
<1>1. TypeInv => TypeOK
  BY DEF TypeInv
<1> QED BY <1>1, InitTypes, NextTypes, PTL DEF Spec
----------------------------------------------------------------------------
(* A page that has caught up *)

\* What could have been said of a node before a tick still can be said.
LEMMA SaidKept ==
  ASSUME TypeOK, Tick, NEW n \in Nodes, NEW entry, SaidSince(n, entry)
  PROVE  SaidSince(n, entry)'
<1>1. latest' = Cluster!Aged(latest) /\ latest \in MapType
  BY Numbers DEF Tick
<1>2. CASE latest[n] = NoRuntime
  BY <1>1, <1>2, AgedType DEF SaidSince
<1>3. CASE latest[n] # NoRuntime
  <2>1. PICK old \in 0 .. latest[n].age : entry = Entry([latest[n] EXCEPT !.age = old])
    BY <1>3 DEF SaidSince
  <2>2. latest[n] \in Known
    BY <1>3, Numbers
  <2>3. PICK age \in latest[n].age .. latest[n].age + 1 :
          /\ age \in 0 .. OfflineAfter + 1
          /\ latest'[n] = [latest[n] EXCEPT !.age = age]
    BY <1>1, <1>3, AgedType, ZenonT(30)
  <2>4. /\ latest'[n] \in Known /\ latest'[n].age = age
        /\ [latest'[n] EXCEPT !.age = old] = [latest[n] EXCEPT !.age = old]
    BY <2>2, <2>3 DEF Known, Cluster!Runtimes
  <2>5. old \in 0 .. latest'[n].age
    BY <2>1, <2>2, <2>3, <2>4, AgeType
  <2>6. entry = Entry([latest'[n] EXCEPT !.age = old])
    BY <2>1, <2>4
  <2>7. latest'[n] # NoRuntime
    BY <2>4, AgeType
  <2> QED BY <2>5, <2>6, <2>7 DEF SaidSince, Entry
<1> QED BY <1>2, <1>3

\* A snapshot says what can be said.
LEMMA SnapshotSaid ==
  ASSUME TypeOK, NEW n \in Nodes
  PROVE  SaidSince(n, Snapshot[n])
<1>1. CASE latest[n] = NoRuntime
  BY <1>1 DEF SaidSince, Snapshot
<1>2. CASE latest[n] # NoRuntime
  <2>1. latest[n] \in Known
    BY <1>2, Numbers
  <2>2. [latest[n] EXCEPT !.age = latest[n].age] = latest[n]
    BY <2>1 DEF Known, Cluster!Runtimes
  <2>3. latest[n].age \in 0 .. latest[n].age
    BY <2>1, AgeType
  <2>4. Snapshot[n] = Entry(latest[n])
    BY <1>2 DEF Snapshot
  <2> QED BY <1>2, <2>2, <2>3, <2>4 DEF SaidSince
<1> QED BY <1>1, <1>2

LEMMA CaughtUpKept == TypeInv /\ CaughtUpIsExact /\ [Next]_vars => CaughtUpIsExact'
<1> SUFFICES ASSUME TypeOK, Behind, CaughtUpIsExact, [Next]_vars,
                    NEW w \in Watchers, pc'[w] # "closed", last'[w] = seq',
                    NEW n \in Nodes
             PROVE  SaidSince(n, view[w][n])'
  BY DEF TypeInv, CaughtUpIsExact
<1>0. last[w] \in Int /\ last[w] <= seq /\ seq \in Int /\ (pc[w] = "closed" => last[w] = -1) /\ 0 <= seq
  BY Numbers DEF Behind
<1>1. CASE UNCHANGED vars
  BY <1>1 DEF vars, CaughtUpIsExact, SaidSince, Entry
<1>2. ASSUME NEW c \in Conns, AgentStep(c) PROVE SaidSince(n, view[w][n])'
  <2>1. UNCHANGED <<last, view>> /\ (Bump \/ UNCHANGED <<latest, seq, event, pc>>)
    BY <1>2, AgentEffect
  <2>2. UNCHANGED <<latest, seq, event, pc>>
    BY <1>0, <2>1 DEF Bump
  <2> QED BY <2>1, <2>2 DEF CaughtUpIsExact, SaidSince, Entry
<1>3. CASE Tick
  <2>1. UNCHANGED <<seq, pc, last, view>>
    BY <1>3, TickEffect
  <2>2. SaidSince(n, view[w][n])
    BY <2>1 DEF CaughtUpIsExact
  <2>3. view'[w][n] = view[w][n]
    BY <2>1
  <2> QED BY <1>3, <2>2, <2>3, SaidKept
<1>4. ASSUME NEW v \in Watchers, Open(v) \/ Leave(v) \/ HandlerStep(v)
      PROVE  SaidSince(n, view[w][n])'
  <2>1. /\ UNCHANGED <<latest, seq>>
        /\ \/ last[w] = seq /\ view'[w] = view[w]
           \/ view'[w] = Snapshot
    <3>1. CASE v = w
      BY <1>4, <3>1, WatcherEffect
    <3>2. CASE v # w
      BY <1>4, <3>2, WatcherEffect
    <3> QED BY <3>1, <3>2
  <2>2. SaidSince(n, view'[w][n])
    <3>1. CASE last[w] = seq /\ view'[w] = view[w]
      <4>1. pc[w] # "closed"
        BY <1>0, <3>1
      <4> QED BY <3>1, <4>1 DEF CaughtUpIsExact
    <3>2. CASE view'[w] = Snapshot
      BY <3>2, SnapshotSaid
    <3> QED BY <2>1, <3>1, <3>2
  <2> QED BY <2>1, <2>2 DEF SaidSince, Entry
<1> QED BY <1>1, <1>2, <1>3, <1>4 DEF Next

\* A page whose last_seq is the counter's lacks nothing but the passing of
\* time, for any number of pages that share the event, whatever the order of
\* their handlers and of the agents'.
THEOREM CaughtUpHolds == Spec => []CaughtUpIsExact
<1>1. Init => CaughtUpIsExact
  BY DEF Init, CaughtUpIsExact
<1> QED BY <1>1, InitTypes, NextTypes, CaughtUpKept, PTL DEF Spec, TypeInv
=============================================================================
