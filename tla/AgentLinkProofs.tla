-------------------------- MODULE AgentLinkProofs --------------------------
(***************************************************************************)
(* Proofs about AgentLink for every set of agents and nodes and every      *)
(* bound: its types, ConnectedWhileServed, that it implements              *)
(* NodeRegistry, ConfigReachesLink and OwnerNeverRejected.                 *)
(***************************************************************************)
EXTENDS AgentLink, TLAPS, SequenceTheorems

USE AgentsAssumption, BoundsAssumption, SettingsAssumption, RuntimeAssumption

\* A prefix of a sequence holds elements of the same set.
LEMMA PrefixType ==
  ASSUME NEW S, NEW s \in Seq(S), NEW p \in Prefixes(s)
  PROVE  p \in Seq(S)
<1>1. PICK k \in 0 .. Len(s) : p = SubSeq(s, 1, k)
  BY DEF Prefixes
<1>2. \A i \in 1 .. k : s[i] \in S
  BY <1>1
<1> QED BY <1>1, <1>2

\* What the ClusterState methods return is again a map to runtimes.
MapType == [Nodes -> {NoRuntime} \cup Cluster!Runtimes(Nat, Nat)]

LEMMA HelloType ==
  ASSUME NEW map \in MapType, NEW n \in Nodes, NEW c \in Conns
  PROVE  Cluster!RegisterHello(map, n, c) \in MapType
BY DEF MapType, Cluster!RegisterHello, Cluster!Runtimes

LEMMA SampleType ==
  ASSUME NEW map \in MapType, NEW n \in Nodes, NEW c \in Conns, NEW k \in Nat, NEW t \in Nat
  PROVE  Cluster!IngestSample(map, n, c, k, t) \in MapType
BY DEF MapType, Cluster!IngestSample, Cluster!Runtimes

LEMMA KeepAliveType ==
  ASSUME NEW map \in MapType, NEW n \in Nodes, map[n] # NoRuntime, NEW c \in Conns, NEW k \in Nat
  PROVE  Cluster!KeepAlive(map, n, c, k) \in MapType
BY DEF MapType, Cluster!KeepAlive, Cluster!Runtimes

LEMMA HeartbeatType ==
  ASSUME NEW map \in MapType, NEW n \in Nodes, NEW c \in Conns, NEW k \in Nat
  PROVE  Cluster!IngestHeartbeat(map, n, c, k) \in MapType
<1>1. CASE map[n] = NoRuntime
  <2>1. Cluster!RegisterHello(map, n, c)[n] \in Cluster!Runtimes(Nat, Nat)
    BY DEF MapType, Cluster!RegisterHello, Cluster!Runtimes
  <2> QED BY <1>1, <2>1, HelloType, KeepAliveType DEF Cluster!IngestHeartbeat
<1>2. CASE map[n] # NoRuntime
  BY <1>2, KeepAliveType DEF Cluster!IngestHeartbeat
<1> QED BY <1>1, <1>2

LEMMA DisconnectType ==
  ASSUME NEW map \in MapType, NEW n \in Nodes, NEW c \in Conns
  PROVE  Cluster!Disconnect(map, n, c) \in MapType
BY DEF MapType, Cluster!Disconnect, Cluster!Runtimes

\* A runtime is never the mark of an unknown node.
LEMMA RuntimeKnown ==
  ASSUME NEW p \in Nat, NEW k \in Nat, NEW c \in Conns
  PROVE  [payload |-> p, last_seq |-> k, connected |-> TRUE, age |-> 0,
          connection_id |-> c] # NoRuntime
<1>1. [payload |-> p, last_seq |-> k, connected |-> TRUE, age |-> 0,
       connection_id |-> c] \in Cluster!Runtimes(Nat, Nat)
  BY DEF Cluster!Runtimes
<1> QED BY <1>1

\* What a hello makes of its own node.
LEMMA HelloEffect ==
  ASSUME NEW map \in MapType, NEW n \in Nodes, NEW c \in Conns
  PROVE  \E p \in Nat : Cluster!RegisterHello(map, n, c) =
           [map EXCEPT ![n] = [payload |-> p, last_seq |-> 0, connected |-> TRUE, age |-> 0,
                               connection_id |-> c]]
<1>1. (IF map[n] = NoRuntime THEN 0 ELSE map[n].payload) \in Nat
  BY DEF MapType, Cluster!Runtimes
<1> QED BY <1>1 DEF Cluster!RegisterHello

\* A disconnect makes no node unknown and changes no owner.
LEMMA DisconnectEffect ==
  ASSUME latest \in MapType, NEW n \in Nodes, NEW c \in Conns,
         latest' = Cluster!Disconnect(latest, n, c),
         NEW m \in Nodes, latest[m] # NoRuntime
  PROVE  /\ latest'[m] # NoRuntime
         /\ latest'[m].connection_id = latest[m].connection_id
         /\ latest'[m].payload = latest[m].payload
         /\ latest'[m].last_seq = latest[m].last_seq
         /\ m = n /\ latest[m].connection_id = c => latest'[m].connected = FALSE
         /\ m # n \/ latest[m].connection_id # c => latest'[m].connected = latest[m].connected
<1> DEFINE off == [latest[m] EXCEPT !.connected = FALSE]
<1>1. latest[m] \in Cluster!Runtimes(Nat, Nat)
  BY DEF MapType
<1>2. /\ off \in Cluster!Runtimes(Nat, Nat)
      /\ off.connection_id = latest[m].connection_id
      /\ off.payload = latest[m].payload
      /\ off.last_seq = latest[m].last_seq
      /\ off.connected = FALSE
  BY <1>1 DEF Cluster!Runtimes
<1>3. off # NoRuntime
  BY <1>2
<1>4. CASE m = n /\ latest[m].connection_id = c
  <2>1. latest'[m] = off
    BY <1>4 DEF Cluster!Disconnect, Cluster!ConnectionMatches, MapType
  <2> QED BY <1>2, <1>3, <1>4, <2>1
<1>5. CASE ~ (m = n /\ latest[m].connection_id = c)
  <2>1. latest'[m] = latest[m]
    BY <1>5 DEF Cluster!Disconnect, Cluster!ConnectionMatches, MapType
  <2> QED BY <1>5, <2>1
<1> QED BY <1>4, <1>5

LEMMA DisconnectUnknown ==
  ASSUME NEW map \in MapType, NEW n \in Nodes, NEW c \in Conns,
         NEW m \in Nodes, map[m] = NoRuntime
  PROVE  Cluster!Disconnect(map, n, c)[m] = NoRuntime
BY DEF MapType, Cluster!Disconnect

----------------------------------------------------------------------------
(* Types *)

LEMMA ConfigType ==
  ASSUME NEW s \in Settings
  PROVE  Config(s) \in DownMessages
BY DEF Config, Settings, EffectiveProcess, Max2, DownMessages

\* A linked agent's connection, and what is put on either stream, are typed.
LEMMA ReplyType ==
  ASSUME TypeOK, NEW c \in Conns, NEW m \in DownMessages
  PROVE  Reply(c, m) \in [Conns -> Seq(DownMessages)]
BY DEF TypeOK, Reply

LEMMA TransmitType ==
  ASSUME TypeOK, NEW c \in Conns, NEW m \in UpMessages
  PROVE  Transmit(c, m) \in [Conns -> Seq(UpMessages)]
BY DEF TypeOK, Transmit

LEMMA LeaveLinkType ==
  ASSUME TypeOK, NEW a \in Agents, LeaveLink(a)
  PROVE  /\ link' \in [Agents -> Conns \cup {NoConn}]
         /\ uplink' \in [Conns -> Seq(UpMessages)]
         /\ downlink' \in [Conns -> Seq(DownMessages)]
<1>1. link[a] \in Conns
  BY DEF TypeOK, LeaveLink
<1>2. PICK p \in Prefixes(uplink[link[a]]) : uplink' = [uplink EXCEPT ![link[a]] = p]
  BY DEF LeaveLink
<1>3. p \in Seq(UpMessages)
  BY <1>1, <1>2, PrefixType DEF TypeOK
<1> QED BY <1>1, <1>2, <1>3 DEF TypeOK, LeaveLink

LEMMA EndHandlerType ==
  ASSUME TypeOK, NEW c \in Conns, EndHandler(c), peer[c] # NoAgent
  PROVE  /\ latest' \in [Nodes -> {NoRuntime} \cup Cluster!Runtimes(Nat, Nat)]
         /\ handler' \in [Conns -> {"unopened", "greeting", "serving", "closed"}]
         /\ uplink' \in [Conns -> Seq(UpMessages)]
         /\ downlink' \in [Conns -> Seq(DownMessages)]
<1>1. PICK p \in Prefixes(downlink[c]) : downlink' = [downlink EXCEPT ![c] = p]
  BY DEF EndHandler
<1>2. p \in Seq(DownMessages)
  BY <1>1, PrefixType DEF TypeOK
<1>3. Node(c) \in Nodes
  BY DEF TypeOK, Node
<1>4. Cluster!Disconnect(latest, Node(c), c) \in MapType
  BY <1>3, DisconnectType DEF TypeOK, MapType
<1>5. latest' \in MapType
  BY <1>4 DEF TypeOK, EndHandler, MapType
<1>6. handler' \in [Conns -> {"unopened", "greeting", "serving", "closed"}]
  BY DEF TypeOK, EndHandler
<1>7. uplink' \in [Conns -> Seq(UpMessages)]
  BY DEF TypeOK, EndHandler
<1> QED BY <1>1, <1>2, <1>5, <1>6, <1>7 DEF TypeOK, MapType

\* Connections are numbered in the order they are opened: one that is not yet
\* opened has no peer, and no agent or node refers to it.
OpenedOnly ==
  /\ \A c \in Conns : handler[c] # "unopened" => c <= opened /\ peer[c] # NoAgent
  /\ \A a \in Agents : link[a] <= opened
  /\ \A n \in Nodes : latest[n] # NoRuntime => latest[n].connection_id <= opened

TypeInv == TypeOK /\ OpenedOnly

LEMMA InitTypes == Init => TypeInv
BY DEF Init, TypeInv, TypeOK, OpenedOnly, Conns, NoConn, Settings

LEMMA NextTypes == TypeInv /\ [Next]_vars => TypeInv'
<1> SUFFICES ASSUME TypeInv, [Next]_vars PROVE TypeInv'
  OBVIOUS
<1> USE DEF TypeInv
<1>1. ASSUME NEW a \in Agents, Connect(a) PROVE TypeInv'
  <2>1. opened + 1 \in Conns
    BY <1>1 DEF Connect, TypeOK, Conns
  <2>2. <<Hello>> \in Seq(UpMessages)
    BY DEF UpMessages
  <2>3. TypeOK'
    BY <1>1, <2>1, <2>2 DEF Connect, TypeOK, Conns
  <2>4. OpenedOnly'
    <3>1. \A n \in Nodes : latest'[n] # NoRuntime => latest'[n].connection_id \in Conns
      BY <2>3 DEF TypeOK, Cluster!Runtimes
    <3>2. \A n \in Nodes : latest'[n] # NoRuntime => latest'[n].connection_id <= opened'
      BY <1>1, <3>1 DEF Connect, OpenedOnly, TypeOK, Conns
    <3>3. \A b \in Agents : link'[b] <= opened'
      <4>1. link' = [link EXCEPT ![a] = opened + 1] /\ opened' = opened + 1
        BY <1>1 DEF Connect
      <4>2. ASSUME NEW b \in Agents PROVE link[b] \in Int /\ opened \in Int /\ link[b] <= opened
        BY DEF OpenedOnly, TypeOK, Conns, NoConn
      <4> QED BY <4>1, <4>2 DEF TypeOK
    <3>4. \A c \in Conns : handler'[c] # "unopened" => c <= opened' /\ peer'[c] # NoAgent
      BY <1>1, <2>1 DEF Connect, OpenedOnly, TypeOK, Conns
    <3> QED BY <3>2, <3>3, <3>4 DEF OpenedOnly
  <2> QED BY <2>3, <2>4
<1>2. ASSUME NEW a \in Agents, TakeSample(a) PROVE TypeInv'
  BY <1>2 DEF TakeSample, TypeOK, OpenedOnly, mgrVars, netVars
<1>3. ASSUME NEW a \in Agents, SendSample(a) PROVE TypeInv'
  <2>1. link[a] \in Conns
    BY <1>3 DEF SendSample, TypeOK
  <2>2. Sample(msg_seq[a] + 1, snap[a]) \in UpMessages
    BY <1>3 DEF SendSample, TypeOK, Sample, UpMessages
  <2>3. uplink' \in [Conns -> Seq(UpMessages)]
    BY <1>3, <2>1, <2>2, TransmitType DEF SendSample
  <2>4. TypeOK'
    BY <1>3, <2>3 DEF SendSample, TypeOK, mgrVars, countVars
  <2>5. OpenedOnly'
    BY <1>3, <2>1 DEF SendSample, OpenedOnly, mgrVars
  <2> QED BY <2>4, <2>5
<1>4. ASSUME NEW a \in Agents, SendHeartbeat(a) PROVE TypeInv'
  <2>1. link[a] \in Conns
    BY <1>4 DEF SendHeartbeat, TypeOK
  <2>2. Heartbeat(msg_seq[a] + 1) \in UpMessages
    BY <1>4 DEF SendHeartbeat, TypeOK, Heartbeat, UpMessages
  <2>3. uplink' \in [Conns -> Seq(UpMessages)]
    BY <1>4, <2>1, <2>2, TransmitType DEF SendHeartbeat
  <2>4. TypeOK'
    BY <1>4, <2>3 DEF SendHeartbeat, TypeOK, mgrVars
  <2>5. OpenedOnly'
    BY <1>4, <2>1 DEF SendHeartbeat, OpenedOnly, mgrVars
  <2> QED BY <2>4, <2>5
<1>5. ASSUME NEW a \in Agents, ReceiveReply(a) PROVE TypeInv'
  <2> DEFINE m == Head(downlink[link[a]])
  <2>1. link[a] \in Conns /\ m \in DownMessages
    BY <1>5 DEF ReceiveReply, TypeOK
  <2>2. downlink' \in [Conns -> Seq(DownMessages)]
    BY <1>5, <2>1 DEF ReceiveReply, TypeOK
  <2>3. m.type = "config" =>
          [refresh |-> m.refresh, process |-> Max2(MinProcess, m.process)] \in Settings
    BY <2>1 DEF DownMessages, Settings, Max2
  <2>4. applied' \in [Agents -> Settings]
    BY <1>5, <2>3 DEF ReceiveReply, TypeOK
  <2>5. TypeOK'
    BY <1>5, <2>2, <2>4 DEF ReceiveReply, TypeOK, mgrVars, countVars
  <2>6. OpenedOnly'
    BY <1>5 DEF ReceiveReply, OpenedOnly, mgrVars
  <2> QED BY <2>5, <2>6
<1>6. ASSUME NEW a \in Agents, DropLink(a) \/ NoticeClose(a) \/ RestartAgent(a) PROVE TypeInv'
  <2>1. LeaveLink(a) /\ link[a] \in Conns
    BY <1>6 DEF DropLink, NoticeClose, RestartAgent, LeaveLink, TypeOK
  <2>2. TypeOK'
    <3>1. /\ link' \in [Agents -> Conns \cup {NoConn}]
          /\ uplink' \in [Conns -> Seq(UpMessages)]
          /\ downlink' \in [Conns -> Seq(DownMessages)]
      BY <2>1, LeaveLinkType
    <3>2. CASE DropLink(a)
      BY <3>1, <3>2 DEF DropLink, TypeOK, mgrVars
    <3>3. CASE NoticeClose(a)
      BY <3>1, <3>3 DEF NoticeClose, TypeOK, mgrVars, countVars
    <3>4. CASE RestartAgent(a)
      BY <3>1, <3>4 DEF RestartAgent, TypeOK, mgrVars
    <3> QED BY <1>6, <3>2, <3>3, <3>4
  <2>3. opened' = opened /\ latest' = latest /\ handler' = handler /\ peer' = peer
    BY <1>6 DEF DropLink, NoticeClose, RestartAgent, mgrVars
  <2>4. OpenedOnly'
    BY <2>1, <2>3 DEF LeaveLink, OpenedOnly, TypeOK, NoConn, Conns
  <2> QED BY <2>2, <2>4
<1>7. ASSUME NEW c \in Conns, ServeHello(c) PROVE TypeInv'
  <2>1. peer[c] \in Agents /\ Node(c) \in Nodes /\ c <= opened
    BY <1>7 DEF ServeHello, TypeOK, OpenedOnly, Node
  <2>2. latest' \in MapType
    BY <1>7, <2>1, HelloType DEF ServeHello, TypeOK, MapType
  <2>3. downlink' \in [Conns -> Seq(DownMessages)]
    BY <1>7, ConfigType, ReplyType DEF ServeHello, TypeOK
  <2>4. TypeOK'
    <3>1. uplink' \in [Conns -> Seq(UpMessages)]
      BY <1>7 DEF ServeHello, TypeOK
    <3>2. handler' \in [Conns -> {"unopened", "greeting", "serving", "closed"}]
      BY <1>7 DEF ServeHello, TypeOK
    <3> QED BY <1>7, <2>2, <2>3, <3>1, <3>2 DEF ServeHello, TypeOK, MapType, agentVars, countVars
  <2>5. OpenedOnly'
    BY <1>7, <2>1 DEF ServeHello, TypeOK, OpenedOnly, agentVars, Cluster!RegisterHello
  <2> QED BY <2>4, <2>5
<1>8. ASSUME NEW c \in Conns, ServeSample(c) PROVE TypeInv'
  <2> DEFINE m == Head(uplink[c])
  <2>1. peer[c] \in Agents /\ Node(c) \in Nodes /\ c <= opened
    BY <1>8 DEF ServeSample, Serving, TypeOK, OpenedOnly, Node
  <2>2. m \in UpMessages /\ m.type = "sample"
    BY <1>8 DEF ServeSample, TypeOK
  <2>3. m.seq \in Nat /\ m.sampled_at \in Nat
    BY <2>2 DEF UpMessages, Hello
  <2>4. latest' \in MapType
    BY <1>8, <2>1, <2>3, SampleType DEF ServeSample, TypeOK, MapType
  <2>5. downlink' \in [Conns -> Seq(DownMessages)]
    <3>1. Ack(m.seq) \in DownMessages
      BY <2>3 DEF Ack, DownMessages
    <3> QED BY <1>8, <3>1, ReplyType DEF ServeSample
  <2>6. TypeOK'
    BY <1>8, <2>4, <2>5 DEF ServeSample, TypeOK, MapType, agentVars, countVars
  <2>7. OpenedOnly'
    BY <1>8, <2>1 DEF ServeSample, TypeOK, OpenedOnly, agentVars, Cluster!IngestSample
  <2> QED BY <2>6, <2>7
<1>9. ASSUME NEW c \in Conns, ServeHeartbeat(c) PROVE TypeInv'
  <2> DEFINE m == Head(uplink[c])
  <2>1. peer[c] \in Agents /\ Node(c) \in Nodes /\ c <= opened
    BY <1>9 DEF ServeHeartbeat, Serving, TypeOK, OpenedOnly, Node
  <2>2. m \in UpMessages /\ m.type = "heartbeat"
    BY <1>9 DEF ServeHeartbeat, TypeOK
  <2>3. m.seq \in Nat
    BY <2>2 DEF UpMessages, Hello
  <2>4. latest' \in MapType
    BY <1>9, <2>1, <2>3, HeartbeatType DEF ServeHeartbeat, TypeOK, MapType
  <2>5. downlink' \in [Conns -> Seq(DownMessages)]
    <3>1. Ack(m.seq) \in DownMessages
      BY <2>3 DEF Ack, DownMessages
    <3> QED BY <1>9, <3>1, ReplyType DEF ServeHeartbeat
  <2>6. TypeOK'
    BY <1>9, <2>4, <2>5 DEF ServeHeartbeat, TypeOK, MapType, agentVars, countVars
  <2>7. OpenedOnly'
    BY <1>9, <2>1 DEF ServeHeartbeat, TypeOK, OpenedOnly, agentVars,
                      Cluster!IngestHeartbeat, Cluster!KeepAlive, Cluster!RegisterHello
  <2> QED BY <2>6, <2>7
<1>10. ASSUME NEW c \in Conns, ReadDisconnect(c) \/ PeerTimeout(c) PROVE TypeInv'
  <2>1. EndHandler(c) /\ peer[c] \in Agents /\ Node(c) \in Nodes /\ c <= opened
    BY <1>10 DEF ReadDisconnect, PeerTimeout, EndHandler, Registered, TypeOK, OpenedOnly, Node
  <2>2. TypeOK'
    <3>1. /\ latest' \in [Nodes -> {NoRuntime} \cup Cluster!Runtimes(Nat, Nat)]
          /\ handler' \in [Conns -> {"unopened", "greeting", "serving", "closed"}]
          /\ uplink' \in [Conns -> Seq(UpMessages)]
          /\ downlink' \in [Conns -> Seq(DownMessages)]
      BY <2>1, EndHandlerType
    <3> QED BY <1>10, <3>1 DEF ReadDisconnect, PeerTimeout, TypeOK, agentVars, countVars
  <2>3. peer' = peer /\ opened' = opened /\ link' = link
    BY <1>10 DEF ReadDisconnect, PeerTimeout, agentVars
  <2>4. OpenedOnly'
    BY <2>1, <2>3, SMTT(30) DEF EndHandler, TypeOK, OpenedOnly, Cluster!Disconnect, Cluster!Runtimes
  <2> QED BY <2>2, <2>4
<1>11. ASSUME UpdateSettings PROVE TypeInv'
  <2>1. settings' \in Settings
    BY <1>11 DEF UpdateSettings, Patched, Settings, TypeOK, Max2
  <2>2. downlink' \in [Conns -> Seq(DownMessages)]
    BY <1>11, <2>1, ConfigType DEF UpdateSettings, TypeOK
  <2>3. TypeOK'
    BY <1>11, <2>1, <2>2 DEF UpdateSettings, TypeOK, agentVars
  <2>4. OpenedOnly'
    BY <1>11 DEF UpdateSettings, OpenedOnly, agentVars
  <2> QED BY <2>3, <2>4
<1>12. ASSUME RestartManager PROVE TypeInv'
  <2>1. TypeOK'
    BY <1>12 DEF RestartManager, TypeOK, agentVars, Registered
  <2>2. OpenedOnly'
    BY <1>12 DEF RestartManager, TypeOK, OpenedOnly, agentVars, Registered
  <2> QED BY <2>1, <2>2
<1>13. CASE UNCHANGED vars
  BY <1>13 DEF vars, mgrVars, netVars, agentVars, countVars, TypeOK, OpenedOnly
<1> QED
  BY <1>1, <1>2, <1>3, <1>4, <1>5, <1>6, <1>7, <1>8, <1>9, <1>10, <1>11, <1>12, <1>13
  DEF Next, AgentStep, HandlerStep

\* The types hold in every reachable state, whatever the agents do.
THEOREM TypeCorrect == Spec => []TypeOK
<1>1. Init => TypeInv
  BY InitTypes
<1>2. TypeInv /\ [Next]_vars => TypeInv'
  BY NextTypes
<1>3. TypeInv => TypeOK
  BY DEF TypeInv
<1> QED BY <1>1, <1>2, <1>3, PTL DEF Spec

----------------------------------------------------------------------------
(* A node is connected exactly while its owner is served *)

\* The manager knows the node of every handler that serves one.
ServedKnown == \A c \in Conns : Serving(c) => latest[Node(c)] # NoRuntime

OwnerInv == TypeInv /\ ServedKnown /\ ConnectedWhileServed

LEMMA OwnedRuntime ==
  ASSUME TypeOK, NEW n \in Nodes, latest[n] # NoRuntime
  PROVE  /\ latest[n] \in Cluster!Runtimes(Nat, Nat)
         /\ latest[n].connection_id \in Conns
         /\ latest[n].connected \in BOOLEAN
         /\ latest[n].last_seq \in Nat
         /\ latest[n].payload \in Nat
BY DEF TypeOK, Cluster!Runtimes

\* On a serving handler a sample changes at most its own node's runtime, and
\* leaves that node connected to this very connection.
LEMMA ServeSampleEffect ==
  ASSUME OwnerInv, NEW c \in Conns, ServeSample(c)
  PROVE  \/ latest' = latest
         \/ /\ latest[Node(c)].connection_id = c
            /\ Head(uplink[c]).seq > latest[Node(c)].last_seq
            /\ latest' = [latest EXCEPT ![Node(c)] =
                 [payload |-> Head(uplink[c]).sampled_at, last_seq |-> Head(uplink[c]).seq,
                  connected |-> TRUE, age |-> 0, connection_id |-> c]]
BY DEF OwnerInv, ServedKnown, ServeSample, Cluster!IngestSample, Cluster!Accepts,
       Cluster!ConnectionMatches

LEMMA ServeHeartbeatEffect ==
  ASSUME OwnerInv, NEW c \in Conns, ServeHeartbeat(c)
  PROVE  \/ latest' = latest
         \/ /\ latest[Node(c)].connection_id = c
            /\ latest' = [latest EXCEPT ![Node(c)] =
                 [payload |-> latest[Node(c)].payload,
                  last_seq |-> IF Head(uplink[c]).seq > latest[Node(c)].last_seq
                               THEN Head(uplink[c]).seq ELSE latest[Node(c)].last_seq,
                  connected |-> TRUE, age |-> 0, connection_id |-> c]]
<1>1. Node(c) \in Nodes /\ latest[Node(c)] # NoRuntime
  BY DEF OwnerInv, TypeInv, TypeOK, OpenedOnly, ServedKnown, ServeHeartbeat, Serving, Node
<1>2. latest' = Cluster!KeepAlive(latest, Node(c), c, Head(uplink[c]).seq)
  BY <1>1 DEF ServeHeartbeat, Cluster!IngestHeartbeat
<1>3. CASE latest[Node(c)].connection_id = c
  BY <1>1, <1>2, <1>3 DEF Cluster!KeepAlive, Cluster!ConnectionMatches, OwnerInv, TypeInv, TypeOK
<1>4. CASE latest[Node(c)].connection_id # c
  BY <1>2, <1>4 DEF Cluster!KeepAlive, Cluster!ConnectionMatches
<1> QED BY <1>3, <1>4

LEMMA SampleMessage ==
  ASSUME TypeOK, NEW c \in Conns, ServeSample(c)
  PROVE  Head(uplink[c]).seq \in Nat /\ Head(uplink[c]).sampled_at \in Nat
<1>1. Head(uplink[c]) \in UpMessages /\ Head(uplink[c]).type = "sample"
  BY DEF ServeSample, TypeOK
<1> QED BY <1>1 DEF UpMessages, Hello

LEMMA HeartbeatMessage ==
  ASSUME TypeOK, NEW c \in Conns, ServeHeartbeat(c)
  PROVE  Head(uplink[c]).seq \in Nat
<1>1. Head(uplink[c]) \in UpMessages /\ Head(uplink[c]).type = "heartbeat"
  BY DEF ServeHeartbeat, TypeOK
<1> QED BY <1>1 DEF UpMessages, Hello

LEMMA InitOwner == Init => OwnerInv
BY InitTypes DEF OwnerInv, Init, ServedKnown, ConnectedWhileServed, Serving

LEMMA NextOwner == OwnerInv /\ [Next]_vars => OwnerInv'
<1> SUFFICES ASSUME OwnerInv, [Next]_vars PROVE OwnerInv'
  OBVIOUS
<1> USE DEF OwnerInv
<1>0. TypeInv' /\ TypeOK' /\ TypeOK /\ latest \in MapType
  BY NextTypes DEF TypeInv, TypeOK, MapType
<1>1. CASE UNCHANGED <<latest, handler, peer>>
  BY <1>0, <1>1 DEF ServedKnown, ConnectedWhileServed, Serving, Node
<1>2. ASSUME NEW a \in Agents, Connect(a) PROVE OwnerInv'
  <2> DEFINE c == opened + 1
  <2>1. /\ c \in Conns
        /\ latest' = latest
        /\ handler' = [handler EXCEPT ![c] = "greeting"]
        /\ peer' = [peer EXCEPT ![c] = a]
    BY <1>0, <1>2 DEF Connect, TypeOK, Conns
  <2>2. handler[c] = "unopened"
    BY <1>0, <2>1 DEF TypeInv, OpenedOnly, TypeOK
  <2>3. ASSUME NEW n \in Nodes, latest[n] # NoRuntime PROVE latest[n].connection_id # c
    <3>1. latest[n].connection_id \in Conns /\ latest[n].connection_id <= opened
      BY <1>0, <2>3, OwnedRuntime DEF TypeInv, OpenedOnly
    <3> QED BY <1>0, <3>1 DEF TypeOK, Conns
  <2>4. ServedKnown'
    BY <1>0, <2>1 DEF ServedKnown, Serving, Node, TypeOK
  <2>5. ConnectedWhileServed'
    BY <1>0, <2>1, <2>3, OwnedRuntime DEF ConnectedWhileServed, Serving, Node, TypeOK
  <2> QED BY <1>0, <2>4, <2>5
<1>3. ASSUME NEW c \in Conns, ServeHello(c) PROVE OwnerInv'
  <2>1. /\ peer[c] # NoAgent
        /\ Node(c) \in Nodes
        /\ handler[c] = "greeting"
        /\ handler' = [handler EXCEPT ![c] = "serving"]
        /\ peer' = peer
    BY <1>0, <1>3 DEF ServeHello, TypeInv, OpenedOnly, TypeOK, Node
  <2>2. PICK r : /\ latest' = [latest EXCEPT ![Node(c)] = r]
                 /\ r.connected = TRUE
                 /\ r.connection_id = c
                 /\ r # NoRuntime
    <3>1. PICK p \in Nat : latest' =
            [latest EXCEPT ![Node(c)] = [payload |-> p, last_seq |-> 0, connected |-> TRUE,
                                         age |-> 0, connection_id |-> c]]
      BY <1>0, <1>3, <2>1, HelloEffect DEF ServeHello
    <3> DEFINE r == [payload |-> p, last_seq |-> 0, connected |-> TRUE, age |-> 0,
                     connection_id |-> c]
    <3>2. r # NoRuntime /\ r.connected = TRUE /\ r.connection_id = c
      BY RuntimeKnown
    <3>3. latest' = [latest EXCEPT ![Node(c)] = r]
      BY <3>1
    <3> HIDE DEF r
    <3> QED BY <3>2, <3>3
  <2>3. latest'[Node(c)] # NoRuntime
    BY <1>0, <2>1, <2>2 DEF TypeOK
  <2>4. ServedKnown'
    BY <1>0, <2>1, <2>2, <2>3, SMTT(30) DEF ServedKnown, Serving, Node, TypeOK
  <2>5. ASSUME NEW n \in Nodes, latest'[n] # NoRuntime
        PROVE  LET d == latest'[n].connection_id IN
               peer'[d] # NoAgent /\ NodeOf[peer'[d]] = n /\ (latest'[n].connected <=> handler'[d] = "serving")
    <3>1. CASE n = Node(c)
      BY <1>0, <2>1, <2>2, <3>1 DEF TypeOK, Node
    <3>2. CASE n # Node(c)
      <4>1. latest'[n] = latest[n]
        BY <1>0, <2>1, <2>2, <3>2 DEF TypeOK
      <4>2. latest[n].connection_id # c
        BY <2>5, <3>2, <4>1 DEF ConnectedWhileServed
      <4> QED BY <1>0, <2>1, <2>5, <4>1, <4>2, OwnedRuntime, ZenonT(30) DEF ConnectedWhileServed, Serving, Node, TypeOK
    <3> QED BY <3>1, <3>2
  <2>6. ConnectedWhileServed'
    BY <2>5 DEF ConnectedWhileServed, Serving, Node
  <2> QED BY <1>0, <2>4, <2>6
<1>4. ASSUME NEW c \in Conns, ServeSample(c) \/ ServeHeartbeat(c) PROVE OwnerInv'
  <2>1. /\ handler[c] = "serving"
        /\ handler' = handler
        /\ peer' = peer
        /\ Node(c) \in Nodes
    BY <1>0, <1>4 DEF ServeSample, ServeHeartbeat, Serving, agentVars, TypeInv, OpenedOnly, TypeOK, Node
  <2>2. CASE latest' = latest
    BY <1>1, <2>1, <2>2
  <2>3. CASE \E r : /\ latest[Node(c)].connection_id = c
                    /\ latest' = [latest EXCEPT ![Node(c)] = r]
                    /\ r.connected = TRUE
                    /\ r.connection_id = c
                    /\ r # NoRuntime
    <3>1. PICK r : /\ latest[Node(c)].connection_id = c
                   /\ latest' = [latest EXCEPT ![Node(c)] = r]
                   /\ r.connected = TRUE
                   /\ r.connection_id = c
                   /\ r # NoRuntime
      BY <2>3
    <3>2. ServedKnown'
      BY <1>0, <2>1, <3>1 DEF ServedKnown, Serving, Node, TypeOK
    <3>3. ConnectedWhileServed'
      BY <1>0, <2>1, <3>1 DEF ConnectedWhileServed, ServedKnown, Serving, Node, TypeOK
    <3> QED BY <1>0, <3>2, <3>3
  <2> QED
    <3>1. CASE ServeSample(c)
      <4>1. Head(uplink[c]).seq \in Nat /\ Head(uplink[c]).sampled_at \in Nat
        BY <1>0, <3>1, SampleMessage
      <4> DEFINE r == [payload |-> Head(uplink[c]).sampled_at, last_seq |-> Head(uplink[c]).seq,
                       connected |-> TRUE, age |-> 0, connection_id |-> c]
      <4>2. r # NoRuntime /\ r.connected = TRUE /\ r.connection_id = c
        BY <4>1, RuntimeKnown
      <4>3. \/ latest' = latest
            \/ latest[Node(c)].connection_id = c /\ latest' = [latest EXCEPT ![Node(c)] = r]
        BY <3>1, ServeSampleEffect
      <4> HIDE DEF r
      <4> QED BY <2>2, <2>3, <4>2, <4>3
    <3>2. CASE ServeHeartbeat(c)
      <4> DEFINE k == IF Head(uplink[c]).seq > latest[Node(c)].last_seq
                      THEN Head(uplink[c]).seq ELSE latest[Node(c)].last_seq
      <4>1. Head(uplink[c]).seq \in Nat
        BY <1>0, <3>2, HeartbeatMessage
      <4>2. latest[Node(c)] # NoRuntime
        BY <2>1 DEF ServedKnown, Serving
      <4>3. latest[Node(c)].payload \in Nat /\ k \in Nat
        BY <1>0, <2>1, <4>1, <4>2, OwnedRuntime
      <4> DEFINE r == [payload |-> latest[Node(c)].payload, last_seq |-> k,
                       connected |-> TRUE, age |-> 0, connection_id |-> c]
      <4>4. r # NoRuntime /\ r.connected = TRUE /\ r.connection_id = c
        BY <4>3, RuntimeKnown
      <4>5. \/ latest' = latest
            \/ latest[Node(c)].connection_id = c /\ latest' = [latest EXCEPT ![Node(c)] = r]
        BY <3>2, ServeHeartbeatEffect
      <4> HIDE DEF r
      <4> QED BY <2>2, <2>3, <4>4, <4>5
    <3> QED BY <1>4, <3>1, <3>2
<1>5. ASSUME NEW c \in Conns, ReadDisconnect(c) \/ PeerTimeout(c) PROVE OwnerInv'
  <2>1. /\ EndHandler(c)
        /\ handler' = [handler EXCEPT ![c] = "closed"]
        /\ peer' = peer
        /\ peer[c] # NoAgent
        /\ Node(c) \in Nodes
    BY <1>0, <1>5 DEF ReadDisconnect, PeerTimeout, EndHandler, Registered, TypeInv, OpenedOnly, TypeOK, Node
  <2>2. \/ latest' = latest /\ ~Serving(c)
        \/ latest' = Cluster!Disconnect(latest, Node(c), c) /\ Serving(c)
    BY <2>1 DEF EndHandler
  <2>3. ASSUME NEW n \in Nodes, latest[n] = NoRuntime PROVE latest'[n] = NoRuntime
    BY <1>0, <2>1, <2>2, <2>3, DisconnectUnknown
  <2>4. ASSUME NEW n \in Nodes, latest[n] # NoRuntime
        PROVE  /\ latest'[n] # NoRuntime
               /\ latest'[n].connection_id = latest[n].connection_id
               /\ latest'[n].connected <=> latest[n].connected /\ latest[n].connection_id # c
    <3>1. /\ latest[n].connection_id = c => n = Node(c)
          /\ latest[n].connected <=> Serving(latest[n].connection_id)
      BY <2>4 DEF ConnectedWhileServed
    <3>2. CASE Serving(c)
      <4>1. latest' = Cluster!Disconnect(latest, Node(c), c)
        BY <2>2, <3>2
      <4>2. /\ latest'[n] # NoRuntime
            /\ latest'[n].connection_id = latest[n].connection_id
            /\ n = Node(c) /\ latest[n].connection_id = c => latest'[n].connected = FALSE
            /\ n # Node(c) \/ latest[n].connection_id # c
                 => latest'[n].connected = latest[n].connected
        BY <1>0, <2>1, <2>4, <4>1, DisconnectEffect
      <4>3. CASE n = Node(c) /\ latest[n].connection_id = c
        BY <4>2, <4>3
      <4>4. CASE ~ (n = Node(c) /\ latest[n].connection_id = c)
        BY <3>1, <4>2, <4>4
      <4> QED BY <4>3, <4>4
    <3>3. CASE ~Serving(c)
      BY <2>2, <2>4, <3>1, <3>3
    <3> QED BY <3>2, <3>3
  <2>5. ServedKnown'
    <3> SUFFICES ASSUME NEW d \in Conns, Serving(d)' PROVE latest'[Node(d)'] # NoRuntime
      BY DEF ServedKnown
    <3>1. Serving(d) /\ Node(d)' = Node(d)
      BY <1>0, <2>1 DEF Serving, Node, TypeOK
    <3>2. Node(d) \in Nodes
      BY <1>0, <3>1 DEF TypeInv, OpenedOnly, TypeOK, Serving, Node
    <3> QED BY <2>4, <3>1, <3>2 DEF ServedKnown
  <2>6. ConnectedWhileServed'
    <3> SUFFICES ASSUME NEW n \in Nodes, latest'[n] # NoRuntime
                 PROVE  LET d == latest'[n].connection_id IN
                        /\ peer'[d] # NoAgent
                        /\ NodeOf[peer'[d]] = n
                        /\ latest'[n].connected <=> handler'[d] = "serving"
      BY DEF ConnectedWhileServed, Serving, Node
    <3>1. latest[n] # NoRuntime
      BY <2>3
    <3>2. latest[n].connection_id \in Conns
      BY <1>0, <3>1, OwnedRuntime
    <3> QED BY <1>0, <2>1, <2>4, <3>1, <3>2, ZenonT(30) DEF ConnectedWhileServed, Serving, Node, TypeOK
  <2> QED BY <1>0, <2>5, <2>6
<1>6. ASSUME RestartManager PROVE OwnerInv'
  BY <1>0, <1>6 DEF RestartManager, ServedKnown, ConnectedWhileServed, Serving, Registered
<1>7. ASSUME Next, ~ \E a \in Agents : Connect(a), ~ RestartManager,
             ~ \E c \in Conns : \/ ServeHello(c) \/ ServeSample(c) \/ ServeHeartbeat(c)
                               \/ ReadDisconnect(c) \/ PeerTimeout(c)
      PROVE  UNCHANGED <<latest, handler, peer>>
  BY <1>7 DEF Next, AgentStep, HandlerStep, TakeSample, SendSample, SendHeartbeat, ReceiveReply,
              DropLink, NoticeClose, RestartAgent, UpdateSettings, mgrVars, netVars
<1>8. CASE UNCHANGED vars
  BY <1>1, <1>8 DEF vars, mgrVars, netVars
<1> QED BY <1>1, <1>2, <1>3, <1>4, <1>5, <1>6, <1>7, <1>8

\* Stated by ConnectedWhileServed, of ClusterState and the agent_ws handlers.
THEOREM ConnectedIsServed == Spec => []ConnectedWhileServed
<1>1. OwnerInv => ConnectedWhileServed
  BY DEF OwnerInv
<1> QED BY <1>1, InitOwner, NextOwner, PTL DEF Spec

----------------------------------------------------------------------------
(* The manager implements NodeRegistry *)

LEMMA RegistryInit == Init => Registry!Init
BY DEF Init, Registry!Init, Phase, Serving, Known, Owner, Online, Floor, Shown

\* A step that touches neither the map nor a handler shows nothing.
LEMMA RegistryStutter ==
  ASSUME UNCHANGED <<latest, handler>>
  PROVE  UNCHANGED Registry!vars
BY DEF Registry!vars, Phase, Serving, Known, Owner, Online, Floor, Shown

LEMMA RegistryClaim ==
  ASSUME OwnerInv, NEW c \in Conns, ServeHello(c)
  PROVE  Registry!Next
<1> USE DEF OwnerInv, TypeInv
<1> DEFINE n == Node(c)
<1>1. /\ n \in Nodes
      /\ handler[c] = "greeting"
      /\ handler' = [handler EXCEPT ![c] = "serving"]
      /\ latest \in MapType
      /\ handler \in [Conns -> {"unopened", "greeting", "serving", "closed"}]
  BY DEF ServeHello, OpenedOnly, TypeOK, Node, MapType
<1>2. latest' = [latest EXCEPT ![n] =
        [payload |-> IF latest[n] = NoRuntime THEN 0 ELSE latest[n].payload,
         last_seq |-> 0, connected |-> TRUE, age |-> 0, connection_id |-> c]]
  BY DEF ServeHello, Cluster!RegisterHello
<1>3. latest'[n] # NoRuntime
  <2>1. (IF latest[n] = NoRuntime THEN 0 ELSE latest[n].payload) \in Nat
    BY <1>1, OwnedRuntime
  <2> QED BY <1>1, <1>2, <2>1, RuntimeKnown DEF MapType
<1> HIDE DEF n
<1>4. \A m \in Nodes : m # n => latest'[m] = latest[m]
  BY <1>1, <1>2 DEF MapType
<1>5. /\ latest'[n].connection_id = c
      /\ latest'[n].connected = TRUE
      /\ latest'[n].last_seq = 0
      /\ latest'[n].payload = IF latest[n] = NoRuntime THEN 0 ELSE latest[n].payload
  BY <1>1, <1>2 DEF MapType
<1>6. Registry!Claim(c, n)
  BY <1>1, <1>3, <1>4, <1>5
  DEF Registry!Claim, Phase, Serving, Known, Owner, Online, Floor, Shown
<1>7. \E d \in Conns, k \in Nodes : Registry!Claim(d, k)
  BY <1>1, <1>6
<1> QED BY <1>7 DEF Registry!Next

LEMMA RegistryShow ==
  ASSUME OwnerInv, NEW c \in Conns, ServeSample(c)
  PROVE  Registry!Next \/ UNCHANGED Registry!vars
<1> USE DEF OwnerInv, TypeInv
<1> DEFINE m == Head(uplink[c])
<1>0. PICK n \in Nodes : n = Node(c)
  BY DEF ServeSample, Serving, OpenedOnly, TypeOK, Node
<1>1. /\ Serving(c)
      /\ handler' = handler
      /\ latest[n] # NoRuntime
      /\ latest \in MapType
  BY <1>0 DEF ServeSample, Serving, OpenedOnly, TypeOK, Node, MapType, ServedKnown, agentVars
<1>2. CASE latest' = latest
  BY <1>1, <1>2, RegistryStutter
<1>3. CASE /\ latest[n].connection_id = c
           /\ m.seq > latest[n].last_seq
           /\ latest' = [latest EXCEPT ![n] =
                [payload |-> m.sampled_at, last_seq |-> m.seq,
                 connected |-> TRUE, age |-> 0, connection_id |-> c]]
  <2>1. m.seq \in Nat /\ m.sampled_at \in Nat
    BY SampleMessage
  <2> DEFINE r == [payload |-> m.sampled_at, last_seq |-> m.seq,
                   connected |-> TRUE, age |-> 0, connection_id |-> c]
  <2>2. r # NoRuntime
    BY <2>1, RuntimeKnown
  <2>3. /\ latest' = [latest EXCEPT ![n] = r]
        /\ r.connection_id = c /\ r.connected = TRUE /\ r.last_seq = m.seq
    BY <1>3
  <2>4. latest[n].connected = TRUE
    BY <1>1, <1>3, OwnedRuntime DEF ConnectedWhileServed
  <2> HIDE DEF m, r
  <2>5. \A k \in Nodes : k # n => latest'[k] = latest[k]
    BY <1>1, <2>3 DEF MapType
  <2>6. latest'[n] = r
    BY <1>1, <2>3 DEF MapType
  <2>7. \A k \in Nodes : Owner(k)' = Owner(k) /\ (Online(k)' <=> Online(k))
    BY <1>1, <1>3, <2>2, <2>3, <2>4, <2>5, <2>6 DEF Owner, Online, Known
  <2>8. \A k \in Nodes : k # n => Floor(k)' = Floor(k) /\ Shown(k)' = Shown(k)
    BY <2>5 DEF Floor, Shown, Known
  <2>9. Floor(n)' > Floor(n)
    <3>1. Floor(n)' = m.seq
      BY <2>2, <2>3, <2>6 DEF Floor, Known
    <3>2. Floor(n) = latest[n].last_seq
      BY <1>1 DEF Floor, Known
    <3> QED BY <1>3, <3>1, <3>2
  <2>10. Owner(n) = c /\ c # NoConn /\ Phase(c) = "claimed"
    BY <1>1, <1>3 DEF Owner, Known, Phase, NoConn, Conns
  <2>11. Registry!Show(n)
    BY <1>1, <2>7, <2>8, <2>9, <2>10 DEF Registry!Show, Registry!Owned, Phase, Serving, Online
  <2>12. \E k \in Nodes : Registry!Show(k)
    BY <1>1, <2>11
  <2> QED BY <2>12 DEF Registry!Next
<1> QED BY <1>0, <1>2, <1>3, ServeSampleEffect

LEMMA RegistryBeat ==
  ASSUME OwnerInv, NEW c \in Conns, ServeHeartbeat(c)
  PROVE  Registry!Next \/ UNCHANGED Registry!vars
<1> USE DEF OwnerInv, TypeInv
<1>0. PICK n \in Nodes : n = Node(c)
  BY DEF ServeHeartbeat, Serving, OpenedOnly, TypeOK, Node
<1> DEFINE k == IF Head(uplink[c]).seq > latest[n].last_seq
                THEN Head(uplink[c]).seq ELSE latest[n].last_seq
<1>1. /\ Serving(c)
      /\ handler' = handler
      /\ latest[n] # NoRuntime
      /\ latest \in MapType
  BY <1>0 DEF ServeHeartbeat, Serving, OpenedOnly, TypeOK, Node, MapType, ServedKnown, agentVars
<1>2. CASE latest' = latest
  BY <1>1, <1>2, RegistryStutter
<1>3. CASE /\ latest[n].connection_id = c
           /\ latest' = [latest EXCEPT ![n] =
                [payload |-> latest[n].payload, last_seq |-> k,
                 connected |-> TRUE, age |-> 0, connection_id |-> c]]
  <2>1. /\ latest[n].payload \in Nat
        /\ latest[n].last_seq \in Nat
        /\ k \in Nat /\ k >= latest[n].last_seq
    BY <1>1, HeartbeatMessage, OwnedRuntime
  <2> DEFINE r == [payload |-> latest[n].payload, last_seq |-> k,
                   connected |-> TRUE, age |-> 0, connection_id |-> c]
  <2>2. r # NoRuntime
    BY <2>1, RuntimeKnown
  <2>3. /\ latest' = [latest EXCEPT ![n] = r]
        /\ r.connection_id = c /\ r.connected = TRUE /\ r.last_seq = k
        /\ r.payload = latest[n].payload
    BY <1>3
  <2>4. latest[n].connected = TRUE
    BY <1>1, <1>3, OwnedRuntime DEF ConnectedWhileServed
  <2> HIDE DEF k, r
  <2>5. \A j \in Nodes : j # n => latest'[j] = latest[j]
    BY <1>1, <2>3 DEF MapType
  <2>6. latest'[n] = r
    BY <1>1, <2>3 DEF MapType
  <2>7. \A j \in Nodes : /\ Owner(j)' = Owner(j)
                         /\ Online(j)' <=> Online(j)
                         /\ Shown(j)' = Shown(j)
    BY <1>1, <1>3, <2>2, <2>3, <2>4, <2>5, <2>6 DEF Owner, Online, Shown, Known
  <2>8. \A j \in Nodes : j # n => Floor(j)' = Floor(j)
    BY <2>5 DEF Floor, Known
  <2>9. Floor(n)' >= Floor(n)
    <3>1. Floor(n)' = k
      BY <2>2, <2>3, <2>6 DEF Floor, Known
    <3>2. Floor(n) = latest[n].last_seq
      BY <1>1 DEF Floor, Known
    <3> QED BY <2>1, <3>1, <3>2
  <2>10. Owner(n) = c /\ c # NoConn /\ Phase(c) = "claimed"
    BY <1>1, <1>3 DEF Owner, Known, Phase, NoConn, Conns
  <2>11. Registry!Beat(n)
    BY <1>1, <2>7, <2>8, <2>9, <2>10 DEF Registry!Beat, Registry!Owned, Phase, Serving, Online
  <2>12. \E j \in Nodes : Registry!Beat(j)
    BY <1>1, <2>11
  <2> QED BY <2>12 DEF Registry!Next
<1> QED BY <1>0, <1>2, <1>3, ServeHeartbeatEffect

LEMMA RegistryEnd ==
  ASSUME OwnerInv, NEW c \in Conns, EndHandler(c)
  PROVE  Registry!Next
<1> USE DEF OwnerInv, TypeInv
<1>1. /\ Node(c) \in Nodes
      /\ handler' = [handler EXCEPT ![c] = "closed"]
      /\ handler \in [Conns -> {"unopened", "greeting", "serving", "closed"}]
      /\ handler[c] \in {"greeting", "serving"}
      /\ latest \in MapType
  BY DEF EndHandler, Registered, OpenedOnly, TypeOK, Node, MapType
<1>2. CASE Serving(c)
  <2>1. latest' = Cluster!Disconnect(latest, Node(c), c)
    BY <1>2 DEF EndHandler
  <2>2. ASSUME NEW n \in Nodes PROVE latest'[n] # NoRuntime <=> latest[n] # NoRuntime
    BY <1>1, <2>1, DisconnectEffect, DisconnectUnknown
  <2>3. ASSUME NEW n \in Nodes, latest[n] # NoRuntime
        PROVE  /\ latest'[n].connection_id = latest[n].connection_id
               /\ latest'[n].payload = latest[n].payload
               /\ latest'[n].last_seq = latest[n].last_seq
               /\ latest'[n].connected <=> latest[n].connected /\ latest[n].connection_id # c
    <3>1. latest[n].connection_id = c => n = Node(c)
      BY <2>3 DEF ConnectedWhileServed
    <3>2. CASE latest[n].connection_id = c
      BY <1>1, <2>1, <2>3, <3>1, <3>2, DisconnectEffect
    <3>3. CASE latest[n].connection_id # c
      BY <1>1, <2>1, <2>3, <3>3, DisconnectEffect
    <3> QED BY <3>2, <3>3
  <2>4. Registry!Leave(c)
    <3>1. [d \in Conns |-> Phase(d)]' = [[d \in Conns |-> Phase(d)] EXCEPT ![c] = "over"]
      BY <1>1 DEF Phase, Serving
    <3>2. Phase(c) = "claimed"
      BY <1>2 DEF Phase
    <3>3. ASSUME NEW n \in Nodes PROVE Online(n)' <=> Online(n) /\ Owner(n) # c
      BY <2>2, <2>3 DEF Online, Owner, Known
    <3>4. ASSUME NEW n \in Nodes
          PROVE  Owner(n)' = Owner(n) /\ Floor(n)' = Floor(n) /\ Shown(n)' = Shown(n)
      BY <2>2, <2>3 DEF Owner, Floor, Shown, Known
    <3> QED BY <3>1, <3>2, <3>3, <3>4 DEF Registry!Leave, Online
  <2> QED BY <2>4 DEF Registry!Next
<1>3. CASE ~Serving(c)
  <2>1. latest' = latest
    BY <1>3 DEF EndHandler
  <2>2. Registry!Abandon(c)
    BY <1>1, <1>3, <2>1 DEF Registry!Abandon, Phase, Serving, Owner, Online, Floor, Shown, Known
  <2> QED BY <2>2 DEF Registry!Next
<1> QED BY <1>2, <1>3

LEMMA RegistryLose ==
  ASSUME OwnerInv, RestartManager
  PROVE  Registry!Next
<1>1. Registry!Lose
  BY DEF OwnerInv, TypeInv, TypeOK, RestartManager, Registered, Registry!Lose, Phase, Serving,
         Known, Owner, Online, Floor, Shown
<1> QED BY <1>1 DEF Registry!Next

LEMMA RegistryNext == OwnerInv /\ [Next]_vars => [Registry!Next]_(Registry!vars)
<1> SUFFICES ASSUME OwnerInv, [Next]_vars PROVE Registry!Next \/ UNCHANGED Registry!vars
  OBVIOUS
<1>1. ASSUME NEW a \in Agents, Connect(a) PROVE UNCHANGED Registry!vars
  <2>1. opened + 1 \in Conns /\ handler[opened + 1] = "unopened"
    BY <1>1 DEF Connect, OwnerInv, TypeInv, OpenedOnly, TypeOK, Conns
  <2> QED BY <1>1, <2>1 DEF Connect, OwnerInv, TypeInv, TypeOK, Registry!vars,
                                Phase, Serving, Known, Owner, Online, Floor, Shown
<1>2. ASSUME NEW c \in Conns, ReadDisconnect(c) \/ PeerTimeout(c) PROVE Registry!Next
  BY <1>2, RegistryEnd DEF ReadDisconnect, PeerTimeout
<1>3. ASSUME Next, ~ \E a \in Agents : Connect(a), ~ RestartManager,
             ~ \E c \in Conns : \/ ServeHello(c) \/ ServeSample(c) \/ ServeHeartbeat(c)
                               \/ ReadDisconnect(c) \/ PeerTimeout(c)
      PROVE  UNCHANGED <<latest, handler>>
  BY <1>3 DEF Next, AgentStep, HandlerStep, TakeSample, SendSample, SendHeartbeat, ReceiveReply,
              DropLink, NoticeClose, RestartAgent, UpdateSettings, mgrVars
<1>4. CASE UNCHANGED vars
  BY <1>4, RegistryStutter DEF vars, mgrVars
<1> QED
  BY <1>1, <1>2, <1>3, <1>4, RegistryStutter, RegistryClaim, RegistryShow, RegistryBeat,
     RegistryLose

\* Stated by ImplementsRegistry: to the dashboard, every behaviour of agents,
\* connections and handlers is one of the registry.
THEOREM RegistryImplemented == Spec => ImplementsRegistry
<1>1. Init => Registry!Init
  BY RegistryInit
<1>2. OwnerInv /\ [Next]_vars => [Registry!Next]_(Registry!vars)
  BY RegistryNext
<1> QED BY <1>1, <1>2, InitOwner, NextOwner, PTL DEF Spec, ImplementsRegistry, Registry!Spec
----------------------------------------------------------------------------
(* The newest config says what the settings are *)

\* The settings never list processes faster than the samplers do.
Floored == settings.process >= MinProcess

\* An agent's connection is one it opened itself.
LinkPeer == \A a \in Agents : link[a] # NoConn => peer[link[a]] = a

ConfigInv == TypeInv /\ LinkPeer /\ Floored /\ ConfigReachesLink

LEMMA InitLinkPeer == Init => LinkPeer
BY DEF Init, LinkPeer

LEMMA NextLinkPeer == TypeInv /\ LinkPeer /\ [Next]_vars => LinkPeer'
<1> SUFFICES ASSUME TypeInv, LinkPeer, [Next]_vars, NEW b \in Agents, link'[b] # NoConn
             PROVE  peer'[link'[b]] = b
  BY DEF LinkPeer
<1>1. CASE link'[b] = link[b] /\ peer' = peer
  BY <1>1 DEF LinkPeer
<1>2. ASSUME NEW a \in Agents, Connect(a) PROVE peer'[link'[b]] = b
  <2>1. opened + 1 \in Conns
    BY <1>2 DEF Connect, TypeInv, TypeOK, Conns
  <2>2. CASE b = a
    BY <1>2, <2>1, <2>2 DEF Connect, TypeInv, TypeOK
  <2>3. CASE b # a
    <3>1. link'[b] = link[b] /\ link[b] \in Conns /\ link[b] # opened + 1
      BY <1>2, <2>3 DEF Connect, TypeInv, TypeOK, OpenedOnly, Conns
    <3> QED BY <1>2, <3>1 DEF Connect, LinkPeer, TypeInv, TypeOK
  <2> QED BY <2>2, <2>3
<1>3. ASSUME NEW a \in Agents, DropLink(a) \/ NoticeClose(a) \/ RestartAgent(a)
      PROVE  link'[b] = link[b] /\ peer' = peer
  BY <1>3 DEF DropLink, NoticeClose, RestartAgent, LeaveLink, TypeInv, TypeOK
<1>4. CASE UNCHANGED vars
  BY <1>1, <1>4 DEF vars, netVars, agentVars
<1>5. ASSUME Next, ~ \E a \in Agents : \/ Connect(a) \/ DropLink(a) \/ NoticeClose(a)
                                       \/ RestartAgent(a)
      PROVE  UNCHANGED <<link, peer>>
  BY <1>5 DEF Next, AgentStep, HandlerStep, TakeSample, SendSample, SendHeartbeat, ReceiveReply,
              ServeHello, ServeSample, ServeHeartbeat, ReadDisconnect, PeerTimeout,
              UpdateSettings, RestartManager, agentVars, netVars
<1> QED BY <1>1, <1>2, <1>3, <1>4, <1>5

\* What ConfigReachesLink says of one connection, with its queue and what its
\* agent has applied.
Reaches(messages, app, s) ==
  \/ /\ \A i \in 1 .. Len(messages) : messages[i].type # "config"
     /\ app.refresh = s.refresh
     /\ EffectiveProcess(app) = EffectiveProcess(s)
  \/ \E i \in 1 .. Len(messages) :
       /\ messages[i] = Config(s)
       /\ \A j \in i + 1 .. Len(messages) : messages[j].type # "config"

\* The manager's minimum of the process interval is the receiver's floor and the
\* refresh interval: applying both again changes nothing.
LEMMA EffectiveFloored ==
  ASSUME NEW s \in Settings, s.process >= MinProcess
  PROVE  Max2(MinProcess, EffectiveProcess(s)) = EffectiveProcess(s)
<1>1. s.process \in Nat /\ s.refresh \in Refreshes
  BY DEF Settings
<1>2. s.refresh \in Nat /\ MinProcess \in Nat
  BY <1>1
<1> QED BY <1>1, <1>2 DEF Max2, EffectiveProcess

LEMMA EffectiveStable ==
  ASSUME NEW s \in Settings, NEW t, t.refresh = s.refresh, t.process = EffectiveProcess(s)
  PROVE  EffectiveProcess(t) = EffectiveProcess(s)
<1>1. s.process \in Nat /\ s.refresh \in Refreshes
  BY DEF Settings
<1>2. s.refresh \in Nat
  BY <1>1
<1> QED BY <1>1, <1>2 DEF Max2, EffectiveProcess

LEMMA ReachesIs ==
  ConfigReachesLink <=>
    \A c \in Conns : Serving(c) /\ Linked(c) => Reaches(downlink[c], applied[peer[c]], settings)
BY DEF ConfigReachesLink, Reaches, Applies

\* A config at the end of a queue is the newest one.
LEMMA ConfigAppended ==
  ASSUME NEW messages \in Seq(DownMessages), NEW app, NEW s \in Settings
  PROVE  Reaches(Append(messages, Config(s)), app, s)
<1> DEFINE longer == Append(messages, Config(s))
<1>1. /\ Len(longer) = Len(messages) + 1 /\ Len(messages) \in Nat
      /\ longer[Len(messages) + 1] = Config(s)
  BY ConfigType
<1>2. \A j \in Len(longer) + 1 .. Len(longer) : longer[j].type # "config"
  BY <1>1
<1> HIDE DEF longer
<1>3. Len(longer) \in 1 .. Len(longer) /\ longer[Len(longer)] = Config(s)
  BY <1>1
<1>4. Reaches(longer, app, s)
  BY <1>2, <1>3 DEF Reaches
<1> QED BY <1>4 DEF longer

\* An acknowledgement is not a config.
LEMMA AckAppended ==
  ASSUME NEW messages \in Seq(DownMessages), NEW app, NEW k \in Nat,
         NEW s, Reaches(messages, app, s)
  PROVE  Reaches(Append(messages, Ack(k)), app, s)
<1> DEFINE longer == Append(messages, Ack(k))
<1>0. Ack(k) \in DownMessages /\ Ack(k).type # "config"
  BY DEF Ack, DownMessages
<1>1. /\ Len(longer) = Len(messages) + 1 /\ Len(messages) \in Nat
      /\ longer[Len(messages) + 1].type # "config"
      /\ \A i \in 1 .. Len(messages) : longer[i] = messages[i]
  BY <1>0
<1> HIDE DEF longer
<1>2. CASE \A i \in 1 .. Len(messages) : messages[i].type # "config"
  <2>1. \A i \in 1 .. Len(longer) : longer[i].type # "config"
    BY <1>1, <1>2
  <2>2. ~ \E i \in 1 .. Len(messages) : messages[i] = Config(s)
    BY <1>2 DEF Config
  <2>3. Reaches(longer, app, s)
    BY <2>1, <2>2 DEF Reaches
  <2> QED BY <2>3 DEF longer
<1>3. CASE \E i \in 1 .. Len(messages) :
             /\ messages[i] = Config(s)
             /\ \A j \in i + 1 .. Len(messages) : messages[j].type # "config"
  <2>1. PICK i \in 1 .. Len(messages) :
             /\ messages[i] = Config(s)
             /\ \A j \in i + 1 .. Len(messages) : messages[j].type # "config"
    BY <1>3
  <2>2. /\ i \in 1 .. Len(longer) /\ longer[i] = Config(s)
        /\ \A j \in i + 1 .. Len(longer) : longer[j].type # "config"
    BY <1>1, <2>1
  <2>3. Reaches(longer, app, s)
    BY <2>2 DEF Reaches
  <2> QED BY <2>3 DEF longer
<1> QED BY <1>2, <1>3 DEF Reaches

\* The receiver takes up the head of the queue.
LEMMA ConfigTaken ==
  ASSUME NEW messages \in Seq(DownMessages), messages # << >>, NEW app, NEW s \in Settings,
         s.process >= MinProcess, Reaches(messages, app, s)
  PROVE  Reaches(Tail(messages),
                 IF Head(messages).type = "config"
                 THEN [refresh |-> Head(messages).refresh,
                       process |-> Max2(MinProcess, Head(messages).process)]
                 ELSE app, s)
<1> DEFINE rest == Tail(messages)
           next == IF Head(messages).type = "config"
                   THEN [refresh |-> Head(messages).refresh,
                         process |-> Max2(MinProcess, Head(messages).process)]
                   ELSE app
<1>1. /\ Len(messages) \in Nat /\ Len(rest) = Len(messages) - 1 /\ Len(messages) >= 1
      /\ \A i \in 1 .. Len(rest) : rest[i] = messages[i + 1]
      /\ Head(messages) = messages[1]
  OBVIOUS
<1>2. CASE /\ \A i \in 1 .. Len(messages) : messages[i].type # "config"
           /\ app.refresh = s.refresh
           /\ EffectiveProcess(app) = EffectiveProcess(s)
  <2>1. \A i \in 1 .. Len(rest) : rest[i].type # "config"
    BY <1>1, <1>2
  <2>2. next = app
    BY <1>1, <1>2
  <2> HIDE DEF rest, next
  <2>3. Reaches(rest, next, s)
    BY <1>2, <2>1, <2>2 DEF Reaches
  <2> QED BY <2>3 DEF rest, next
<1>3. CASE \E i \in 1 .. Len(messages) :
             /\ messages[i] = Config(s)
             /\ \A j \in i + 1 .. Len(messages) : messages[j].type # "config"
  <2>1. PICK i \in 1 .. Len(messages) :
             /\ messages[i] = Config(s)
             /\ \A j \in i + 1 .. Len(messages) : messages[j].type # "config"
    BY <1>3
  <2>2. CASE i = 1
    <3>1. \A j \in 1 .. Len(rest) : rest[j].type # "config"
      BY <1>1, <2>1, <2>2
    <3>2. Head(messages) = Config(s)
      BY <1>1, <2>1, <2>2
    <3>3. next = [refresh |-> s.refresh,
                  process |-> Max2(MinProcess, EffectiveProcess(s))]
      <4>1. /\ Config(s).type = "config"
            /\ Config(s).refresh = s.refresh
            /\ Config(s).process = EffectiveProcess(s)
        BY DEF Config
      <4> QED BY <3>2, <4>1
    <3>4. Max2(MinProcess, EffectiveProcess(s)) = EffectiveProcess(s)
      BY EffectiveFloored
    <3>5. next.refresh = s.refresh /\ next.process = EffectiveProcess(s)
      BY <3>3, <3>4
    <3> HIDE DEF rest, next
    <3>6. EffectiveProcess(next) = EffectiveProcess(s)
      BY <3>5, EffectiveStable
    <3>7. Reaches(rest, next, s)
      BY <3>1, <3>5, <3>6 DEF Reaches
    <3> QED BY <3>7 DEF rest, next
  <2>3. CASE i # 1
    <3>1. /\ i - 1 \in 1 .. Len(rest) /\ rest[i - 1] = Config(s)
          /\ \A j \in (i - 1) + 1 .. Len(rest) : rest[j].type # "config"
      BY <1>1, <2>1, <2>3
    <3> HIDE DEF rest, next
    <3>2. Reaches(rest, next, s)
      BY <3>1 DEF Reaches
    <3> QED BY <3>2 DEF rest, next
  <2> QED BY <2>2, <2>3
<1> QED BY <1>2, <1>3 DEF Reaches

LEMMA InitConfig == Init => ConfigInv
BY InitTypes, InitLinkPeer DEF Init, ConfigInv, Floored, ConfigReachesLink, Serving

\* A step that leaves the settings, a served connection's queue and what its
\* agent applies alone.
Unmoved(c) ==
  /\ settings' = settings
  /\ Serving(c) /\ Linked(c)
  /\ peer'[c] = peer[c]
  /\ downlink'[c] = downlink[c]
  /\ applied'[peer[c]] = applied[peer[c]]

LEMMA UnmovedReaches ==
  ASSUME ConfigInv, NEW c \in Conns, Unmoved(c)
  PROVE  Reaches(downlink'[c], applied'[peer'[c]], settings')
<1>1. Reaches(downlink[c], applied[peer[c]], settings)
  BY ReachesIs DEF ConfigInv, Unmoved
<1> QED BY <1>1 DEF Unmoved

\* A connection an agent holds is the only one it holds.
LEMMA LeaveUnlinks ==
  ASSUME TypeOK, LinkPeer, NEW a \in Agents, LeaveLink(a), peer' = peer, NEW c \in Conns, Linked(c)'
  PROVE  Linked(c) /\ peer[c] \in Agents \ {a} /\ downlink'[c] = downlink[c]
<1>1. peer[c] \in Agents /\ link'[peer[c]] = c
  BY DEF Linked, TypeOK
<1>2. peer[c] # a
  BY <1>1 DEF LeaveLink, TypeOK, Conns, NoConn
<1>3. link[peer[c]] = c
  BY <1>1, <1>2 DEF LeaveLink, TypeOK
<1>4. link[a] # c
  BY <1>2 DEF LeaveLink, LinkPeer
<1> QED BY <1>1, <1>2, <1>3, <1>4 DEF Linked, LeaveLink, TypeOK

LEMMA NextFloored == ConfigInv /\ [Next]_vars => Floored'
<1> SUFFICES ASSUME ConfigInv, [Next]_vars PROVE Floored'
  OBVIOUS
<1> USE DEF ConfigInv, Floored
<1>1. CASE settings' = settings
  BY <1>1
<1>2. CASE UpdateSettings
  <2>1. settings' \in Patched
    BY <1>2 DEF UpdateSettings
  <2>2. settings'.process \in {settings.process} \cup {Max2(MinProcess, p) : p \in Processes}
    BY <2>1 DEF Patched
  <2>3. ASSUME NEW p \in Processes PROVE Max2(MinProcess, p) >= MinProcess
    <3>1. p \in Nat /\ MinProcess \in Nat
      OBVIOUS
    <3> QED BY <3>1 DEF Max2
  <2> QED BY <2>2, <2>3
<1>3. CASE RestartManager
  BY <1>3 DEF RestartManager
<1>4. CASE UNCHANGED vars
  BY <1>1, <1>4 DEF vars, mgrVars
<1>5. ASSUME Next, ~UpdateSettings, ~RestartManager PROVE settings' = settings
  BY <1>5 DEF Next, AgentStep, HandlerStep, Connect, TakeSample, SendSample, SendHeartbeat,
              ReceiveReply, DropLink, NoticeClose, RestartAgent, ServeHello, ServeSample,
              ServeHeartbeat, ReadDisconnect, PeerTimeout, mgrVars
<1> QED BY <1>1, <1>2, <1>3, <1>4, <1>5

LEMMA NextReaches == ConfigInv /\ [Next]_vars => ConfigReachesLink'
<1> SUFFICES ASSUME ConfigInv, [Next]_vars, NEW d \in Conns, Serving(d)', Linked(d)'
             PROVE  Reaches(downlink'[d], applied'[peer'[d]], settings')
  BY DEF ConfigReachesLink, Reaches, Applies
<1> USE DEF ConfigInv, TypeInv
<1>0. /\ TypeOK' /\ peer'[d] \in Agents /\ settings \in Settings /\ settings' \in Settings
      /\ \A c \in Conns : downlink[c] \in Seq(DownMessages)
  BY NextTypes DEF TypeOK, Linked
<1>1. CASE Unmoved(d)
  BY <1>1, UnmovedReaches
<1>2. ASSUME NEW a \in Agents, Connect(a) PROVE Unmoved(d)
  <2>1. d # opened + 1
    BY <1>2 DEF Connect, Serving, TypeOK, Conns
  <2>2. Serving(d) /\ peer'[d] = peer[d]
    BY <1>2, <2>1 DEF Connect, Serving, TypeOK
  <2>3. link'[peer[d]] = d
    BY <2>2 DEF Linked
  <2>4. Linked(d)
    BY <1>0, <1>2, <2>1, <2>2, <2>3 DEF Connect, Linked, TypeOK
  <2> QED BY <1>2, <2>2, <2>4 DEF Connect, Unmoved
<1>3. ASSUME NEW a \in Agents, TakeSample(a) \/ SendSample(a) \/ SendHeartbeat(a)
      PROVE  Unmoved(d)
  BY <1>3 DEF TakeSample, SendSample, SendHeartbeat, Unmoved, Serving, Linked, mgrVars, netVars
<1>4. ASSUME NEW a \in Agents, ReceiveReply(a)
      PROVE  Reaches(downlink'[d], applied'[peer'[d]], settings')
  <2>1. /\ Serving(d) /\ Linked(d)
        /\ settings' = settings /\ peer' = peer
        /\ peer[d] \in Agents
    BY <1>0, <1>4 DEF ReceiveReply, Serving, Linked, mgrVars
  <2>2. CASE d = link[a] /\ peer[d] = a
    <3>1. downlink[d] # << >> /\ downlink'[d] = Tail(downlink[d])
      BY <1>4, <2>2 DEF ReceiveReply, TypeOK
    <3>2. applied'[a] = IF Head(downlink[d]).type = "config"
                        THEN [refresh |-> Head(downlink[d]).refresh,
                              process |-> Max2(MinProcess, Head(downlink[d]).process)]
                        ELSE applied[a]
      BY <1>4, <2>2 DEF ReceiveReply, TypeOK
    <3>3. Reaches(downlink[d], applied[a], settings)
      BY <2>1, <2>2, ReachesIs
    <3>4. Reaches(Tail(downlink[d]), applied'[a], settings)
      BY <1>0, <3>1, <3>2, <3>3, ConfigTaken DEF Floored
    <3> QED BY <2>1, <2>2, <3>1, <3>4
  <2>3. CASE peer[d] # a
    <3>1. link[peer[d]] = d
      BY <2>1 DEF Linked
    <3>2. applied'[peer[d]] = applied[peer[d]]
      BY <1>4, <2>1, <2>3 DEF ReceiveReply, TypeOK
    <3>3. link[a] # d
      BY <1>4, <2>3 DEF ReceiveReply, LinkPeer
    <3> QED BY <1>4, <2>1, <3>2, <3>3, UnmovedReaches DEF ReceiveReply, TypeOK, Unmoved
  <2> QED BY <2>1, <2>2, <2>3 DEF Linked
<1>5. ASSUME NEW a \in Agents, DropLink(a) \/ NoticeClose(a) \/ RestartAgent(a) PROVE Unmoved(d)
  <2>1. /\ LeaveLink(a) /\ peer' = peer /\ handler' = handler /\ settings' = settings
        /\ \A b \in Agents \ {a} : applied'[b] = applied[b]
    BY <1>5 DEF DropLink, NoticeClose, RestartAgent, mgrVars, TypeOK
  <2>2. Linked(d) /\ peer[d] \in Agents \ {a} /\ downlink'[d] = downlink[d]
    BY <2>1, LeaveUnlinks
  <2> QED BY <2>1, <2>2 DEF Unmoved, Serving
<1>6. ASSUME NEW c \in Conns, ServeHello(c)
      PROVE  Reaches(downlink'[d], applied'[peer'[d]], settings')
  <2>1. Linked(d) /\ settings' = settings /\ peer' = peer /\ applied' = applied
    BY <1>6 DEF ServeHello, Linked, agentVars
  <2>2. CASE d = c
    <3>1. downlink'[d] = Append(downlink[d], Config(settings))
      BY <1>6, <2>1, <2>2 DEF ServeHello, Reply, TypeOK
    <3> QED BY <1>0, <2>1, <3>1, ConfigAppended
  <2>3. CASE d # c
    BY <1>6, <2>1, <2>3, UnmovedReaches DEF ServeHello, Reply, Serving, Unmoved, TypeOK
  <2> QED BY <2>2, <2>3
<1>7. ASSUME NEW c \in Conns, ServeSample(c) \/ ServeHeartbeat(c)
      PROVE  Reaches(downlink'[d], applied'[peer'[d]], settings')
  <2>1. /\ Linked(d) /\ Serving(d)
        /\ settings' = settings /\ peer' = peer /\ applied' = applied
        /\ downlink' = Reply(c, Ack(Head(uplink[c]).seq))
    BY <1>7 DEF ServeSample, ServeHeartbeat, Linked, Serving, agentVars
  <2>2. Head(uplink[c]).seq \in Nat
    BY <1>7, SampleMessage, HeartbeatMessage
  <2>3. CASE d = c
    <3>1. downlink'[d] = Append(downlink[d], Ack(Head(uplink[c]).seq))
      BY <2>1, <2>3 DEF Reply, TypeOK
    <3>2. Reaches(downlink[d], applied[peer[d]], settings)
      BY <2>1, ReachesIs
    <3> QED BY <1>0, <2>1, <2>2, <3>1, <3>2, AckAppended, ZenonT(30)
  <2>4. CASE d # c
    BY <2>1, <2>4, UnmovedReaches DEF Reply, Unmoved, TypeOK
  <2> QED BY <2>3, <2>4
<1>8. ASSUME NEW c \in Conns, ReadDisconnect(c) \/ PeerTimeout(c) PROVE Unmoved(d)
  <2>1. /\ EndHandler(c) /\ handler' = [handler EXCEPT ![c] = "closed"]
        /\ UNCHANGED <<settings, peer, link, applied>>
    BY <1>8 DEF ReadDisconnect, PeerTimeout, EndHandler, agentVars
  <2>2. d # c /\ Serving(d)
    BY <2>1 DEF Serving, TypeOK
  <2>3. downlink'[d] = downlink[d]
    BY <2>1, <2>2 DEF EndHandler, TypeOK
  <2> QED BY <2>1, <2>2, <2>3 DEF Unmoved, Linked
<1>9. ASSUME UpdateSettings PROVE Reaches(downlink'[d], applied'[peer'[d]], settings')
  <2>1. Linked(d) /\ Serving(d)
    BY <1>9 DEF UpdateSettings, Linked, Serving, agentVars
  <2>2. downlink'[d] = Append(downlink[d], Config(settings'))
    BY <1>9, <2>1 DEF UpdateSettings, Registered, Serving
  <2> QED BY <1>0, <2>2, ConfigAppended
<1>10. ASSUME RestartManager PROVE FALSE
  BY <1>10 DEF RestartManager, Registered, Serving
<1>11. CASE UNCHANGED vars
  BY <1>1, <1>11 DEF vars, mgrVars, netVars, agentVars, Unmoved, Serving, Linked
<1> QED
  BY <1>1, <1>2, <1>3, <1>4, <1>5, <1>6, <1>7, <1>8, <1>9, <1>10, <1>11
  DEF Next, AgentStep, HandlerStep

\* Stated by ConfigReachesLink, of agent_ws, PATCH /api/settings and the agent's
\* receiver.
THEOREM ConfigReaches == Spec => []ConfigReachesLink
<1>1. ConfigInv /\ [Next]_vars => ConfigInv'
  BY NextTypes, NextLinkPeer, NextFloored, NextReaches DEF ConfigInv
<1>2. ConfigInv => ConfigReachesLink
  BY DEF ConfigInv
<1> QED BY <1>1, <1>2, InitConfig, PTL DEF Spec

----------------------------------------------------------------------------
(* What the owner of a node sends is never dropped as old *)

\* The number a message counts with; a hello comes before the first.
Num(m) == IF m.type = "hello" THEN 0 ELSE m.seq

Increasing(s) == \A i, j \in 1 .. Len(s) : i < j => Num(s[i]) < Num(s[j])
AtMost(s, k)  == \A i \in 1 .. Len(s) : Num(s[i]) <= k
Above(s, k)   == \A i \in 1 .. Len(s) : Num(s[i]) > k

OwnsNode(c) == Serving(c) /\ latest[Node(c)].connection_id = c

\* The messages of a connection are numbered in the order they are sent, not
\* past the sender's count, and behind what the node has already taken.
Numbered(c) ==
  /\ Increasing(uplink[c])
  /\ Registered(c) /\ Linked(c) => AtMost(uplink[c], msg_seq[peer[c]])
  /\ OwnsNode(c) => /\ Above(uplink[c], latest[Node(c)].last_seq)
                    /\ Linked(c) => latest[Node(c)].last_seq <= msg_seq[peer[c]]

SeqInv == OwnerInv /\ LinkPeer /\ \A c \in Conns : Numbered(c)

LEMMA NumType == ASSUME NEW m \in UpMessages PROVE Num(m) \in Nat
BY DEF UpMessages, Hello, Num

\* Reading the head leaves messages with higher numbers.
LEMMA TailNumbers ==
  ASSUME NEW s \in Seq(UpMessages), s # << >>, Increasing(s)
  PROVE  /\ Increasing(Tail(s))
         /\ Above(Tail(s), Num(Head(s)))
         /\ \A k : AtMost(s, k) => AtMost(Tail(s), k) /\ Num(Head(s)) <= k
         /\ \A k : Above(s, k) => Above(Tail(s), k)
<1> DEFINE rest == Tail(s)
<1>1. /\ Len(s) \in Nat /\ Len(s) >= 1 /\ Len(rest) = Len(s) - 1
      /\ \A i \in 1 .. Len(rest) : rest[i] = s[i + 1] /\ i + 1 \in 1 .. Len(s)
      /\ Head(s) = s[1] /\ 1 \in 1 .. Len(s)
  OBVIOUS
<1> HIDE DEF rest
<1>2. \A i \in 1 .. Len(rest) : 1 < i + 1
  BY <1>1
<1>3. Increasing(rest)
  BY <1>1 DEF Increasing
<1>4. Above(rest, Num(Head(s)))
  <2>1. ASSUME NEW i \in 1 .. Len(rest) PROVE Num(rest[i]) > Num(Head(s))
    <3>1. Num(s[1]) < Num(s[i + 1])
      BY <1>1, <1>2 DEF Increasing
    <3>2. s[1] \in UpMessages /\ s[i + 1] \in UpMessages
      BY <1>1
    <3>3. Num(s[1]) \in Nat /\ Num(s[i + 1]) \in Nat
      BY <3>2, NumType
    <3> QED BY <1>1, <3>1, <3>3
  <2> QED BY <2>1 DEF Above
<1>5. \A k : AtMost(s, k) => AtMost(rest, k) /\ Num(Head(s)) <= k
  BY <1>1 DEF AtMost
<1>6. \A k : Above(s, k) => Above(rest, k)
  BY <1>1 DEF Above
<1> QED BY <1>3, <1>4, <1>5, <1>6 DEF rest

\* The sender's next message goes behind all it has sent.
LEMMA AppendNumbers ==
  ASSUME NEW s \in Seq(UpMessages), NEW m \in UpMessages, NEW k \in Nat,
         Increasing(s), AtMost(s, k), Num(m) = k + 1
  PROVE  /\ Increasing(Append(s, m))
         /\ AtMost(Append(s, m), k + 1)
         /\ \A l \in Nat : Above(s, l) /\ l <= k => Above(Append(s, m), l)
<1> DEFINE longer == Append(s, m)
<1>1. /\ Len(longer) = Len(s) + 1 /\ Len(s) \in Nat
      /\ longer[Len(s) + 1] = m
      /\ \A i \in 1 .. Len(s) : longer[i] = s[i] /\ s[i] \in UpMessages
  OBVIOUS
<1> HIDE DEF longer
<1>2. \A i \in 1 .. Len(longer) : i \in 1 .. Len(s) \/ i = Len(s) + 1
  BY <1>1
<1>3. \A i \in 1 .. Len(s) : Num(s[i]) \in Nat /\ Num(s[i]) <= k
  BY <1>1, NumType DEF AtMost
<1>4. Increasing(longer)
  BY <1>1, <1>2, <1>3 DEF Increasing
<1>5. AtMost(longer, k + 1)
  BY <1>1, <1>2, <1>3 DEF AtMost
<1>6. \A l \in Nat : Above(s, l) /\ l <= k => Above(longer, l)
  BY <1>1, <1>2, <1>3 DEF Above
<1> QED BY <1>4, <1>5, <1>6 DEF longer

LEMMA PrefixNumbers ==
  ASSUME NEW s \in Seq(UpMessages), NEW p \in Prefixes(s)
  PROVE  /\ Increasing(s) => Increasing(p)
         /\ \A k : AtMost(s, k) => AtMost(p, k)
         /\ \A k : Above(s, k) => Above(p, k)
<1>1. PICK n \in 0 .. Len(s) : p = SubSeq(s, 1, n)
  BY DEF Prefixes
<1>2. Len(p) = n /\ \A i \in 1 .. n : p[i] = s[i] /\ i \in 1 .. Len(s)
  BY <1>1
<1> QED BY <1>2 DEF Increasing, AtMost, Above

\* A step that sends and reads nothing on a connection.
Still(c) ==
  /\ peer'[c] = peer[c]
  /\ uplink'[c] = uplink[c] \/ uplink'[c] \in Prefixes(uplink[c])
  /\ Registered(c)' => Registered(c)
  /\ Linked(c)' => Linked(c) /\ msg_seq'[peer[c]] = msg_seq[peer[c]]
  /\ OwnsNode(c)' => OwnsNode(c) /\ latest'[Node(c)].last_seq = latest[Node(c)].last_seq

LEMMA StillNumbered ==
  ASSUME TypeOK, NEW c \in Conns, Numbered(c), Still(c)
  PROVE  Numbered(c)'
<1>1. /\ Increasing(uplink[c]) => Increasing(uplink'[c])
      /\ \A k : AtMost(uplink[c], k) => AtMost(uplink'[c], k)
      /\ \A k : Above(uplink[c], k) => Above(uplink'[c], k)
  <2>1. uplink[c] \in Seq(UpMessages)
    BY DEF TypeOK
  <2> QED BY <2>1, PrefixNumbers DEF Still
<1>2. Node(c)' = Node(c)
  BY DEF Still, Node
<1> QED BY <1>1, <1>2 DEF Still, Numbered

LEMMA InitSeq == Init => SeqInv
<1> SUFFICES ASSUME Init PROVE SeqInv
  OBVIOUS
<1>1. \A c \in Conns : Numbered(c)
  BY DEF Init, Numbered, Increasing, Registered, OwnsNode, Serving
<1> QED BY <1>1, InitOwner, InitLinkPeer DEF SeqInv

\* A step of one connection's handler that changes at most its own node, and
\* leaves that node with this connection, leaves alone what others own.
LEMMA OthersKeep ==
  ASSUME OwnerInv, NEW c \in Conns, NEW d \in Conns, d # c,
         peer' = peer, handler'[d] = handler[d],
         \/ latest' = latest
         \/ \E r : r.connection_id = c /\ latest' = [latest EXCEPT ![Node(c)] = r],
         OwnsNode(d)'
  PROVE  OwnsNode(d) /\ latest'[Node(d)] = latest[Node(d)]
<1>1. Serving(d) /\ latest'[Node(d)].connection_id = d
  BY DEF OwnsNode, Serving, Node
<1>2. Node(d) \in Nodes
  BY <1>1 DEF OwnerInv, TypeInv, TypeOK, OpenedOnly, Serving, Node
<1>3. latest'[Node(d)] = latest[Node(d)]
  <2>1. CASE latest' = latest
    BY <2>1
  <2>2. CASE \E r : r.connection_id = c /\ latest' = [latest EXCEPT ![Node(c)] = r]
    <3>1. PICK r : r.connection_id = c /\ latest' = [latest EXCEPT ![Node(c)] = r]
      BY <2>2
    <3>2. Node(d) # Node(c)
      BY <1>1, <1>2, <3>1 DEF OwnerInv, TypeInv, TypeOK
    <3> QED BY <1>2, <3>1, <3>2 DEF OwnerInv, TypeInv, TypeOK
  <2> QED BY <2>1, <2>2
<1> QED BY <1>1, <1>3 DEF OwnsNode

LEMMA OthersStill ==
  ASSUME SeqInv, NEW c \in Conns, NEW d \in Conns, d # c,
         UNCHANGED <<peer, link, msg_seq>>,
         uplink'[d] = uplink[d], handler'[d] = handler[d],
         \/ latest' = latest
         \/ \E r : r.connection_id = c /\ latest' = [latest EXCEPT ![Node(c)] = r]
  PROVE  Still(d)
<1>1. Linked(d)' <=> Linked(d)
  BY DEF Linked
<1>2. OwnsNode(d)' => OwnsNode(d) /\ latest'[Node(d)].last_seq = latest[Node(d)].last_seq
  BY OthersKeep DEF SeqInv
<1> QED BY <1>1, <1>2 DEF Still, Registered, Linked

\* What the sender puts on its connection.
LEMMA SendNumbered ==
  ASSUME SeqInv, TypeOK, NEW a \in Agents, NEW m \in UpMessages, link[a] # NoConn,
         Num(m) = msg_seq[a] + 1,
         msg_seq' = [msg_seq EXCEPT ![a] = @ + 1],
         uplink' = Transmit(link[a], m),
         UNCHANGED <<latest, handler, peer, link>>,
         NEW d \in Conns
  PROVE  Numbered(d)'
<1> DEFINE c == link[a]
<1>1. c \in Conns /\ peer[c] = a /\ Linked(c)
  BY DEF TypeOK, SeqInv, LinkPeer, Linked
<1>2. Numbered(d) /\ (Linked(d)' <=> Linked(d)) /\ Node(d)' = Node(d)
  BY DEF SeqInv, Linked, Node
<1>3. CASE d # c
  <2>1. Linked(d) => peer[d] # a /\ peer[d] \in Agents
    BY <1>3 DEF Linked, TypeOK
  <2>2. Still(d)
    BY <1>2, <1>3, <2>1 DEF Still, Transmit, TypeOK, Registered, OwnsNode, Serving, Node
  <2> QED BY <1>2, <2>2, StillNumbered
<1>4. CASE d = c /\ ~Registered(c)
  BY <1>1, <1>2, <1>4 DEF Numbered, Registered, OwnsNode, Serving, Transmit, TypeOK
<1>5. CASE d = c /\ Registered(c)
  <2> DEFINE k == msg_seq[a]
             s == uplink[c]
  <2>1. k \in Nat /\ s \in Seq(UpMessages) /\ Increasing(s) /\ AtMost(s, k) /\ Num(m) = k + 1
    BY <1>1, <1>2, <1>5 DEF TypeOK, Numbered
  <2>2. uplink'[c] = Append(s, m) /\ msg_seq'[peer'[c]] = k + 1
    BY <1>1, <1>5 DEF Transmit, TypeOK
  <2> HIDE DEF k, s
  <2>3. /\ Increasing(uplink'[c])
        /\ AtMost(uplink'[c], k + 1)
        /\ \A l \in Nat : Above(s, l) /\ l <= k => Above(uplink'[c], l)
    BY <2>1, <2>2, AppendNumbers
  <2>4. ASSUME OwnsNode(c)'
        PROVE  /\ Above(uplink'[c], latest'[Node(c)'].last_seq)
               /\ latest'[Node(c)'].last_seq <= k + 1
    <3>1. OwnsNode(c) /\ Node(c) \in Nodes
      BY <1>1, <2>4 DEF OwnsNode, Serving, Node, TypeOK
    <3>2. latest[Node(c)].last_seq \in Nat
      <4>1. latest[Node(c)] # NoRuntime
        BY <1>1, <3>1 DEF SeqInv, OwnerInv, ServedKnown, OwnsNode
      <4> QED BY <3>1, <4>1, OwnedRuntime
    <3>3. Above(s, latest[Node(c)].last_seq) /\ latest[Node(c)].last_seq <= k
      BY <1>1, <1>2, <1>5, <3>1 DEF Numbered, k, s
    <3> QED BY <1>2, <1>5, <2>1, <2>3, <3>2, <3>3
  <2> QED BY <1>5, <2>2, <2>3, <2>4 DEF Numbered
<1> QED BY <1>3, <1>4, <1>5

\* What a handler reads, and what it leaves of its node: a number the queue is
\* still ahead of and the sender has not yet passed.
LEMMA ReadNumbered ==
  ASSUME SeqInv, TypeOK, NEW c \in Conns, uplink[c] # << >>,
         Registered(c), handler'[c] = "serving",
         uplink' = [uplink EXCEPT ![c] = Tail(@)],
         UNCHANGED <<peer, link, msg_seq>>,
         NEW last \in Nat, OwnsNode(c)' => latest'[Node(c)].last_seq = last,
         \/ last <= Num(Head(uplink[c]))
         \/ OwnsNode(c) /\ last = latest[Node(c)].last_seq
  PROVE  Numbered(c)'
<1> DEFINE s == uplink[c]
           h == Head(uplink[c])
<1>1. /\ s \in Seq(UpMessages) /\ s # << >> /\ Increasing(s) /\ Numbered(c)
      /\ uplink'[c] = Tail(s)
      /\ Node(c)' = Node(c)
      /\ Linked(c)' <=> Linked(c)
  BY DEF TypeOK, SeqInv, Numbered, Node, Linked
<1>2. /\ Increasing(Tail(s))
      /\ Above(Tail(s), Num(h))
      /\ \A k : AtMost(s, k) => AtMost(Tail(s), k) /\ Num(h) <= k
      /\ \A k : Above(s, k) => Above(Tail(s), k)
  BY <1>1, TailNumbers
<1>3. Linked(c) => AtMost(Tail(s), msg_seq[peer[c]]) /\ Num(h) <= msg_seq[peer[c]]
  BY <1>1, <1>2 DEF Numbered
<1>4. Num(h) \in Nat /\ (Linked(c) => msg_seq[peer[c]] \in Nat)
  <2>1. h \in UpMessages
    BY <1>1
  <2> QED BY <2>1, NumType DEF TypeOK, Linked
<1>5. Above(Tail(s), last) /\ (Linked(c) => last <= msg_seq[peer[c]])
  <2>1. CASE last <= Num(h)
    <3>1. ASSUME NEW i \in 1 .. Len(Tail(s)) PROVE Num(Tail(s)[i]) > last
      <4>1. Tail(s)[i] \in UpMessages
        BY <1>1
      <4>2. Num(Tail(s)[i]) \in Nat /\ Num(Tail(s)[i]) > Num(h)
        BY <1>2, <4>1, NumType DEF Above
      <4> QED BY <1>4, <2>1, <4>2
    <3>2. Linked(c) => last <= msg_seq[peer[c]]
      BY <1>3, <1>4, <2>1
    <3> QED BY <3>1, <3>2 DEF Above
  <2>2. CASE OwnsNode(c) /\ last = latest[Node(c)].last_seq
    BY <1>1, <1>2, <2>2 DEF Numbered
  <2> QED BY <2>1, <2>2
<1> HIDE DEF s, h
<1> QED BY <1>1, <1>2, <1>3, <1>5 DEF Numbered

LEMMA NextNumbered == SeqInv /\ [Next]_vars => \A c \in Conns : Numbered(c)'
<1> SUFFICES ASSUME SeqInv, [Next]_vars, NEW d \in Conns PROVE Numbered(d)'
  OBVIOUS
<1>0. /\ TypeOK /\ TypeOK' /\ OpenedOnly /\ Numbered(d) /\ OwnerInv /\ LinkPeer
      /\ latest \in MapType
  BY NextTypes DEF SeqInv, OwnerInv, TypeInv, TypeOK, MapType
<1>1. CASE UNCHANGED <<latest, handler, peer, uplink, link, msg_seq>>
  BY <1>0, <1>1 DEF Numbered, Registered, Linked, OwnsNode, Serving, Node
<1>2. ASSUME NEW a \in Agents, Connect(a) PROVE Numbered(d)'
  <2> DEFINE c == opened + 1
  <2>1. c \in Conns
    BY <1>0, <1>2 DEF Connect, TypeOK, Conns
  <2>2. CASE d = c
    <3>1. /\ uplink'[d] = <<Hello>> /\ handler'[d] = "greeting"
          /\ peer'[d] = a /\ msg_seq'[a] = 0
      BY <1>0, <1>2, <2>1, <2>2 DEF Connect, TypeOK
    <3>2. Increasing(<<Hello>>) /\ AtMost(<<Hello>>, 0)
      BY DEF Increasing, AtMost, Num, Hello
    <3> QED BY <3>1, <3>2 DEF Numbered, OwnsNode, Serving
  <2>3. CASE d # c
    <3>1. /\ uplink'[d] = uplink[d] /\ handler'[d] = handler[d] /\ peer'[d] = peer[d]
          /\ latest' = latest
          /\ \A b \in Agents : b # a => link'[b] = link[b] /\ msg_seq'[b] = msg_seq[b]
          /\ link'[a] = c
      BY <1>0, <1>2, <2>1, <2>3 DEF Connect, TypeOK
    <3>2. Linked(d)' => Linked(d) /\ msg_seq'[peer[d]] = msg_seq[peer[d]]
      BY <1>0, <2>3, <3>1 DEF Linked, TypeOK
    <3>3. Still(d)
      BY <3>1, <3>2 DEF Still, Registered, OwnsNode, Serving, Node
    <3> QED BY <1>0, <3>3, StillNumbered
  <2> QED BY <2>2, <2>3
<1>3. ASSUME NEW a \in Agents, SendSample(a) PROVE Numbered(d)'
  <2> DEFINE m == Sample(msg_seq[a] + 1, snap[a])
  <2>1. m \in UpMessages /\ Num(m) = msg_seq[a] + 1
    BY <1>0, <1>3 DEF SendSample, TypeOK, Sample, UpMessages, Num
  <2>2. /\ link[a] # NoConn
        /\ msg_seq' = [msg_seq EXCEPT ![a] = @ + 1]
        /\ uplink' = Transmit(link[a], m)
        /\ UNCHANGED <<latest, handler, peer, link>>
    BY <1>3 DEF SendSample, mgrVars
  <2> HIDE DEF m
  <2> QED BY <1>0, <2>1, <2>2, SendNumbered
<1>4. ASSUME NEW a \in Agents, SendHeartbeat(a) PROVE Numbered(d)'
  <2> DEFINE m == Heartbeat(msg_seq[a] + 1)
  <2>1. m \in UpMessages /\ Num(m) = msg_seq[a] + 1
    BY <1>0, <1>4 DEF SendHeartbeat, TypeOK, Heartbeat, UpMessages, Num
  <2>2. /\ link[a] # NoConn
        /\ msg_seq' = [msg_seq EXCEPT ![a] = @ + 1]
        /\ uplink' = Transmit(link[a], m)
        /\ UNCHANGED <<latest, handler, peer, link>>
    BY <1>4 DEF SendHeartbeat, mgrVars
  <2> HIDE DEF m
  <2> QED BY <1>0, <2>1, <2>2, SendNumbered
<1>5. ASSUME NEW a \in Agents, DropLink(a) \/ NoticeClose(a) \/ RestartAgent(a)
      PROVE  Numbered(d)'
  <2>1. LeaveLink(a) /\ UNCHANGED <<latest, handler, peer, msg_seq>>
    BY <1>5 DEF DropLink, NoticeClose, RestartAgent, mgrVars
  <2>2. uplink'[d] = uplink[d] \/ uplink'[d] \in Prefixes(uplink[d])
    BY <1>0, <2>1 DEF LeaveLink, TypeOK
  <2>3. Linked(d)' => Linked(d)
    BY <1>0, <2>1, LeaveUnlinks
  <2>4. Still(d)
    BY <2>1, <2>2, <2>3 DEF Still, Registered, OwnsNode, Serving, Node
  <2> QED BY <1>0, <2>4, StillNumbered
<1>6. ASSUME NEW c \in Conns, ServeHello(c) PROVE Numbered(d)'
  <2>1. /\ peer[c] # NoAgent /\ Node(c) \in Nodes
        /\ handler' = [handler EXCEPT ![c] = "serving"]
        /\ uplink' = [uplink EXCEPT ![c] = Tail(@)]
        /\ UNCHANGED <<peer, link, msg_seq>>
        /\ Registered(c) /\ uplink[c] # << >>
    BY <1>0, <1>6 DEF ServeHello, OpenedOnly, TypeOK, Node, Registered, agentVars
  <2>2. PICK p \in Nat : latest' =
          [latest EXCEPT ![Node(c)] = [payload |-> p, last_seq |-> 0, connected |-> TRUE,
                                       age |-> 0, connection_id |-> c]]
    BY <1>0, <1>6, <2>1, HelloEffect DEF ServeHello
  <2>3. CASE d = c
    <3>1. latest'[Node(c)].last_seq = 0
      BY <1>0, <2>1, <2>2 DEF MapType
    <3>2. Head(uplink[c]) \in UpMessages
      BY <1>0, <2>1 DEF TypeOK
    <3>3. Num(Head(uplink[c])) \in Nat
      BY <3>2, NumType
    <3>4. 0 <= Num(Head(uplink[c])) /\ handler'[c] = "serving"
      BY <1>0, <2>1, <3>3 DEF TypeOK
    <3> DEFINE last == 0
    <3>5. last \in Nat /\ last <= Num(Head(uplink[c])) /\ latest'[Node(c)].last_seq = last
      BY <3>1, <3>4
    <3> HIDE DEF last
    <3> QED BY <1>0, <2>1, <2>3, <3>4, <3>5, ReadNumbered
  <2>4. CASE d # c
    <3> DEFINE r == [payload |-> p, last_seq |-> 0, connected |-> TRUE, age |-> 0,
                     connection_id |-> c]
    <3>1. r.connection_id = c /\ latest' = [latest EXCEPT ![Node(c)] = r]
      BY <2>2
    <3> HIDE DEF r
    <3>2. uplink'[d] = uplink[d] /\ handler'[d] = handler[d]
      BY <1>0, <2>1, <2>4 DEF TypeOK
    <3>3. Still(d)
      BY <2>1, <2>4, <3>1, <3>2, OthersStill
    <3> QED BY <1>0, <3>3, StillNumbered
  <2> QED BY <2>3, <2>4
<1>7. ASSUME NEW c \in Conns, ServeSample(c) \/ ServeHeartbeat(c) PROVE Numbered(d)'
  <2> DEFINE h == Head(uplink[c])
             n == Node(c)
  <2>1. /\ peer[c] # NoAgent /\ n \in Nodes
        /\ handler' = handler /\ handler[c] = "serving"
        /\ uplink' = [uplink EXCEPT ![c] = Tail(@)]
        /\ UNCHANGED <<peer, link, msg_seq>>
        /\ Serving(c) /\ uplink[c] # << >>
    BY <1>0, <1>7 DEF ServeSample, ServeHeartbeat, OpenedOnly, TypeOK, Node, Serving, agentVars
  <2>2. latest[n] # NoRuntime /\ latest[n].last_seq \in Nat
    BY <1>0, <2>1, OwnedRuntime DEF OwnerInv, ServedKnown
  <2>3. h.seq \in Nat /\ Num(h) = h.seq
    BY <1>0, <1>7, SampleMessage, HeartbeatMessage DEF ServeSample, ServeHeartbeat, Num
  <2>4. \/ latest' = latest
        \/ /\ latest[n].connection_id = c
           /\ \E r : /\ r.connection_id = c
                     /\ latest' = [latest EXCEPT ![n] = r]
                     /\ r.last_seq \in Nat
                     /\ r.last_seq <= h.seq \/ r.last_seq = latest[n].last_seq
    <3>1. CASE ServeSample(c)
      <4> DEFINE r == [payload |-> h.sampled_at, last_seq |-> h.seq,
                       connected |-> TRUE, age |-> 0, connection_id |-> c]
      <4>1. r.connection_id = c /\ r.last_seq = h.seq
        OBVIOUS
      <4>2. \/ latest' = latest
            \/ latest[n].connection_id = c /\ latest' = [latest EXCEPT ![n] = r]
        BY <1>0, <3>1, ServeSampleEffect
      <4> HIDE DEF r, h, n
      <4> QED BY <2>3, <4>1, <4>2
    <3>2. CASE ServeHeartbeat(c)
      <4> DEFINE k == IF h.seq > latest[n].last_seq THEN h.seq ELSE latest[n].last_seq
                 r == [payload |-> latest[n].payload, last_seq |-> k,
                       connected |-> TRUE, age |-> 0, connection_id |-> c]
      <4>1. r.connection_id = c /\ r.last_seq = k
        OBVIOUS
      <4>2. \/ latest' = latest
            \/ latest[n].connection_id = c /\ latest' = [latest EXCEPT ![n] = r]
        BY <1>0, <3>2, ServeHeartbeatEffect
      <4>3. k \in Nat /\ (k <= h.seq \/ k = latest[n].last_seq)
        BY <2>2, <2>3
      <4> HIDE DEF r, k, h, n
      <4> QED BY <4>1, <4>2, <4>3
    <3> QED BY <1>7, <3>1, <3>2
  <2>5. CASE d # c
    <3>1. uplink'[d] = uplink[d] /\ handler'[d] = handler[d]
      BY <1>0, <2>1, <2>5 DEF TypeOK
    <3>2. Still(d)
      BY <2>1, <2>4, <2>5, <3>1, OthersStill
    <3> QED BY <1>0, <3>2, StillNumbered
  <2>6. CASE d = c
    <3>1. PICK last \in Nat :
             /\ OwnsNode(c)' => latest'[n].last_seq = last
             /\ last <= Num(h) \/ (OwnsNode(c) /\ last = latest[n].last_seq)
      <4>1. OwnsNode(c)' => latest'[n].connection_id = c
        BY <2>1 DEF OwnsNode, Node
      <4>2. CASE latest' = latest
        <5>1. CASE OwnsNode(c)
          BY <2>2, <4>2, <5>1
        <5>2. CASE ~OwnsNode(c)
          <6>1. ~OwnsNode(c)' /\ 0 <= Num(h)
            BY <2>1, <2>3, <4>1, <4>2, <5>2 DEF OwnsNode
          <6> QED BY <6>1
        <5> QED BY <5>1, <5>2
      <4>3. CASE /\ latest[n].connection_id = c
                 /\ \E r : /\ r.connection_id = c
                           /\ latest' = [latest EXCEPT ![n] = r]
                           /\ r.last_seq \in Nat
                           /\ r.last_seq <= h.seq \/ r.last_seq = latest[n].last_seq
        <5>1. PICK r : /\ latest' = [latest EXCEPT ![n] = r]
                       /\ r.last_seq \in Nat
                       /\ r.last_seq <= h.seq \/ r.last_seq = latest[n].last_seq
          BY <4>3
        <5>2. latest'[n].last_seq = r.last_seq
          BY <1>0, <2>1, <5>1 DEF MapType
        <5>3. OwnsNode(c)
          BY <2>1, <4>3 DEF OwnsNode
        <5> QED BY <2>3, <5>1, <5>2, <5>3
      <4> QED BY <2>4, <4>2, <4>3
    <3>2. Registered(c) /\ handler'[c] = "serving"
      BY <2>1 DEF Registered
    <3> QED BY <1>0, <2>1, <2>6, <3>1, <3>2, ReadNumbered
  <2> QED BY <2>5, <2>6
<1>8. ASSUME NEW c \in Conns, ReadDisconnect(c) \/ PeerTimeout(c) PROVE Numbered(d)'
  <2>1. /\ EndHandler(c) /\ handler' = [handler EXCEPT ![c] = "closed"]
        /\ uplink' = [uplink EXCEPT ![c] = << >>]
        /\ UNCHANGED <<peer, link, msg_seq>>
        /\ Node(c) \in Nodes
    BY <1>0, <1>8 DEF ReadDisconnect, PeerTimeout, EndHandler, agentVars, Registered, OpenedOnly,
                      TypeOK, Node
  <2>2. CASE d = c
    <3>1. uplink'[d] = << >> /\ handler'[d] = "closed"
      BY <1>0, <2>1, <2>2 DEF TypeOK
    <3> QED BY <3>1 DEF Numbered, Increasing, Registered, OwnsNode, Serving
  <2>3. CASE d # c
    <3>1. uplink'[d] = uplink[d] /\ handler'[d] = handler[d]
      BY <1>0, <2>1, <2>3 DEF TypeOK
    <3>2. ASSUME OwnsNode(d)'
          PROVE  OwnsNode(d) /\ latest'[Node(d)].last_seq = latest[Node(d)].last_seq
      <4>1. Serving(d) /\ latest'[Node(d)].connection_id = d
        BY <2>1, <3>1, <3>2 DEF OwnsNode, Serving, Node
      <4>2. Node(d) \in Nodes /\ latest[Node(d)] # NoRuntime
        BY <1>0, <4>1 DEF OwnerInv, ServedKnown, TypeOK, OpenedOnly, Serving, Node
      <4>3. \/ latest' = latest
            \/ latest' = Cluster!Disconnect(latest, Node(c), c)
        BY <2>1 DEF EndHandler
      <4>4. /\ latest'[Node(d)].connection_id = latest[Node(d)].connection_id
            /\ latest'[Node(d)].last_seq = latest[Node(d)].last_seq
        <5>1. CASE latest' = latest
          BY <5>1
        <5>2. CASE latest' = Cluster!Disconnect(latest, Node(c), c)
          BY <1>0, <2>1, <4>2, <5>2, DisconnectEffect
        <5> QED BY <4>3, <5>1, <5>2
      <4> QED BY <4>1, <4>4 DEF OwnsNode
    <3>3. Still(d)
      BY <2>1, <3>1, <3>2 DEF Still, Registered, Linked
    <3> QED BY <1>0, <3>3, StillNumbered
  <2> QED BY <2>2, <2>3
<1>9. ASSUME RestartManager PROVE Numbered(d)'
  <2>1. uplink'[d] = << >> /\ ~Registered(d)' /\ ~Serving(d)'
    BY <1>0, <1>9 DEF RestartManager, Registered, Serving
  <2> QED BY <2>1 DEF Numbered, Increasing, OwnsNode
<1>10. CASE UNCHANGED vars
  BY <1>1, <1>10 DEF vars, mgrVars, netVars, agentVars
<1>11. ASSUME Next, ~RestartManager,
              ~ \E a \in Agents : \/ Connect(a) \/ SendSample(a) \/ SendHeartbeat(a)
                                  \/ DropLink(a) \/ NoticeClose(a) \/ RestartAgent(a),
              ~ \E c \in Conns : \/ ServeHello(c) \/ ServeSample(c) \/ ServeHeartbeat(c)
                                 \/ ReadDisconnect(c) \/ PeerTimeout(c)
       PROVE  UNCHANGED <<latest, handler, peer, uplink, link, msg_seq>>
  BY <1>11 DEF Next, AgentStep, HandlerStep, TakeSample, ReceiveReply, UpdateSettings, mgrVars,
               netVars, agentVars
<1> QED BY <1>1, <1>2, <1>3, <1>4, <1>5, <1>6, <1>7, <1>8, <1>9, <1>10, <1>11

\* Stated by OwnerNeverRejected, of the agent's sender and ClusterState.
THEOREM OwnerAccepted == Spec => []OwnerNeverRejected
<1>1. SeqInv /\ [Next]_vars => SeqInv'
  BY NextOwner, NextLinkPeer, NextNumbered DEF SeqInv, OwnerInv
<1>2. SeqInv => OwnerNeverRejected
  <2> SUFFICES ASSUME SeqInv, NEW c \in Conns, NEW i \in 1 .. Len(uplink[c]), OwnsNode(c),
                      uplink[c][i].type = "sample"
               PROVE  uplink[c][i].seq > latest[Node(c)].last_seq
    BY DEF OwnerNeverRejected, OwnsNode
  <2>1. Num(uplink[c][i]) > latest[Node(c)].last_seq
    BY DEF SeqInv, Numbered, Above
  <2> QED BY <2>1 DEF Num
<1> QED BY <1>1, <1>2, InitSeq, PTL DEF Spec

----------------------------------------------------------------------------
(* What counts as sent is shown by the node's owner, or on its way to it *)

\* A connection in its greeting holds the hello first; once that is read, it
\* owns the node until another connection greets.
HelloFirst(c) ==
  Linked(c) /\ handler[c] = "greeting" => uplink[c] # << >> /\ Head(uplink[c]) = Hello

\* The invariant, on the connection that owns a node or is about to.
Coming(c) ==
  Linked(c) /\ (handler[c] = "greeting" \/ OwnsNode(c)) /\ sent[peer[c]] # 0 =>
    \/ NewestSampleIn(uplink[c], sent[peer[c]])
    \/ /\ NoSampleIn(uplink[c])
       /\ OwnsNode(c) /\ Shows(Node(c), sent[peer[c]])

SampleInv == SeqInv /\ \A c \in Conns : HelloFirst(c) /\ Coming(c)

LEMMA SampleAppended ==
  ASSUME NEW s \in Seq(UpMessages), NEW m \in UpMessages, m.type = "sample"
  PROVE  NewestSampleIn(Append(s, m), m.sampled_at)
<1> DEFINE longer == Append(s, m)
<1>1. Len(longer) = Len(s) + 1 /\ Len(s) \in Nat /\ longer[Len(s) + 1] = m
  OBVIOUS
<1> HIDE DEF longer
<1> QED BY <1>1 DEF NewestSampleIn, longer

LEMMA BeatAppended ==
  ASSUME NEW s \in Seq(UpMessages), NEW m \in UpMessages, m.type # "sample"
  PROVE  /\ NoSampleIn(s) => NoSampleIn(Append(s, m))
         /\ \A t : NewestSampleIn(s, t) => NewestSampleIn(Append(s, m), t)
<1> DEFINE longer == Append(s, m)
<1>1. /\ Len(longer) = Len(s) + 1 /\ Len(s) \in Nat
      /\ longer[Len(s) + 1] = m
      /\ \A i \in 1 .. Len(s) : longer[i] = s[i]
  OBVIOUS
<1> HIDE DEF longer
<1>2. \A i \in 1 .. Len(longer) : i \in 1 .. Len(s) \/ i = Len(s) + 1
  BY <1>1
<1>3. NoSampleIn(s) => NoSampleIn(longer)
  BY <1>1, <1>2 DEF NoSampleIn
<1>4. ASSUME NEW t, NewestSampleIn(s, t) PROVE NewestSampleIn(longer, t)
  <2>1. PICK i \in 1 .. Len(s) : /\ s[i].type = "sample" /\ s[i].sampled_at = t
                                 /\ \A j \in i + 1 .. Len(s) : s[j].type # "sample"
    BY <1>4 DEF NewestSampleIn
  <2>2. i \in 1 .. Len(longer) /\ longer[i].type = "sample" /\ longer[i].sampled_at = t
    BY <1>1, <2>1
  <2>3. ASSUME NEW j \in i + 1 .. Len(longer) PROVE longer[j].type # "sample"
    <3>1. j \in i + 1 .. Len(s) \/ j = Len(s) + 1
      BY <1>1
    <3>2. j \in i + 1 .. Len(s) => longer[j] = s[j]
      BY <1>1
    <3> QED BY <1>1, <2>1, <3>1, <3>2
  <2> QED BY <2>2, <2>3 DEF NewestSampleIn
<1> QED BY <1>3, <1>4 DEF longer

LEMMA HeadTaken ==
  ASSUME NEW s \in Seq(UpMessages), s # << >>
  PROVE  /\ NoSampleIn(s) => NoSampleIn(Tail(s)) /\ Head(s).type # "sample"
         /\ \A t : NewestSampleIn(s, t) =>
              \/ NewestSampleIn(Tail(s), t)
              \/ NoSampleIn(Tail(s)) /\ Head(s).type = "sample" /\ Head(s).sampled_at = t
<1> DEFINE rest == Tail(s)
<1>1. /\ Len(s) \in Nat /\ Len(s) >= 1 /\ Len(rest) = Len(s) - 1
      /\ \A i \in 1 .. Len(rest) : rest[i] = s[i + 1] /\ i + 1 \in 1 .. Len(s)
      /\ Head(s) = s[1] /\ 1 \in 1 .. Len(s)
  OBVIOUS
<1> HIDE DEF rest
<1>2. NoSampleIn(s) => NoSampleIn(rest) /\ Head(s).type # "sample"
  BY <1>1 DEF NoSampleIn
<1>3. ASSUME NEW t, NewestSampleIn(s, t)
      PROVE  \/ NewestSampleIn(rest, t)
             \/ NoSampleIn(rest) /\ Head(s).type = "sample" /\ Head(s).sampled_at = t
  <2>1. PICK i \in 1 .. Len(s) : /\ s[i].type = "sample" /\ s[i].sampled_at = t
                                 /\ \A j \in i + 1 .. Len(s) : s[j].type # "sample"
    BY <1>3 DEF NewestSampleIn
  <2>2. CASE i = 1
    <3>1. ASSUME NEW j \in 1 .. Len(rest) PROVE rest[j].type # "sample"
      <4>1. j + 1 \in i + 1 .. Len(s) /\ rest[j] = s[j + 1]
        BY <1>1, <2>2
      <4> QED BY <2>1, <4>1
    <3> QED BY <1>1, <2>1, <2>2, <3>1 DEF NoSampleIn
  <2>3. CASE i # 1
    <3> DEFINE k == i - 1
    <3>1. k \in 1 .. Len(rest) /\ rest[k] = s[i]
      BY <1>1, <2>3
    <3>2. ASSUME NEW j \in k + 1 .. Len(rest) PROVE rest[j].type # "sample"
      <4>1. j + 1 \in i + 1 .. Len(s) /\ j \in 1 .. Len(rest) /\ rest[j] = s[j + 1]
        BY <1>1, <2>3
      <4> QED BY <2>1, <4>1
    <3> HIDE DEF k
    <3> QED BY <2>1, <3>1, <3>2 DEF NewestSampleIn
  <2> QED BY <2>2, <2>3
<1> QED BY <1>2, <1>3 DEF rest

\* A step that leaves alone what a connection carries and what its node shows.
Calm(c) ==
  /\ peer'[c] = peer[c] /\ uplink'[c] = uplink[c] /\ handler'[c] = handler[c]
  /\ Linked(c)' => Linked(c) /\ sent'[peer[c]] = sent[peer[c]]
  /\ OwnsNode(c)' => /\ OwnsNode(c)
                     /\ \A t : Shows(Node(c), t) => Shows(Node(c), t)'

LEMMA CalmKeeps ==
  ASSUME NEW c \in Conns, HelloFirst(c), Coming(c), Calm(c)
  PROVE  HelloFirst(c)' /\ Coming(c)'
<1>1. HelloFirst(c)'
  BY DEF HelloFirst, Calm
<1>2. ASSUME Linked(c)', handler'[c] = "greeting" \/ OwnsNode(c)', sent'[peer'[c]] # 0
      PROVE  \/ NewestSampleIn(uplink'[c], sent'[peer'[c]])
             \/ /\ NoSampleIn(uplink'[c])
                /\ OwnsNode(c)' /\ Shows(Node(c), sent[peer[c]])'
  <2> DEFINE t == sent[peer[c]]
  <2>1. /\ Linked(c) /\ sent'[peer'[c]] = t /\ t # 0 /\ uplink'[c] = uplink[c]
        /\ handler[c] = "greeting" \/ OwnsNode(c)
    BY <1>2 DEF Calm
  <2>2. NewestSampleIn(uplink[c], t) \/ (NoSampleIn(uplink[c]) /\ OwnsNode(c) /\ Shows(Node(c), t))
    BY <2>1 DEF Coming
  <2>3. CASE NewestSampleIn(uplink[c], t)
    BY <2>1, <2>3
  <2>4. CASE NoSampleIn(uplink[c]) /\ OwnsNode(c) /\ Shows(Node(c), t)
    <3>1. OwnsNode(c)'
      BY <1>2, <2>4 DEF OwnsNode, Serving, Calm
    <3>2. \A u : Shows(Node(c), u) => latest'[Node(c)'] # NoRuntime /\ latest'[Node(c)'].payload = u
      BY <3>1 DEF Calm, Shows
    <3>3. latest'[Node(c)'] # NoRuntime /\ latest'[Node(c)'].payload = t
      BY <2>4, <3>2
    <3> HIDE DEF t
    <3> QED BY <2>1, <2>4, <3>1, <3>3 DEF Shows
  <2> QED BY <2>2, <2>3, <2>4
<1> QED BY <1>1, <1>2 DEF Coming

\* What a sender puts on its connection.
LEMMA SendComing ==
  ASSUME SampleInv, TypeOK, NEW a \in Agents, NEW m \in UpMessages, link[a] # NoConn,
         uplink' = Transmit(link[a], m),
         UNCHANGED <<latest, handler, peer, link>>,
         \/ m.type = "sample" /\ sent' = [sent EXCEPT ![a] = m.sampled_at]
         \/ m.type # "sample" /\ sent' = sent,
         NEW d \in Conns
  PROVE  HelloFirst(d)' /\ Coming(d)'
<1> DEFINE c == link[a]
<1>1. c \in Conns /\ peer[c] = a
  BY DEF TypeOK, SampleInv, SeqInv, LinkPeer
<1>2. /\ HelloFirst(d) /\ Coming(d)
      /\ Linked(d)' <=> Linked(d)
      /\ OwnsNode(d)' <=> OwnsNode(d)
      /\ \A t : Shows(Node(d), t)' <=> Shows(Node(d), t)
      /\ Registered(d)' <=> Registered(d)
  BY DEF SampleInv, Linked, OwnsNode, Serving, Node, Shows, Registered
<1>3. CASE d # c
  <2>1. Linked(d) => peer[d] # a /\ peer[d] \in Agents
    BY <1>3 DEF Linked, TypeOK
  <2>2. uplink'[d] = uplink[d] /\ (Linked(d) => sent'[peer[d]] = sent[peer[d]])
    BY <1>1, <1>3, <2>1 DEF Transmit, TypeOK
  <2>3. Calm(d)
    BY <1>2, <2>2 DEF Calm
  <2> QED BY <1>2, <2>3, CalmKeeps
<1>4. CASE d = c /\ ~Registered(c)
  BY <1>2, <1>4 DEF HelloFirst, Coming, Registered, OwnsNode, Serving
<1>5. CASE d = c /\ Registered(c)
  <2> DEFINE s == uplink[c]
  <2>1. s \in Seq(UpMessages) /\ uplink'[c] = Append(s, m)
    BY <1>1, <1>5 DEF TypeOK, Transmit
  <2>2. HelloFirst(c)'
    <3>1. s # << >> => Append(s, m) # << >> /\ Head(Append(s, m)) = Head(s)
      BY <2>1
    <3> QED BY <1>2, <1>5, <2>1, <3>1 DEF HelloFirst
  <2>3. CASE m.type = "sample" /\ sent' = [sent EXCEPT ![a] = m.sampled_at]
    <3>1. sent'[peer'[c]] = m.sampled_at
      BY <1>1, <2>3 DEF TypeOK
    <3>2. NewestSampleIn(uplink'[c], sent'[peer'[c]])
      BY <2>1, <2>3, <3>1, SampleAppended
    <3> QED BY <1>5, <2>2, <3>2 DEF Coming
  <2>4. CASE m.type # "sample" /\ sent' = sent
    <3>1. /\ NoSampleIn(s) => NoSampleIn(uplink'[c])
          /\ \A t : NewestSampleIn(s, t) => NewestSampleIn(uplink'[c], t)
      BY <2>1, <2>4, BeatAppended
    <3>2. sent'[peer'[c]] = sent[peer[c]] /\ handler'[c] = handler[c]
      BY <2>4
    <3> DEFINE t == sent[peer[c]]
    <3>3. Shows(Node(c), t) => Shows(Node(c), sent[peer[c]])'
      BY <3>2 DEF Shows, Node
    <3>4. Coming(c) /\ (Linked(c)' <=> Linked(c)) /\ (OwnsNode(c)' <=> OwnsNode(c))
      BY <1>2, <1>5
    <3>5. Coming(c)'
      BY <3>1, <3>2, <3>3, <3>4 DEF Coming
    <3> QED BY <1>5, <2>2, <3>5
  <2> QED BY <2>3, <2>4
<1> QED BY <1>3, <1>4, <1>5

\* The owner takes the sample it reads: it is never behind what it has taken.
LEMMA OwnerTakes ==
  ASSUME SeqInv, NEW c \in Conns, ServeSample(c), OwnsNode(c)
  PROVE  latest' = [latest EXCEPT ![Node(c)] =
                      [payload |-> Head(uplink[c]).sampled_at, last_seq |-> Head(uplink[c]).seq,
                       connected |-> TRUE, age |-> 0, connection_id |-> c]]
<1>1. /\ uplink[c] \in Seq(UpMessages) /\ uplink[c] # << >>
      /\ Head(uplink[c]).type = "sample"
  BY DEF SeqInv, OwnerInv, TypeInv, TypeOK, ServeSample
<1>2. 1 \in 1 .. Len(uplink[c]) /\ Head(uplink[c]) = uplink[c][1]
  BY <1>1
<1>3. Num(Head(uplink[c])) > latest[Node(c)].last_seq
  BY <1>2 DEF SeqInv, Numbered, Above
<1>4. Head(uplink[c]).seq > latest[Node(c)].last_seq
  BY <1>1, <1>3 DEF Num
<1> QED BY <1>4 DEF ServeSample, OwnsNode, Cluster!IngestSample, Cluster!Accepts,
                    Cluster!ConnectionMatches

LEMMA InitComing == Init => SampleInv
<1> SUFFICES ASSUME Init PROVE SampleInv
  OBVIOUS
<1>1. \A c \in Conns : HelloFirst(c) /\ Coming(c)
  BY DEF Init, HelloFirst, Coming, Linked
<1> QED BY <1>1, InitSeq DEF SampleInv

LEMMA NextComing == SampleInv /\ [Next]_vars => \A c \in Conns : HelloFirst(c)' /\ Coming(c)'
<1> SUFFICES ASSUME SampleInv, [Next]_vars, NEW d \in Conns PROVE HelloFirst(d)' /\ Coming(d)'
  OBVIOUS
<1>0. /\ TypeOK /\ TypeOK' /\ OpenedOnly /\ OwnerInv /\ SeqInv /\ LinkPeer
      /\ HelloFirst(d) /\ Coming(d)
      /\ latest \in MapType
  BY NextTypes DEF SampleInv, SeqInv, OwnerInv, TypeInv, TypeOK, MapType
<1>1. CASE UNCHANGED <<latest, handler, peer, uplink, link, sent>>
  <2>1. Calm(d)
    BY <1>1 DEF Calm, Linked, OwnsNode, Serving, Node, Shows
  <2> QED BY <1>0, <2>1, CalmKeeps
<1>2. ASSUME NEW a \in Agents, Connect(a) PROVE HelloFirst(d)' /\ Coming(d)'
  <2> DEFINE c == opened + 1
  <2>1. c \in Conns
    BY <1>0, <1>2 DEF Connect, TypeOK, Conns
  <2>2. CASE d = c
    <3>1. uplink'[d] = <<Hello>> /\ sent'[peer'[d]] = 0
      BY <1>0, <1>2, <2>1, <2>2 DEF Connect, TypeOK
    <3> QED BY <3>1 DEF HelloFirst, Coming
  <2>3. CASE d # c
    <3>1. /\ uplink'[d] = uplink[d] /\ handler'[d] = handler[d] /\ peer'[d] = peer[d]
          /\ latest' = latest
          /\ \A b \in Agents : b # a => link'[b] = link[b] /\ sent'[b] = sent[b]
          /\ link'[a] = c
      BY <1>0, <1>2, <2>1, <2>3 DEF Connect, TypeOK
    <3>2. Linked(d)' => Linked(d) /\ sent'[peer[d]] = sent[peer[d]]
      BY <1>0, <2>3, <3>1 DEF Linked, TypeOK
    <3>3. Calm(d)
      BY <3>1, <3>2 DEF Calm, OwnsNode, Serving, Node, Shows
    <3> QED BY <1>0, <3>3, CalmKeeps
  <2> QED BY <2>2, <2>3
<1>3. ASSUME NEW a \in Agents, SendSample(a) PROVE HelloFirst(d)' /\ Coming(d)'
  <2> DEFINE m == Sample(msg_seq[a] + 1, snap[a])
  <2>1. m \in UpMessages /\ m.type = "sample" /\ m.sampled_at = snap[a]
    BY <1>0, <1>3 DEF SendSample, TypeOK, Sample, UpMessages
  <2>2. /\ link[a] # NoConn
        /\ sent' = [sent EXCEPT ![a] = snap[a]]
        /\ uplink' = Transmit(link[a], m)
        /\ UNCHANGED <<latest, handler, peer, link>>
    BY <1>3 DEF SendSample, mgrVars
  <2> HIDE DEF m
  <2> QED BY <1>0, <2>1, <2>2, SendComing
<1>4. ASSUME NEW a \in Agents, SendHeartbeat(a) PROVE HelloFirst(d)' /\ Coming(d)'
  <2> DEFINE m == Heartbeat(msg_seq[a] + 1)
  <2>1. m \in UpMessages /\ m.type # "sample"
    BY <1>0, <1>4 DEF SendHeartbeat, TypeOK, Heartbeat, UpMessages
  <2>2. /\ link[a] # NoConn
        /\ sent' = sent
        /\ uplink' = Transmit(link[a], m)
        /\ UNCHANGED <<latest, handler, peer, link>>
    BY <1>4 DEF SendHeartbeat, mgrVars
  <2> HIDE DEF m
  <2> QED BY <1>0, <2>1, <2>2, SendComing
<1>5. ASSUME NEW a \in Agents, DropLink(a) \/ NoticeClose(a) \/ RestartAgent(a)
      PROVE  HelloFirst(d)' /\ Coming(d)'
  <2>1. LeaveLink(a) /\ UNCHANGED <<latest, handler, peer, sent>>
    BY <1>5 DEF DropLink, NoticeClose, RestartAgent, mgrVars
  <2>2. CASE ~Linked(d)'
    BY <2>2 DEF HelloFirst, Coming
  <2>3. CASE Linked(d)'
    <3>1. Linked(d) /\ peer[d] # a
      BY <1>0, <2>1, <2>3, LeaveUnlinks
    <3>2. d # link[a]
      BY <1>0, <2>1, <3>1 DEF LinkPeer, LeaveLink
    <3>3. uplink'[d] = uplink[d]
      BY <1>0, <2>1, <3>2 DEF LeaveLink, TypeOK
    <3>4. Calm(d)
      BY <2>1, <3>1, <3>3 DEF Calm, OwnsNode, Serving, Node, Shows
    <3> QED BY <1>0, <3>4, CalmKeeps
  <2> QED BY <2>2, <2>3
<1>6. ASSUME NEW c \in Conns, c # d, peer[c] # NoAgent,
             UNCHANGED <<peer, link, sent>>,
             uplink'[d] = uplink[d], handler'[d] = handler[d],
             \/ latest' = latest
             \/ \E r : r.connection_id = c /\ latest' = [latest EXCEPT ![Node(c)] = r]
      PROVE  HelloFirst(d)' /\ Coming(d)'
  <2>1. OwnsNode(d)' => OwnsNode(d) /\ latest'[Node(d)] = latest[Node(d)]
    BY <1>0, <1>6, OthersKeep
  <2>2. Linked(d)' <=> Linked(d)
    BY <1>6 DEF Linked
  <2>3. Calm(d)
    BY <1>6, <2>1, <2>2 DEF Calm, Shows, Node
  <2> QED BY <1>0, <2>3, CalmKeeps
<1>7. ASSUME NEW c \in Conns, ServeHello(c) PROVE HelloFirst(d)' /\ Coming(d)'
  <2>1. /\ peer[c] # NoAgent /\ Node(c) \in Nodes
        /\ handler[c] = "greeting" /\ handler' = [handler EXCEPT ![c] = "serving"]
        /\ uplink' = [uplink EXCEPT ![c] = Tail(@)]
        /\ UNCHANGED <<peer, link, sent>>
        /\ uplink[c] # << >>
    BY <1>0, <1>7 DEF ServeHello, OpenedOnly, TypeOK, Node, Registered, agentVars
  <2>2. CASE d = c
    <3> DEFINE s == uplink[d]
               t == sent[peer[d]]
    <3>1. /\ s \in Seq(UpMessages) /\ s # << >> /\ uplink'[d] = Tail(s)
          /\ handler'[d] = "serving" /\ sent'[peer'[d]] = t
          /\ Linked(d)' <=> Linked(d)
          /\ ~OwnsNode(d) /\ handler[d] = "greeting"
      BY <1>0, <2>1, <2>2 DEF TypeOK, Linked, OwnsNode, Serving
    <3>2. ASSUME Linked(d), t # 0 PROVE NewestSampleIn(Tail(s), t)
      <4>1. NewestSampleIn(s, t)
        BY <1>0, <3>1, <3>2 DEF Coming
      <4>2. Head(s).type # "sample"
        BY <1>0, <3>1, <3>2 DEF HelloFirst, Hello
      <4> HIDE DEF s, t
      <4> QED BY <3>1, <4>1, <4>2, HeadTaken
    <3> HIDE DEF s, t
    <3> QED BY <3>1, <3>2 DEF HelloFirst, Coming
  <2>3. CASE d # c
    <3>1. PICK p \in Nat : latest' =
            [latest EXCEPT ![Node(c)] = [payload |-> p, last_seq |-> 0, connected |-> TRUE,
                                         age |-> 0, connection_id |-> c]]
      BY <1>0, <1>7, <2>1, HelloEffect DEF ServeHello
    <3> DEFINE r == [payload |-> p, last_seq |-> 0, connected |-> TRUE, age |-> 0,
                     connection_id |-> c]
    <3>2. r.connection_id = c /\ latest' = [latest EXCEPT ![Node(c)] = r]
      BY <3>1
    <3> HIDE DEF r
    <3>3. uplink'[d] = uplink[d] /\ handler'[d] = handler[d]
      BY <1>0, <2>1, <2>3 DEF TypeOK
    <3> QED BY <1>6, <2>1, <2>3, <3>2, <3>3
  <2> QED BY <2>2, <2>3
<1>8. ASSUME NEW c \in Conns, ServeSample(c) PROVE HelloFirst(d)' /\ Coming(d)'
  <2> DEFINE h == Head(uplink[c])
             r == [payload |-> h.sampled_at, last_seq |-> h.seq,
                   connected |-> TRUE, age |-> 0, connection_id |-> c]
  <2>1. /\ peer[c] # NoAgent /\ Node(c) \in Nodes
        /\ handler' = handler /\ handler[c] = "serving"
        /\ uplink' = [uplink EXCEPT ![c] = Tail(@)]
        /\ UNCHANGED <<peer, link, sent>>
        /\ uplink[c] # << >> /\ uplink[c] \in Seq(UpMessages) /\ h.type = "sample"
    BY <1>0, <1>8 DEF ServeSample, OpenedOnly, TypeOK, Node, Serving, agentVars
  <2>2. latest' = latest \/ latest' = [latest EXCEPT ![Node(c)] = r]
    BY <1>0, <1>8, ServeSampleEffect
  <2>3. r.connection_id = c /\ r.payload = h.sampled_at
    OBVIOUS
  <2>4. CASE d # c
    <3> HIDE DEF r
    <3>1. uplink'[d] = uplink[d] /\ handler'[d] = handler[d]
      BY <1>0, <2>1, <2>4 DEF TypeOK
    <3> QED BY <1>6, <2>1, <2>2, <2>3, <2>4, <3>1
  <2>5. CASE d = c /\ ~OwnsNode(c)
    <3>1. latest' = latest
      BY <1>0, <1>8, <2>1, <2>5, ServeSampleEffect DEF OwnsNode, Serving
    <3>2. ~OwnsNode(d)' /\ handler'[d] # "greeting"
      BY <2>1, <2>5, <3>1 DEF OwnsNode, Serving, Node
    <3> QED BY <3>2 DEF HelloFirst, Coming
  <2>6. CASE d = c /\ OwnsNode(c)
    <3> DEFINE s == uplink[c]
               t == sent[peer[c]]
    <3>1. /\ s \in Seq(UpMessages) /\ s # << >> /\ uplink'[d] = Tail(s)
          /\ handler'[d] = "serving" /\ sent'[peer'[d]] = t
          /\ Linked(d)' <=> Linked(c)
          /\ Node(c)' = Node(c)
      BY <1>0, <2>1, <2>6 DEF TypeOK, Linked, Node
    <3>2. latest'[Node(c)] = r /\ latest'[Node(c)] # NoRuntime
      <4>1. latest' = [latest EXCEPT ![Node(c)] = r]
        BY <1>0, <1>8, <2>6, OwnerTakes
      <4>2. latest'[Node(c)] = r
        BY <1>0, <2>1, <4>1 DEF MapType
      <4>3. h.seq \in Nat /\ h.sampled_at \in Nat
        BY <1>0, <1>8, SampleMessage
      <4>4. r # NoRuntime
        BY <4>3, RuntimeKnown
      <4> QED BY <4>2, <4>4
    <3>3. OwnsNode(c)'
      BY <2>1, <2>3, <3>1, <3>2 DEF OwnsNode, Serving
    <3>4. ASSUME Linked(c), t # 0
          PROVE  NewestSampleIn(Tail(s), t) \/ (NoSampleIn(Tail(s)) /\ h.sampled_at = t)
      <4>1. NewestSampleIn(s, t) \/ NoSampleIn(s)
        BY <1>0, <2>6, <3>4 DEF Coming
      <4> HIDE DEF t
      <4> QED BY <2>1, <3>1, <4>1, HeadTaken
    <3>5. h.sampled_at = t => Shows(Node(c), sent[peer[c]])'
      BY <2>3, <2>6, <3>1, <3>2 DEF Shows
    <3> HIDE DEF s, t, h, r
    <3> QED BY <2>6, <3>1, <3>3, <3>4, <3>5 DEF HelloFirst, Coming
  <2> QED BY <2>4, <2>5, <2>6
<1>9. ASSUME NEW c \in Conns, ServeHeartbeat(c) PROVE HelloFirst(d)' /\ Coming(d)'
  <2> DEFINE h == Head(uplink[c])
             k == IF h.seq > latest[Node(c)].last_seq THEN h.seq ELSE latest[Node(c)].last_seq
             r == [payload |-> latest[Node(c)].payload, last_seq |-> k,
                   connected |-> TRUE, age |-> 0, connection_id |-> c]
  <2>1. /\ peer[c] # NoAgent /\ Node(c) \in Nodes
        /\ handler' = handler /\ handler[c] = "serving"
        /\ uplink' = [uplink EXCEPT ![c] = Tail(@)]
        /\ UNCHANGED <<peer, link, sent>>
        /\ uplink[c] # << >> /\ uplink[c] \in Seq(UpMessages) /\ h.type = "heartbeat"
    BY <1>0, <1>9 DEF ServeHeartbeat, OpenedOnly, TypeOK, Node, Serving, agentVars
  <2>2. \/ latest' = latest
        \/ latest[Node(c)].connection_id = c /\ latest' = [latest EXCEPT ![Node(c)] = r]
    BY <1>0, <1>9, ServeHeartbeatEffect
  <2>3. r.connection_id = c /\ r.payload = latest[Node(c)].payload
    OBVIOUS
  <2>4. CASE d # c
    <3> HIDE DEF r
    <3>1. uplink'[d] = uplink[d] /\ handler'[d] = handler[d]
      BY <1>0, <2>1, <2>4 DEF TypeOK
    <3> QED BY <1>6, <2>1, <2>2, <2>3, <2>4, <3>1
  <2>5. CASE d = c
    <3> DEFINE s == uplink[c]
               t == sent[peer[c]]
    <3>1. /\ s \in Seq(UpMessages) /\ s # << >> /\ uplink'[d] = Tail(s)
          /\ handler'[d] = "serving" /\ sent'[peer'[d]] = t
          /\ Linked(d)' <=> Linked(c)
          /\ Node(c)' = Node(c)
      BY <1>0, <2>1, <2>5 DEF TypeOK, Linked, Node
    <3>2. latest[Node(c)] # NoRuntime
      BY <1>0, <2>1 DEF OwnerInv, ServedKnown, Serving
    <3>3. /\ latest'[Node(c)].payload = latest[Node(c)].payload
          /\ latest'[Node(c)] # NoRuntime
          /\ OwnsNode(c)' => OwnsNode(c)
      <4>1. CASE latest' = latest
        BY <2>1, <3>2, <4>1 DEF OwnsNode, Serving, Node
      <4>2. CASE latest[Node(c)].connection_id = c /\ latest' = [latest EXCEPT ![Node(c)] = r]
        <5>1. latest'[Node(c)] = r
          BY <1>0, <2>1, <4>2 DEF MapType
        <5>2. OwnsNode(c)
          BY <2>1, <4>2 DEF OwnsNode, Serving
        <5>3. latest[Node(c)].payload \in Nat /\ latest[Node(c)].last_seq \in Nat
          BY <1>0, <2>1, <3>2, OwnedRuntime
        <5>4. k \in Nat
          BY <1>0, <1>9, <5>3, HeartbeatMessage
        <5>5. r # NoRuntime
          <6> HIDE DEF k
          <6> QED BY <5>3, <5>4, RuntimeKnown
        <5> QED BY <2>3, <5>1, <5>2, <5>5
      <4> QED BY <2>2, <4>1, <4>2
    <3>4. Shows(Node(c), t) => Shows(Node(c), sent[peer[c]])'
      BY <2>5, <3>1, <3>3 DEF Shows
    <3>5. /\ NoSampleIn(s) => NoSampleIn(Tail(s))
          /\ NewestSampleIn(s, t) => NewestSampleIn(Tail(s), t)
      <4> HIDE DEF t
      <4> QED BY <2>1, <3>1, HeadTaken
    <3>6. ASSUME Linked(c), t # 0, OwnsNode(c)'
          PROVE  \/ NewestSampleIn(Tail(s), t)
                 \/ NoSampleIn(Tail(s)) /\ Shows(Node(c), sent[peer[c]])'
      BY <1>0, <2>5, <3>3, <3>4, <3>5, <3>6 DEF Coming
    <3> HIDE DEF s, t
    <3> QED BY <2>5, <3>1, <3>6 DEF HelloFirst, Coming
  <2> QED BY <2>4, <2>5
<1>10. ASSUME NEW c \in Conns, ReadDisconnect(c) \/ PeerTimeout(c)
       PROVE  HelloFirst(d)' /\ Coming(d)'
  <2>1. /\ EndHandler(c) /\ handler' = [handler EXCEPT ![c] = "closed"]
        /\ uplink' = [uplink EXCEPT ![c] = << >>]
        /\ UNCHANGED <<peer, link, sent>>
        /\ Node(c) \in Nodes
    BY <1>0, <1>10 DEF ReadDisconnect, PeerTimeout, EndHandler, agentVars, Registered, OpenedOnly,
                       TypeOK, Node
  <2>2. CASE d = c
    <3>1. handler'[d] = "closed"
      BY <1>0, <2>1, <2>2 DEF TypeOK
    <3> QED BY <3>1 DEF HelloFirst, Coming, OwnsNode, Serving
  <2>3. CASE d # c
    <3>1. uplink'[d] = uplink[d] /\ handler'[d] = handler[d]
      BY <1>0, <2>1, <2>3 DEF TypeOK
    <3>2. ASSUME OwnsNode(d)'
          PROVE  OwnsNode(d) /\ \A t : Shows(Node(d), t) => Shows(Node(d), t)'
      <4>1. Serving(d) /\ latest'[Node(d)].connection_id = d
        BY <2>1, <3>1, <3>2 DEF OwnsNode, Serving, Node
      <4>2. Node(d) \in Nodes /\ latest[Node(d)] # NoRuntime
        BY <1>0, <4>1 DEF OwnerInv, ServedKnown, TypeOK, OpenedOnly, Serving, Node
      <4>3. \/ latest' = latest
            \/ latest' = Cluster!Disconnect(latest, Node(c), c)
        BY <2>1 DEF EndHandler
      <4>4. /\ latest'[Node(d)].connection_id = latest[Node(d)].connection_id
            /\ latest'[Node(d)].payload = latest[Node(d)].payload
            /\ latest'[Node(d)] # NoRuntime
        <5>1. CASE latest' = latest
          BY <4>2, <5>1
        <5>2. CASE latest' = Cluster!Disconnect(latest, Node(c), c)
          BY <1>0, <2>1, <4>2, <5>2, DisconnectEffect
        <5> QED BY <4>3, <5>1, <5>2
      <4> QED BY <2>1, <4>1, <4>4 DEF OwnsNode, Shows, Node
    <3>3. Calm(d)
      BY <2>1, <3>1, <3>2 DEF Calm, Linked
    <3> QED BY <1>0, <3>3, CalmKeeps
  <2> QED BY <2>2, <2>3
<1>11. ASSUME RestartManager PROVE HelloFirst(d)' /\ Coming(d)'
  <2>1. ~Registered(d)'
    BY <1>0, <1>11 DEF RestartManager, Registered
  <2> QED BY <2>1 DEF HelloFirst, Coming, Registered, OwnsNode, Serving
<1>12. CASE UNCHANGED vars
  BY <1>1, <1>12 DEF vars, mgrVars, netVars, agentVars
<1>13. ASSUME Next, ~RestartManager,
              ~ \E a \in Agents : \/ Connect(a) \/ SendSample(a) \/ SendHeartbeat(a)
                                  \/ DropLink(a) \/ NoticeClose(a) \/ RestartAgent(a),
              ~ \E c \in Conns : \/ ServeHello(c) \/ ServeSample(c) \/ ServeHeartbeat(c)
                                 \/ ReadDisconnect(c) \/ PeerTimeout(c)
       PROVE  UNCHANGED <<latest, handler, peer, uplink, link, sent>>
  BY <1>13 DEF Next, AgentStep, HandlerStep, TakeSample, ReceiveReply, UpdateSettings, mgrVars,
               netVars, agentVars
<1> QED BY <1>1, <1>2, <1>3, <1>4, <1>5, <1>7, <1>8, <1>9, <1>10, <1>11, <1>12, <1>13

\* Stated by NewestReachesOwner, of the agent's sender and ClusterState: what
\* last_snapshot_seq says was sent has not been lost.
THEOREM NewestReaches == Spec => []NewestReachesOwner
<1>1. SampleInv /\ [Next]_vars => SampleInv'
  BY NextOwner, NextLinkPeer, NextNumbered, NextComing DEF SampleInv, SeqInv, OwnerInv
<1>2. SampleInv => NewestReachesOwner
  <2> SUFFICES ASSUME SampleInv, NEW a \in Agents, Owns(a), sent[a] # 0
               PROVE  \/ NewestSampleIn(uplink[link[a]], sent[a])
                      \/ NoSampleIn(uplink[link[a]]) /\ Shows(NodeOf[a], sent[a])
    BY DEF NewestReachesOwner
  <2> DEFINE c == link[a]
  <2>1. c \in Conns /\ peer[c] = a /\ a # NoAgent
    BY AgentsAssumption DEF SampleInv, SeqInv, OwnerInv, TypeInv, TypeOK, LinkPeer, Owns
  <2>2. Linked(c) /\ OwnsNode(c) /\ Node(c) = NodeOf[a]
    BY <2>1 DEF Linked, OwnsNode, Owns, Node
  <2> QED BY <2>1, <2>2 DEF SampleInv, Coming
<1> QED BY <1>1, <1>2, InitComing, PTL DEF Spec

=============================================================================
