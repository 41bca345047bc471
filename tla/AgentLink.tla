----------------------------- MODULE AgentLink -----------------------------
(***************************************************************************)
(* Agents, the websocket connections they open, and the manager's handler  *)
(* of those connections (agent.py; app.py, agent_ws, PATCH /api/settings;  *)
(* cluster.py through ClusterState).                                       *)
(*                                                                         *)
(* A connection is two FIFO streams.  Each breaks on its own: the agent    *)
(* may give a connection up while its bytes are still under way to the     *)
(* manager, whose handler reads what arrived and only then sees the        *)
(* disconnect; meanwhile the agent opens the next connection.  Handlers of *)
(* different connections run in any order.                                 *)
(*                                                                         *)
(* Time is not modelled here (the age of a runtime stays 0): a timeout, a  *)
(* retry delay and a heartbeat period are steps that may happen.           *)
(***************************************************************************)
EXTENDS Integers, Sequences

CONSTANTS
  Agents,          \* agent processes; two may be configured with one node id
  Nodes,           \* node ids
  NodeOf,          \* [Agents -> Nodes]: the node_id of an agent's config
  NoAgent,         \* the peer of a connection nobody has opened
  NoRuntime,       \* a node id latest_by_node does not hold
  Refreshes,       \* allowed refresh intervals
  Processes,       \* process intervals a PATCH may ask for
  MinProcess,      \* the floor of the process interval: max(1.0, ...)
  DefaultSettings, \* what a manager or an agent starts with
  MaxConns,        \* bound: connections ever opened
  MaxSamples,      \* bound: samples ever taken
  MaxBeats,        \* bound: heartbeats per connection
  MaxUpdates,      \* bound: PATCH /api/settings calls
  MaxFaults        \* bound: lost connections, timeouts, restarts

Conns == 1 .. MaxConns
NoConn == 0
Max2(a, b) == IF a > b THEN a ELSE b
Settings == [refresh: Refreshes, process: Nat]

ASSUME AgentsAssumption == NodeOf \in [Agents -> Nodes] /\ NoAgent \notin Agents
ASSUME BoundsAssumption ==
  /\ MaxConns \in Nat
  /\ MaxSamples \in Nat
  /\ MaxBeats \in Nat
  /\ MaxUpdates \in Nat
  /\ MaxFaults \in Nat
ASSUME SettingsAssumption ==
  /\ Refreshes \subseteq Nat
  /\ Processes \subseteq Nat
  /\ MinProcess \in Nat
  /\ DefaultSettings \in Settings
  /\ DefaultSettings.process >= MinProcess   \* ManagerSettings.from_env

VARIABLES
  \* the manager
  latest,      \* ClusterState.latest_by_node
  settings,    \* ManagerSettings: [refresh, process]
  handler,     \* agent_ws per connection: "unopened" "greeting" "serving" "closed"
  \* the connections
  peer,        \* the agent that opened a connection
  opened,      \* connections opened so far
  uplink,      \* agent -> manager messages not yet read
  downlink,    \* the handler's send_queue followed by what is on the wire
  \* the agents
  link,        \* the connection an agent's _run_connection is in, or NoConn
  snap,        \* time of the collector's newest snapshot, 0 before the first
  sent,        \* the sender's last_snapshot_seq
  msg_seq,     \* the sender's message_seq
  applied,     \* the collector's [refresh, process]
  \* clock and budgets
  taken,       \* samples taken so far: the time a sample is stamped with
  beats,       \* heartbeats sent on the current connection
  updates,
  faults

mgrVars   == <<latest, settings, handler>>
netVars   == <<peer, opened, uplink, downlink>>
agentVars == <<link, snap, sent, msg_seq, applied>>
countVars == <<taken, beats, updates, faults>>
vars      == <<mgrVars, netVars, agentVars, countVars>>

Cluster == INSTANCE ClusterState WITH
  NoPayload <- 0, StaleAfter <- 0, OfflineAfter <- 0

ASSUME RuntimeAssumption == NoRuntime \notin Cluster!Runtimes(Nat, Nat)

----------------------------------------------------------------------------
(* Messages *)

Hello             == [type |-> "hello"]
Sample(seq, time) == [type |-> "sample", seq |-> seq, sampled_at |-> time]
Heartbeat(seq)    == [type |-> "heartbeat", seq |-> seq]
Ack(seq)          == [type |-> "ack", seq |-> seq]

\* ManagerSettings.process_interval is never below the refresh interval, and
\* that is the value a config message carries.
EffectiveProcess(s) == Max2(s.process, s.refresh)
Config(s) == [type |-> "config", refresh |-> s.refresh, process |-> EffectiveProcess(s)]

UpMessages ==
  {Hello} \cup [type: {"sample"}, seq: Nat \ {0}, sampled_at: Nat \ {0}]
          \cup [type: {"heartbeat"}, seq: Nat \ {0}]
DownMessages ==
  [type: {"config"}, refresh: Refreshes, process: Nat] \cup [type: {"ack"}, seq: Nat]

Prefixes(s) == {SubSeq(s, 1, k) : k \in 0 .. Len(s)}

----------------------------------------------------------------------------

Init ==
  /\ latest   = [n \in Nodes |-> NoRuntime]
  /\ settings = DefaultSettings
  /\ handler  = [c \in Conns |-> "unopened"]
  /\ peer     = [c \in Conns |-> NoAgent]
  /\ opened   = 0
  /\ uplink   = [c \in Conns |-> << >>]
  /\ downlink = [c \in Conns |-> << >>]
  /\ link     = [a \in Agents |-> NoConn]
  /\ snap     = [a \in Agents |-> 0]
  /\ sent     = [a \in Agents |-> 0]
  /\ msg_seq  = [a \in Agents |-> 0]
  /\ applied  = [a \in Agents |-> DefaultSettings]
  /\ taken    = 0
  /\ beats    = [a \in Agents |-> 0]
  /\ updates  = 0
  /\ faults   = 0

Linked(c) == peer[c] # NoAgent /\ link[peer[c]] = c
Serving(c) == handler[c] = "serving"
Registered(c) == handler[c] \in {"greeting", "serving"}   \* its queue is in agent_queues
Node(c) == NodeOf[peer[c]]

\* What is queued for a peer that has given up is never read.
Reply(c, m) == [downlink EXCEPT ![c] = IF Linked(c) THEN Append(@, m) ELSE @]
\* What an agent sends to a handler that has ended is never read.
Transmit(c, m) == [uplink EXCEPT ![c] = IF Registered(c) THEN Append(@, m) ELSE @]
----------------------------------------------------------------------------
(* The agent *)

\* Mutant of Connect: the sender takes up last_snapshot_seq where it was.
ConnectKeepsSent(a) ==
  LET c == opened + 1 IN
  /\ link[a] = NoConn
  /\ opened < MaxConns
  /\ opened'  = c
  /\ peer'    = [peer EXCEPT ![c] = a]
  /\ handler' = [handler EXCEPT ![c] = "greeting"]
  /\ uplink'  = [uplink EXCEPT ![c] = <<Hello>>]
  /\ link'    = [link EXCEPT ![a] = c]
  /\ msg_seq' = [msg_seq EXCEPT ![a] = 0]
  /\ beats'   = [beats EXCEPT ![a] = 0]
  /\ UNCHANGED <<latest, settings, downlink, snap, sent, applied, taken, updates, faults>>

\* _run_connection: the handshake succeeds once the manager has accepted, and
\* the hello goes out before the receiver and sender tasks start.  From the
\* accept on, the handler's queue is in agent_queues.
Connect(a) ==
  LET c == opened + 1 IN
  /\ link[a] = NoConn
  /\ opened < MaxConns
  /\ opened'  = c
  /\ peer'    = [peer EXCEPT ![c] = a]
  /\ handler' = [handler EXCEPT ![c] = "greeting"]
  /\ uplink'  = [uplink EXCEPT ![c] = <<Hello>>]
  /\ link'    = [link EXCEPT ![a] = c]
  /\ sent'    = [sent EXCEPT ![a] = 0]
  /\ msg_seq' = [msg_seq EXCEPT ![a] = 0]
  /\ beats'   = [beats EXCEPT ![a] = 0]
  /\ UNCHANGED <<latest, settings, downlink, snap, applied, taken, updates, faults>>

\* The collector publishes a snapshot, whether or not the agent is connected.
TakeSample(a) ==
  /\ taken < MaxSamples
  /\ taken' = taken + 1
  /\ snap'  = [snap EXCEPT ![a] = taken + 1]
  /\ UNCHANGED <<mgrVars, netVars, link, sent, msg_seq, applied, beats, updates, faults>>

\* _sender_loop, a newer snapshot: only the newest one is sent.
SendSample(a) ==
  LET c == link[a] IN
  /\ c # NoConn
  /\ snap[a] > sent[a]
  /\ sent'    = [sent EXCEPT ![a] = snap[a]]
  /\ msg_seq' = [msg_seq EXCEPT ![a] = @ + 1]
  /\ uplink'  = Transmit(c, Sample(msg_seq[a] + 1, snap[a]))
  /\ UNCHANGED <<mgrVars, peer, opened, downlink, link, snap, applied, countVars>>

\* Mutant of SendHeartbeat: message_seq is advanced after the send.
SendHeartbeatBeforeCount(a) ==
  LET c == link[a] IN
  /\ c # NoConn
  /\ snap[a] <= sent[a]
  /\ beats[a] < MaxBeats
  /\ beats'   = [beats EXCEPT ![a] = @ + 1]
  /\ msg_seq' = [msg_seq EXCEPT ![a] = @ + 1]
  /\ uplink'  = Transmit(c, Heartbeat(msg_seq[a]))
  /\ UNCHANGED <<mgrVars, peer, opened, downlink, link, snap, sent, applied,
                 taken, updates, faults>>

\* _sender_loop, nothing newer when wait_for_update times out.
SendHeartbeat(a) ==
  LET c == link[a] IN
  /\ c # NoConn
  /\ snap[a] <= sent[a]
  /\ beats[a] < MaxBeats
  /\ beats'   = [beats EXCEPT ![a] = @ + 1]
  /\ msg_seq' = [msg_seq EXCEPT ![a] = @ + 1]
  /\ uplink'  = Transmit(c, Heartbeat(msg_seq[a] + 1))
  /\ UNCHANGED <<mgrVars, peer, opened, downlink, link, snap, sent, applied,
                 taken, updates, faults>>

\* _receiver_loop: a config sets both intervals, anything else is skipped.
ReceiveReply(a) ==
  LET c == link[a]
      m == Head(downlink[c])
  IN
  /\ c # NoConn
  /\ downlink[c] # << >>
  /\ downlink' = [downlink EXCEPT ![c] = Tail(@)]
  /\ applied'  = IF m.type = "config"
                 THEN [applied EXCEPT ![a] =
                         [refresh |-> m.refresh, process |-> Max2(MinProcess, m.process)]]
                 ELSE applied
  /\ UNCHANGED <<mgrVars, peer, opened, uplink, link, snap, sent, msg_seq, countVars>>

\* The agent's end of a connection is gone.  A prefix of what it sent is
\* still under way and reaches the handler if that is still reading.
LeaveLink(a) ==
  LET c == link[a] IN
  /\ c # NoConn
  /\ link' = [link EXCEPT ![a] = NoConn]
  /\ \E arriving \in Prefixes(uplink[c]) : uplink' = [uplink EXCEPT ![c] = arriving]
  /\ downlink' = [downlink EXCEPT ![c] = << >>]

\* The network or a keepalive timeout ends the connection for the agent alone.
DropLink(a) ==
  /\ faults < MaxFaults
  /\ faults' = faults + 1
  /\ LeaveLink(a)
  /\ UNCHANGED <<mgrVars, peer, opened, snap, sent, msg_seq, applied, taken, beats, updates>>

\* The receiver or the sender runs into the close of a handler that ended.
NoticeClose(a) ==
  /\ link[a] # NoConn
  /\ handler[link[a]] = "closed"
  /\ LeaveLink(a)
  /\ UNCHANGED <<mgrVars, peer, opened, snap, sent, msg_seq, applied, countVars>>

\* Killed and started again with the settings of its environment; the
\* collector starts without a snapshot.
RestartAgent(a) ==
  /\ faults < MaxFaults
  /\ faults'  = faults + 1
  /\ LeaveLink(a)
  /\ snap'    = [snap EXCEPT ![a] = 0]
  /\ applied' = [applied EXCEPT ![a] = DefaultSettings]
  /\ UNCHANGED <<mgrVars, peer, opened, sent, msg_seq, taken, beats, updates>>

----------------------------------------------------------------------------
(* The manager *)

\* Mutant of ServeHello: only a broadcast carries the settings.
ServeHelloSilently(c) ==
  /\ handler[c] = "greeting"
  /\ uplink[c] # << >>
  /\ handler'  = [handler EXCEPT ![c] = "serving"]
  /\ uplink'   = [uplink EXCEPT ![c] = Tail(@)]
  /\ latest'   = Cluster!RegisterHello(latest, Node(c), c)
  /\ UNCHANGED <<settings, peer, opened, downlink, agentVars, countVars>>

\* agent_ws reads the hello: it registers the node and queues the settings.
ServeHello(c) ==
  /\ handler[c] = "greeting"
  /\ uplink[c] # << >>
  /\ handler'  = [handler EXCEPT ![c] = "serving"]
  /\ uplink'   = [uplink EXCEPT ![c] = Tail(@)]
  /\ latest'   = Cluster!RegisterHello(latest, Node(c), c)
  /\ downlink' = Reply(c, Config(settings))
  /\ UNCHANGED <<settings, peer, opened, agentVars, countVars>>

ServeSample(c) ==
  LET m == Head(uplink[c]) IN
  /\ Serving(c)
  /\ uplink[c] # << >>
  /\ m.type = "sample"
  /\ uplink'   = [uplink EXCEPT ![c] = Tail(@)]
  /\ latest'   = Cluster!IngestSample(latest, Node(c), c, m.seq, m.sampled_at)
  /\ downlink' = Reply(c, Ack(m.seq))
  /\ UNCHANGED <<settings, handler, peer, opened, agentVars, countVars>>

ServeHeartbeat(c) ==
  LET m == Head(uplink[c]) IN
  /\ Serving(c)
  /\ uplink[c] # << >>
  /\ m.type = "heartbeat"
  /\ uplink'   = [uplink EXCEPT ![c] = Tail(@)]
  /\ latest'   = Cluster!IngestHeartbeat(latest, Node(c), c, m.seq)
  /\ downlink' = Reply(c, Ack(m.seq))
  /\ UNCHANGED <<settings, handler, peer, opened, agentVars, countVars>>

\* WebSocketDisconnect: a handler that knows its node disconnects it; the
\* finally clause takes the queue out of agent_queues and stops the sender,
\* so that what was still queued is lost.
EndHandler(c) ==
  /\ Registered(c)
  /\ latest'  = IF Serving(c) THEN Cluster!Disconnect(latest, Node(c), c) ELSE latest
  /\ handler' = [handler EXCEPT ![c] = "closed"]
  /\ uplink'  = [uplink EXCEPT ![c] = << >>]
  /\ \E onWire \in Prefixes(downlink[c]) : downlink' = [downlink EXCEPT ![c] = onWire]

\* The agent is gone and everything that arrived from it has been read.
ReadDisconnect(c) ==
  /\ ~Linked(c)
  /\ uplink[c] = << >>
  /\ EndHandler(c)
  /\ UNCHANGED <<settings, peer, opened, agentVars, countVars>>

\* The manager's own keepalive gives up first.
PeerTimeout(c) ==
  /\ faults < MaxFaults
  /\ faults' = faults + 1
  /\ EndHandler(c)
  /\ UNCHANGED <<settings, peer, opened, agentVars, taken, beats, updates>>

\* PATCH /api/settings: each field may be left out, and the config goes to
\* every registered queue even when nothing changed.
Patched ==
  [refresh: Refreshes, process: {settings.process} \cup {Max2(MinProcess, p) : p \in Processes}]

\* Mutant of UpdateSettings: only connections opened later learn of it.
UpdateSettingsForNewLinks ==
  /\ updates < MaxUpdates
  /\ updates' = updates + 1
  /\ settings' \in Patched
  /\ UNCHANGED <<latest, handler, netVars, agentVars, taken, beats, faults>>

UpdateSettings ==
  /\ updates < MaxUpdates
  /\ updates' = updates + 1
  /\ settings' \in Patched
  /\ downlink' = [c \in Conns |->
                    IF Registered(c) /\ Linked(c)
                    THEN Append(downlink[c], Config(settings')) ELSE downlink[c]]
  /\ UNCHANGED <<latest, handler, peer, opened, uplink, agentVars, taken, beats, faults>>

\* Nothing the manager knows of its nodes or of its settings is on disk.
RestartManager ==
  /\ faults < MaxFaults
  /\ faults'   = faults + 1
  /\ latest'   = [n \in Nodes |-> NoRuntime]
  /\ settings' = DefaultSettings
  /\ handler'  = [c \in Conns |-> IF Registered(c) THEN "closed" ELSE handler[c]]
  /\ uplink'   = [c \in Conns |-> << >>]
  /\ \E lost \in SUBSET {c \in Conns : downlink[c] # << >>} :
       downlink' = [c \in Conns |-> IF c \in lost THEN << >> ELSE downlink[c]]
  /\ UNCHANGED <<peer, opened, agentVars, taken, beats, updates>>

----------------------------------------------------------------------------

AgentStep(a) ==
  \/ Connect(a)
  \/ TakeSample(a)
  \/ SendSample(a)
  \/ SendHeartbeat(a)
  \/ ReceiveReply(a)
  \/ DropLink(a)
  \/ NoticeClose(a)
  \/ RestartAgent(a)

HandlerStep(c) ==
  \/ ServeHello(c)
  \/ ServeSample(c)
  \/ ServeHeartbeat(c)
  \/ ReadDisconnect(c)
  \/ PeerTimeout(c)

Next ==
  \/ \E a \in Agents : AgentStep(a)
  \/ \E c \in Conns : HandlerStep(c)
  \/ UpdateSettings
  \/ RestartManager

Spec == Init /\ [][Next]_vars

\* The tasks of both event loops run, the agent's retry loop reconnects, and
\* bytes of a connection both ends hold arrive.  Nothing is assumed of users,
\* of the network's faults, or of heartbeats, which need an idle collector.
Fairness ==
  /\ \A a \in Agents : /\ WF_vars(Connect(a))
                       /\ WF_vars(SendSample(a))
                       /\ WF_vars(ReceiveReply(a))
                       /\ WF_vars(NoticeClose(a))
  /\ \A c \in Conns : /\ WF_vars(ServeHello(c))
                      /\ WF_vars(ServeSample(c))
                      /\ WF_vars(ServeHeartbeat(c))
                      /\ WF_vars(ReadDisconnect(c))

FairSpec == Spec /\ Fairness

----------------------------------------------------------------------------
(* Properties *)

\* Every variable stays in its domain.  It backs every other statement about
\* agent_ws, ClusterState and the agent loops.
TypeOK ==
  /\ latest \in [Nodes -> {NoRuntime} \cup Cluster!Runtimes(Nat, Nat)]
  /\ settings \in Settings
  /\ handler \in [Conns -> {"unopened", "greeting", "serving", "closed"}]
  /\ peer \in [Conns -> Agents \cup {NoAgent}]
  /\ opened \in 0 .. MaxConns
  /\ uplink \in [Conns -> Seq(UpMessages)]
  /\ downlink \in [Conns -> Seq(DownMessages)]
  /\ link \in [Agents -> Conns \cup {NoConn}]
  /\ snap \in [Agents -> Nat]
  /\ sent \in [Agents -> Nat]
  /\ msg_seq \in [Agents -> Nat]
  /\ applied \in [Agents -> Settings]
  /\ taken \in Nat
  /\ beats \in [Agents -> Nat]
  /\ updates \in Nat
  /\ faults \in Nat

\* A node is marked connected exactly while the handler of the connection that
\* registered it last is serving: the late disconnect of a replaced connection
\* never takes a live node offline, and a dead owner never stays connected.
ConnectedWhileServed ==
  \A n \in Nodes : latest[n] # NoRuntime =>
    LET c == latest[n].connection_id IN
    /\ peer[c] # NoAgent
    /\ Node(c) = n
    /\ latest[n].connected <=> Serving(c)

\* No sample in flight on the connection that owns a node will be dropped as
\* old: message_seq and last_seq restart together with every connection.
OwnerNeverRejected ==
  \A c \in Conns : \A i \in 1 .. Len(uplink[c]) :
    ( /\ Serving(c)
      /\ latest[Node(c)].connection_id = c
      /\ uplink[c][i].type = "sample" )
    => uplink[c][i].seq > latest[Node(c)].last_seq

Applies(a, s) ==
  /\ applied[a].refresh = s.refresh
  /\ EffectiveProcess(applied[a]) = EffectiveProcess(s)

\* On a served connection the newest config on its way to the agent, or when
\* none is the config the agent has applied, says what the manager's settings
\* are now: no interleaving of PATCH, hello, broadcast and reconnect leaves an
\* agent on old intervals.
ConfigReachesLink ==
  \A c \in Conns : Serving(c) /\ Linked(c) =>
    \/ /\ \A i \in 1 .. Len(downlink[c]) : downlink[c][i].type # "config"
       /\ Applies(peer[c], settings)
    \/ \E i \in 1 .. Len(downlink[c]) :
         /\ downlink[c][i] = Config(settings)
         /\ \A j \in i + 1 .. Len(downlink[c]) : downlink[c][j].type # "config"

Owns(a) ==
  /\ link[a] # NoConn
  /\ Serving(link[a])
  /\ latest[NodeOf[a]].connection_id = link[a]

Shows(n, time) == latest[n] # NoRuntime /\ latest[n].payload = time

NoSampleIn(messages) == \A i \in 1 .. Len(messages) : messages[i].type # "sample"

\* The last sample among the messages was taken at that time.
NewestSampleIn(messages, time) ==
  \E i \in 1 .. Len(messages) :
    /\ messages[i].type = "sample" /\ messages[i].sampled_at = time
    /\ \A j \in i + 1 .. Len(messages) : messages[j].type # "sample"

\* On the connection that owns a node, the snapshot the sender has marked as
\* sent is the newest one on its way, or is the one the manager shows: none
\* that counts as sent was refused, lost with an earlier connection, or
\* covered by a late message of another agent of the node.
NewestReachesOwner ==
  \A a \in Agents : Owns(a) /\ sent[a] # 0 =>
    \/ NewestSampleIn(uplink[link[a]], sent[a])
    \/ NoSampleIn(uplink[link[a]]) /\ Shows(NodeOf[a], sent[a])

\* An agent that keeps the connection which owns its node ends with the
\* manager's settings, and the manager with the agent's newest snapshot.
SettingsArrive ==
  \A a \in Agents : <>[](link[a] # NoConn /\ Serving(link[a])) => <>[]Applies(a, settings)
SamplesArrive ==
  \A a \in Agents : <>[]Owns(a) => <>[](snap[a] = 0 \/ Shows(NodeOf[a], snap[a]))

\* tests/test_cluster.py:76 and plan_stage2.md's reconnect promise that a new
\* connection takes the node over from the old one: an agent that keeps its
\* connection for good is in the end shown as connected.
LinkedAgentShownOnline ==
  \A a \in Agents : <>[](link[a] # NoConn) =>
    <>[](latest[NodeOf[a]] # NoRuntime /\ latest[NodeOf[a]].connected)
----------------------------------------------------------------------------
(* The manager implements NodeRegistry *)

Phase(c) == IF Serving(c) THEN "claimed" ELSE IF handler[c] = "closed" THEN "over" ELSE "idle"

Known(n)  == latest[n] # NoRuntime
Owner(n)  == IF Known(n) THEN latest[n].connection_id ELSE NoConn
Online(n) == Known(n) /\ latest[n].connected
Floor(n)  == IF Known(n) THEN latest[n].last_seq ELSE 0
Shown(n)  == IF Known(n) THEN latest[n].payload ELSE 0

Registry == INSTANCE NodeRegistry WITH
  NoOwner <- NoConn,
  Nothing <- 0,
  phase   <- [c \in Conns |-> Phase(c)],
  owner   <- [n \in Nodes |-> Owner(n)],
  online  <- [n \in Nodes |-> Online(n)],
  floor   <- [n \in Nodes |-> Floor(n)],
  shown   <- [n \in Nodes |-> Shown(n)]

\* Every step of agent_ws and ClusterState is one of the registry's steps, or
\* changes nothing the dashboard shows.
ImplementsRegistry == Registry!Spec
=============================================================================
