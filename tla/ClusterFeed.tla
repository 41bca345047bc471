---------------------------- MODULE ClusterFeed ----------------------------
(***************************************************************************)
(* How what ClusterState knows reaches the open dashboards: the counter    *)
(* _seq and the asyncio.Event behind wait_for_update, both shared by all   *)
(* /ws/cluster handlers (app.py, cluster_ws), and the passing of time that *)
(* turns a silent node stale and then offline (cluster.py, _status).       *)
(*                                                                         *)
(* The agent handlers appear only as the calls they make on ClusterState;  *)
(* AgentLink has them in full.  A tick is the unit of StaleAfter and       *)
(* OfflineAfter.                                                           *)
(***************************************************************************)
EXTENDS Integers

CONSTANTS
  Nodes, Conns, NoRuntime, StaleAfter, OfflineAfter,   \* as in ClusterState
  NoNode,      \* what a connection serves before its hello
  Over,        \* what it serves once it is gone
  Watchers,    \* dashboards: each has one /ws/cluster connection at a time
  Absent,      \* a node a snapshot does not list
  MaxSeq       \* bound: how often ClusterState may change

ASSUME FeedAssumption ==
  /\ StaleAfter \in Nat
  /\ OfflineAfter \in Nat
  /\ StaleAfter <= OfflineAfter
  /\ MaxSeq \in Nat
  /\ NoNode \notin Nodes
  /\ Over \notin Nodes

\* A payload tells apart what the tests of _status and a page tell apart.
NoPayload == "none"
Payloads  == {NoPayload, "fine", "broken"}   \* a broken one carries an error

Cluster == INSTANCE ClusterState

ASSUME RuntimeAssumption == NoRuntime \notin Cluster!Runtimes(Payloads, 0 .. MaxSeq)

VARIABLES
  latest,   \* latest_by_node
  seq,      \* _seq
  event,    \* is the asyncio.Event set
  serves,   \* the node an agent connection said hello for
  pc,       \* where a watcher's handler is
  last,     \* its last_seq
  view,     \* the snapshot it sent last
  gone      \* has its page closed the socket

mapVars     == <<latest, seq, event, serves>>
watcherVars == <<pc, last, view, gone>>
vars        == <<latest, seq, event, serves, pc, last, view, gone>>

Nothing == [n \in Nodes |-> Absent]

Init ==
  /\ latest = [n \in Nodes |-> NoRuntime]
  /\ seq    = 0
  /\ event  = FALSE
  /\ serves = [c \in Conns |-> NoNode]
  /\ pc     = [w \in Watchers |-> "closed"]
  /\ last   = [w \in Watchers |-> -1]
  /\ view   = [w \in Watchers |-> Nothing]
  /\ gone   = [w \in Watchers |-> TRUE]
----------------------------------------------------------------------------
(* The map changes *)

\* _bump: the counter, then the event, which releases whoever waits on it.
\* A handler released from its wait goes on to its sleep.
Bump ==
  /\ seq < MaxSeq
  /\ seq'   = seq + 1
  /\ event' = TRUE
  /\ pc'    = [w \in Watchers |-> IF pc[w] = "waiting" THEN "pacing" ELSE pc[w]]

Hello(c, n) ==
  /\ serves[c] = NoNode
  /\ serves' = [serves EXCEPT ![c] = n]
  /\ latest' = Cluster!RegisterHello(latest, n, c)
  /\ Bump
  /\ UNCHANGED <<last, view, gone>>

\* A sample of a connection that lost the node is refused and changes nothing.
Sample(c, payload) ==
  LET n == serves[c] IN
  /\ n \in Nodes
  /\ Cluster!Accepts(latest, n, c, latest[n].last_seq + 1)
  /\ latest' = Cluster!IngestSample(latest, n, c, latest[n].last_seq + 1, payload)
  /\ Bump
  /\ UNCHANGED <<serves, last, view, gone>>

Heartbeat(c) ==
  LET n == serves[c] IN
  /\ n \in Nodes
  /\ Cluster!ConnectionMatches(latest[n], c)
  /\ latest' = Cluster!IngestHeartbeat(latest, n, c, latest[n].last_seq + 1)
  /\ Bump
  /\ UNCHANGED <<serves, last, view, gone>>

\* Mutant of Disconnect: the map changes and nobody is told.
DisconnectQuietly(c) ==
  LET n == serves[c] IN
  /\ n \in Nodes
  /\ serves' = [serves EXCEPT ![c] = Over]
  /\ latest' = Cluster!Disconnect(latest, n, c)
  /\ UNCHANGED <<seq, event, watcherVars>>

Disconnect(c) ==
  LET n == serves[c] IN
  /\ n \in Nodes
  /\ serves' = [serves EXCEPT ![c] = Over]
  /\ latest' = Cluster!Disconnect(latest, n, c)
  /\ IF Cluster!ConnectionMatches(latest[n], c)
     THEN Bump
     ELSE UNCHANGED <<seq, event, pc>>
  /\ UNCHANGED <<last, view, gone>>

\* Time passes; nothing in the manager takes note of it.
Tick ==
  /\ Cluster!Aged(latest) # latest
  /\ latest' = Cluster!Aged(latest)
  /\ UNCHANGED <<seq, event, serves, watcherVars>>
----------------------------------------------------------------------------
(* The handler of a watcher *)

HasError(runtime) == runtime.payload = "broken"

\* What snapshot() says of a runtime.
Entry(runtime) ==
  [payload |-> runtime.payload, status |-> Cluster!Status(runtime, HasError(runtime))]

Snapshot ==
  [n \in Nodes |-> IF latest[n] = NoRuntime THEN Absent ELSE Entry(latest[n])]

Open(w) ==
  /\ pc[w] = "closed"
  /\ pc'   = [pc EXCEPT ![w] = "polling"]
  /\ gone' = [gone EXCEPT ![w] = FALSE]
  /\ UNCHANGED <<mapVars, last, view>>

\* The page leaves; the handler, which never reads, only learns of it when a
\* send fails.
Leave(w) ==
  /\ ~gone[w]
  /\ gone' = [gone EXCEPT ![w] = TRUE]
  /\ UNCHANGED <<mapVars, pc, last, view>>

\* The top of the loop: a snapshot, sent if its seq is new.  Sending to a page
\* that left ends the handler, and its locals with it.
Poll(w) ==
  /\ pc[w] = "polling"
  /\ IF seq # last[w] /\ gone[w]
     THEN /\ pc'   = [pc EXCEPT ![w] = "closed"]
          /\ last' = [last EXCEPT ![w] = -1]
          /\ view' = [view EXCEPT ![w] = Nothing]
     ELSE /\ pc'   = [pc EXCEPT ![w] = "checking"]
          /\ last' = [last EXCEPT ![w] = seq]
          /\ view' = IF seq # last[w] THEN [view EXCEPT ![w] = Snapshot] ELSE view
  /\ UNCHANGED <<mapVars, gone>>

\* wait_for_update up to its await.  send_json may have let others run since
\* the snapshot, so the counter is looked at again before the clear.
Check(w) ==
  /\ pc[w] = "checking"
  /\ IF seq > last[w]
     THEN pc' = [pc EXCEPT ![w] = "pacing"] /\ UNCHANGED event
     ELSE pc' = [pc EXCEPT ![w] = "entering"] /\ event' = FALSE
  /\ UNCHANGED <<latest, seq, serves, last, view, gone>>

\* Up to Python 3.11 wait_for runs event.wait() as a task of its own, so that
\* others may run, and clear the event again, before the wait begins.
Enter(w) ==
  /\ pc[w] = "entering"
  /\ pc' = [pc EXCEPT ![w] = IF event THEN "pacing" ELSE "waiting"]
  /\ UNCHANGED <<mapVars, last, view, gone>>

\* Mutant of TimeOut: the handler waits for the event alone.
NeverTimesOut(w) == FALSE /\ UNCHANGED vars

\* Nothing came within the refresh interval.
TimeOut(w) ==
  /\ pc[w] = "waiting"
  /\ pc' = [pc EXCEPT ![w] = "pacing"]
  /\ UNCHANGED <<mapVars, last, view, gone>>

\* The rest of the refresh interval is slept away.
Pace(w) ==
  /\ pc[w] = "pacing"
  /\ pc' = [pc EXCEPT ![w] = "polling"]
  /\ UNCHANGED <<mapVars, last, view, gone>>
----------------------------------------------------------------------------

AgentStep(c) ==
  \/ \E n \in Nodes : Hello(c, n)
  \/ \E payload \in {"fine", "broken"} : Sample(c, payload)
  \/ Heartbeat(c)
  \/ Disconnect(c)

HandlerStep(w) == Poll(w) \/ Check(w) \/ Enter(w) \/ TimeOut(w) \/ Pace(w)

Next ==
  \/ \E c \in Conns : AgentStep(c)
  \/ Tick
  \/ \E w \in Watchers : Open(w) \/ Leave(w) \/ HandlerStep(w)

Spec == Init /\ [][Next]_vars

\* The event loop runs every handler, and its timers fire.  Agents and pages
\* owe nothing.
FairSpec == Spec /\ \A w \in Watchers : WF_vars(HandlerStep(w))
----------------------------------------------------------------------------
(* Properties *)

\* Every variable stays in its domain.
TypeOK ==
  /\ latest \in [Nodes -> {NoRuntime} \cup Cluster!Runtimes(Payloads, 0 .. MaxSeq)]
  /\ seq \in 0 .. MaxSeq
  /\ event \in BOOLEAN
  /\ serves \in [Conns -> Nodes \cup {NoNode, Over}]
  /\ pc \in [Watchers -> {"closed", "polling", "checking", "entering", "waiting", "pacing"}]
  /\ last \in [Watchers -> -1 .. MaxSeq]
  /\ view \in [Watchers -> [Nodes -> {Absent} \cup
       [payload: Payloads, status: {"online", "stale", "offline", "error"}]]]
  /\ gone \in [Watchers -> BOOLEAN]

\* What snapshot() would have said of a node at some moment since the manager
\* last heard of it.
SaidSince(n, entry) ==
  IF latest[n] = NoRuntime THEN entry = Absent
  ELSE \E age \in 0 .. latest[n].age : entry = Entry([latest[n] EXCEPT !.age = age])

\* A page whose last_seq is current lacks nothing but the passing of time: no
\* hello, sample or disconnect can hide behind an unchanged counter, however
\* handlers and agents interleave.
CaughtUpIsExact ==
  \A w \in Watchers : pc[w] # "closed" /\ last[w] = seq =>
    \A n \in Nodes : SaidSince(n, view[w][n])

\* Every change reaches every page that stays: the one event all handlers
\* share may be cleared by one of them while another is about to wait for it,
\* and the timeout makes up for the wake-up that was lost.
EveryChangeIsSent ==
  \A w \in Watchers : []<>(pc[w] = "closed" \/ gone[w] \/ last[w] = seq)

Silent(n) ==
  /\ latest[n] # NoRuntime
  /\ latest[n].connected
  /\ latest[n].age > OfflineAfter

\* plan_stage2.md: a node that times out turns stale, then offline, in the
\* overview.  A page that stays open is told of a node that stays silent.
SilenceIsShown ==
  \A w \in Watchers : \A n \in Nodes :
    <>[](pc[w] # "closed" /\ ~gone[w] /\ Silent(n))
      => <>(view[w][n] # Absent /\ view[w][n].status \in {"stale", "offline"})
=============================================================================
