------------------------------ MODULE Sessions ------------------------------
(***************************************************************************)
(* From the processes of a node to the rows of process_sessions and        *)
(* process_gpu_usages (db.py): the agent's samples are accepted by the     *)
(* manager and wait in the sink's queue; its worker writes them;           *)
(* "constella db maintain", run beside the manager, ends the sessions that *)
(* have not been seen for a while.                                         *)
(*                                                                         *)
(* One node, whose samples are accepted in the order of their times.  What *)
(* they may say is Reportable of NodeProcesses.  An agent that connects    *)
(* anew sends its newest sample again, which is then written twice.        *)
(*                                                                         *)
(* Its clock and the manager's differ by a constant, and neither is set    *)
(* while the system runs.  Of a row the columns that describe the process  *)
(* and its memory are left out, and so is sample_count.                    *)
(***************************************************************************)
EXTENDS NodeProcesses, Sequences

CONSTANTS
  Ahead,         \* the manager's clock minus the node's
  QueueSize,
  Stale,         \* --session-stale-seconds
  Patience,      \* how long a snapshot may be under way and in the queue
  Every,         \* the time between two runs of db maintain
  MaxFaults      \* bound: snapshots lost, writes failed, restarts, ghosts

ASSUME SessionsAssumption ==
  /\ Ahead \in Int
  /\ QueueSize \in Nat
  /\ Stale \in Nat
  /\ Patience \in Nat
  /\ Every \in Nat
  /\ MaxFaults \in Nat

VARIABLES
  queue,      \* AsyncDBSink.queue: [at, processes, late]
  lost,       \* history: a snapshot was lost since the last one that was queued
  written,    \* history: the time of the last snapshot that was written
  sessions,   \* process_sessions
  usages,     \* process_gpu_usages
  maintained, \* history: when db maintain ran last, by the node's clock
  faults      \* what is left of the bound

tableVars == <<sessions, usages>>
vars == <<nodeVars, queue, lost, written, tableVars, maintained, faults>>

Snapshots == [at: Times, processes: SUBSET Details, late: BOOLEAN]
Session   == [status: {"none", "running", "ended"}, first: Times, last: Times]
Usage     == [used: BOOLEAN, first: Times, last: Times]

NoSession == [status |-> "none", first |-> 0, last |-> 0]
NoUsage   == [used |-> FALSE, first |-> 0, last |-> 0]
Exists(k) == sessions[k].status # "none"

Init ==
  /\ NodeInit
  /\ queue      = << >>
  /\ lost       = FALSE
  /\ written    = 0
  /\ sessions   = [k \in Keys |-> NoSession]
  /\ usages     = [k \in Keys |-> [g \in Gpus |-> NoUsage]]
  /\ maintained = 0
  /\ faults     = MaxFaults

Fault == faults > 0 /\ faults' = faults - 1
----------------------------------------------------------------------------
(* From the agent to the queue *)

Come(p) == Start(p) /\ UNCHANGED <<queue, lost, written, tableVars, maintained, faults>>
Go(p)   == Exit(p)  /\ UNCHANGED <<queue, lost, written, tableVars, maintained, faults>>

\* The agent cannot read a list again that k is on, and keeps it (QueryFails,
\* NoHandle and Identify of ProcessListing).
KeepsUnread(k) ==
  /\ k \notin ghosts
  /\ Forget({k})
  /\ Fault
  /\ UNCHANGED <<queue, lost, written, tableVars, maintained>>

\* A snapshot as it is queued; `late` says that one was lost since the one before
\* it in the queue.
Snapshot(at, details) == [at |-> at, processes |-> details, late |-> lost]

\* Mutant of Publish: a queue without a limit.
PublishUnbounded(details, arrives) ==
  /\ Report(details)
  /\ queue'   = IF arrives THEN Append(queue, Snapshot(now, details)) ELSE queue
  /\ lost'    = ~arrives
  /\ IF arrives THEN UNCHANGED faults ELSE Fault
  /\ UNCHANGED <<written, tableVars, maintained>>

\* Mutant of Publish: what the agent keeps still has the processes of samples
\* before.
PublishKeepsOld(details, arrives) ==
  LET kept == arrives /\ Len(queue) < QueueSize IN
  /\ now > sampled
  /\ sampled' = now
  /\ newest'  = newest \cup details
  /\ UNCHANGED <<processVars, ghosts>>
  /\ queue'   = IF kept THEN Append(queue, Snapshot(now, details)) ELSE queue
  /\ lost'    = ~kept
  /\ IF arrives THEN UNCHANGED faults ELSE Fault
  /\ UNCHANGED <<written, tableVars, maintained>>

\* The agent's sample is accepted by the manager and submitted.  Or it is lost:
\* with its connection or its agent, to a newer one, or to a full queue.
Publish(details, arrives) ==
  LET kept == arrives /\ Len(queue) < QueueSize IN
  /\ Report(details)
  /\ queue'   = IF kept THEN Append(queue, Snapshot(now, details)) ELSE queue
  /\ lost'    = ~kept
  /\ IF arrives THEN UNCHANGED faults ELSE Fault
  /\ UNCHANGED <<written, tableVars, maintained>>

\* The connection is lost and the agent opens another one, on which the newest
\* sample goes out (_sender_loop starts at 0) and is accepted (register_hello
\* resets last_seq) whatever became of it before.  (An agent that was started
\* anew has none to send: this allows more.)
Resend ==
  /\ 0 < sampled
  /\ now <= sampled + Patience
  /\ Len(queue) < QueueSize
  /\ queue' = Append(queue, Snapshot(sampled, newest))
  /\ lost'  = FALSE
  /\ UNCHANGED <<nodeVars, written, tableVars, maintained, faults>>
----------------------------------------------------------------------------
(* The worker *)

\* Mutant of Reported: what has ended stays ended.
ReportedOnce(s, at) ==
  [status |-> IF s.status = "ended" THEN "ended" ELSE "running",
   first  |-> IF s.status = "none" THEN at ELSE s.first,
   last   |-> at]

\* The upsert of _write_process: a session that is reported runs, whatever
\* it was before.
Reported(s, at) ==
  [status |-> "running",
   first  |-> IF s.status = "none" THEN at ELSE s.first,
   last   |-> at]

\* Mutant of Used: the upsert leaves last_seen_at alone.
UsedFirst(u, at) == [used |-> TRUE, first |-> IF u.used THEN u.first ELSE at,
                     last |-> IF u.used THEN u.last ELSE at]

Used(u, at) == [used |-> TRUE, first |-> IF u.used THEN u.first ELSE at, last |-> at]

In(m)    == {SessionOf(d) : d \in m.processes}
On(m, g) == {SessionOf(d) : d \in {d \in m.processes : d.gpu = g}}

\* write_node_snapshot, one transaction: a session is upserted once however
\* many GPUs its process is on, a usage for each.
Write ==
  LET m == Head(queue) IN
  /\ queue # << >>
  /\ queue'    = Tail(queue)
  /\ written'  = m.at
  /\ sessions' = [k \in Keys |-> IF k \in In(m) THEN Reported(sessions[k], m.at) ELSE sessions[k]]
  /\ usages'   = [k \in Keys |-> [g \in Gpus |->
                    IF k \in On(m, g) THEN Used(usages[k][g], m.at) ELSE usages[k][g]]]
  /\ UNCHANGED <<nodeVars, lost, maintained, faults>>

\* The transaction fails and is rolled back, and the snapshot is skipped.
WriteFails ==
  /\ queue # << >>
  /\ queue' = [i \in 1 .. Len(queue) - 1 |->
                 [queue[i + 1] EXCEPT !.late = @ \/ i = 1]]
  /\ lost'  = (lost \/ Len(queue) = 1)
  /\ Fault
  /\ UNCHANGED <<nodeVars, written, tableVars, maintained>>

\* The manager process ends and starts anew, without what was in the queue.
RestartManager ==
  /\ queue # << >>
  /\ queue' = << >>
  /\ lost'  = TRUE
  /\ Fault
  /\ UNCHANGED <<nodeVars, written, tableVars, maintained>>
----------------------------------------------------------------------------
(* Maintenance and time *)

\* Mutant of Overdue: time goes by the snapshots that are written.
OverdueByRows(s) == s.status = "running" /\ s.last < written - Stale

\* close_stale_sessions, by the clock of the manager's host.
Overdue(s) == s.status = "running" /\ s.last < now + Ahead - Stale

\* "constella db maintain".
Maintain ==
  /\ sessions'   = [k \in Keys |-> IF Overdue(sessions[k])
                                   THEN [sessions[k] EXCEPT !.status = "ended"]
                                   ELSE sessions[k]]
  /\ maintained' = now
  /\ UNCHANGED <<nodeVars, queue, lost, written, usages, faults>>

\* Samples are taken at their rate (ProcessListing's Tick), snapshots written in
\* time, and the maintenance runs at its rate.
Tick ==
  /\ Pass
  /\ \A i \in 1 .. Len(queue) : now < queue[i].at + Patience
  /\ now < maintained + Every
  /\ UNCHANGED <<queue, lost, written, tableVars, maintained, faults>>

Next ==
  \/ \E p \in Procs : Come(p) \/ Go(p)
  \/ \E k \in Heard : KeepsUnread(k)
  \/ \E details \in SUBSET Reportable, arrives \in BOOLEAN : Publish(details, arrives)
  \/ Resend
  \/ Write \/ WriteFails
  \/ RestartManager
  \/ Maintain
  \/ Tick

Spec == Init /\ [][Next]_vars
----------------------------------------------------------------------------
(* Properties *)

\* Every variable stays in its domain.
TypeOK ==
  /\ NodeTypeOK
  /\ queue \in Seq(Snapshots)
  /\ Len(queue) <= QueueSize
  /\ lost \in BOOLEAN
  /\ written \in Times
  /\ sessions \in [Keys -> Session]
  /\ usages \in [Keys -> [Gpus -> Usage]]
  /\ maintained \in Times
  /\ faults \in Nat

\* Stale seconds are more than clocks, sampling and the queue take together.
StaleIsLong == Stale >= Ahead + Refresh + Slow + Patience

\* No snapshot was lost since the last one that was written.
InTouch == IF queue = << >> THEN ~lost ELSE ~Head(queue).late

\* db maintain does not end a session that the last snapshot showed: however
\* late the next one is written, the session is running until then, as long as
\* no snapshot was lost.
ReportedStaysOpen ==
  StaleIsLong /\ InTouch =>
    \A k \in Keys : Exists(k) /\ sessions[k].last = written => sessions[k].status = "running"

Larger(a, b) == IF a > b THEN a ELSE b

\* From the end of a process to that of its session.
Bound == Fresh + Larger(Stale - Ahead, Patience) + Every

\* A session that is running is of a process that was alive not long ago: the
\* caches of the agent, the queue and the maintenance end it in time, and a late
\* snapshot that starts it again does so for no longer than that; whatever is
\* lost.  Sessions on a list that the agent kept unread are the exception.
RunningWasAlive ==
  \A k \in Keys \ ghosts : sessions[k].status = "running" => AliveSince(k, now - Bound)

\* A session covers the usages of its GPUs and nothing else: a snapshot that is
\* written twice is no exception.
SessionMatchesUsages ==
  \A k \in Keys :
    LET on == {g \in Gpus : usages[k][g].used} IN
    /\ Exists(k) <=> on # {}
    /\ \A g \in on : sessions[k].first <= usages[k][g].first /\ usages[k][g].last <= sessions[k].last
    /\ Exists(k) => /\ \E g \in on : usages[k][g].first = sessions[k].first
                    /\ \E g \in on : usages[k][g].last = sessions[k].last

\* A snapshot that is written again changes no row (sample_count, which counts
\* it twice, is left out): the sessions it shows have been neither ended nor
\* overtaken since.
SentAgainChangesNothing ==
  [][StaleIsLong /\ Write /\ queue[1].at = written => UNCHANGED tableVars]_vars
=============================================================================
