---------------------------- MODULE NodeProcesses ----------------------------
(***************************************************************************)
(* The processes of a node as the agent and the manager speak of them:     *)
(* which of them live, the sessions they are told apart by, and what a     *)
(* sample of the agent may say of them.  NodeSpec is what the agent        *)
(* promises: ProcessListing is shown to keep it, and Sessions is built     *)
(* from its actions.                                                       *)
(***************************************************************************)
EXTENDS Integers, FiniteSets

CONSTANTS
  Procs,         \* process instances; each stands for its start time
  Pids,
  Pid,           \* [Procs -> Pids]: pids are used again
  Unreadable,    \* processes whose start time /proc may not tell while they live
  Gpus,          \* what a sample calls its GPUs
  Longest,       \* the longest process interval that may be set
  Refresh,       \* the longest wait for the next sample
  Slow,          \* how long a sample may take
  MaxTime        \* bound: how far the clock goes

Times   == 0 .. MaxTime
Unknown == "unknown"   \* the start time of a pid that /proc does not tell

ASSUME ProcessesAssumption ==
  /\ IsFiniteSet(Procs)
  /\ Unknown \notin Procs
  /\ Pid \in [Procs -> Pids]
  /\ Unreadable \subseteq Procs
  /\ Longest \in Nat
  /\ Refresh \in Nat
  /\ Slow \in Nat
  /\ MaxTime \in Nat

VARIABLES
  now,       \* the node's time
  life,      \* of a process: "unborn", "alive", "gone"
  died,      \* when a process that is gone ended
  sampled,   \* when the last sample was finished: Snapshot.timestamp
  newest,    \* what it said of processes
  ghosts     \* history: sessions on a list that was kept as it could not be read

processVars == <<now, life, died>>
nodeVars    == <<processVars, sampled, newest, ghosts>>

Starts  == Procs \cup {Unknown}
Details == [gpu: Gpus, pid: Pids, start: Starts]

\* process_session_id.
SessionOf(d) == <<d.pid, d.start>>
Keys == Pids \X Starts

Alive(p) == life[p] = "alive"

\* process_start_time_seconds: of the process the pid is of now.  None, when there
\* is no such process, or its stat (or the time of boot) cannot be read.
Holders(pid)  == {p \in Procs : Alive(p) /\ Pid[p] = pid}
StartsOf(pid) == Holders(pid) \cup {s \in {Unknown} : Holders(pid) \subseteq Unreadable}

NodeInit ==
  /\ now     = 0
  /\ life    = [p \in Procs |-> "unborn"]
  /\ died    = [p \in Procs |-> 0]
  /\ sampled = 0
  /\ newest  = {}
  /\ ghosts  = {}

Start(p) ==
  /\ life[p] = "unborn"
  /\ \A q \in Procs : Alive(q) => Pid[q] # Pid[p]
  /\ life' = [life EXCEPT ![p] = "alive"]
  /\ UNCHANGED <<now, died, sampled, newest, ghosts>>

Exit(p) ==
  /\ Alive(p)
  /\ life' = [life EXCEPT ![p] = "gone"]
  /\ died' = [died EXCEPT ![p] = now]
  /\ UNCHANGED <<now, sampled, newest, ghosts>>
----------------------------------------------------------------------------
(* What a session says *)

\* The processes it may be of: one without a start time, any of its pid.
Candidates(k) == {p \in Procs : Pid[p] = k[1] /\ k[2] \in {p, Unknown}}

\* One of them was alive at or after a time.
AliveSince(k, at) ==
  \E p \in Candidates(k) : Alive(p) \/ (life[p] = "gone" /\ died[p] >= at)

\* What a sample may carry of a process can be this old: a listing was begun
\* Slow before its end, stands for an interval, and goes out Slow later.
Fresh == Longest + 2 * Slow

\* No start time: one of the pid has ended, or is one /proc need not tell of.
MayBeNameless(d) ==
  d.start = Unknown => \E p \in Procs : Pid[p] = d.pid /\ (life[p] = "gone" \/ p \in Unreadable)

Reportable ==
  {d \in Details : /\ AliveSince(SessionOf(d), now - Fresh) \/ SessionOf(d) \in ghosts
                   /\ MayBeNameless(d)}

----------------------------------------------------------------------------
(* What the agent promises *)

\* A sample is finished, which carries no more than what is Reportable.
Report(details) ==
  /\ now > sampled
  /\ sampled' = now
  /\ newest'  = details
  /\ UNCHANGED <<processVars, ghosts>>

\* Sessions of processes that have been seen.
Heard == {k \in Keys : \E p \in Candidates(k) : life[p] # "unborn"}

\* A list of the agent's, of sessions in Heard, is kept as it cannot be read again.
Forget(keys) ==
  /\ ghosts' = ghosts \cup keys
  /\ UNCHANGED <<processVars, sampled, newest>>

\* The next sample is finished within Refresh and Slow of the last one.
Pass ==
  /\ now < MaxTime
  /\ now < sampled + Refresh + Slow
  /\ now' = now + 1
  /\ UNCHANGED <<life, died, sampled, newest, ghosts>>

NodeNext ==
  \/ \E p \in Procs : Start(p) \/ Exit(p)
  \/ newest' \subseteq Reportable /\ Report(newest')
  \/ ghosts' \subseteq Heard /\ Forget(ghosts')
  \/ Pass

NodeSpec == NodeInit /\ [][NodeNext]_nodeVars

NodeTypeOK ==
  /\ now \in Times
  /\ life \in [Procs -> {"unborn", "alive", "gone"}]
  /\ died \in [Procs -> Times]
  /\ sampled \in Times
  /\ newest \subseteq Details
  /\ ghosts \subseteq Keys
=============================================================================
