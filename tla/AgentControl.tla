---------------------------- MODULE AgentControl ----------------------------
(***************************************************************************)
(* Starting and stopping the agent of one node over ssh (cluster_control.py*)
(* with the two scripts it renders; scripts/service has the same pattern). *)
(* The only thing the runs of the scripts share is a pid file, and nothing *)
(* keeps two operators from running them at once: a step is one command.   *)
(*                                                                         *)
(* The node hands out any free pid, so that a stale pid file may come to   *)
(* name another process of the same user.  Nodes do not interact, answers  *)
(* are not kept, and the status command, which changes nothing, is left    *)
(* out.                                                                    *)
(***************************************************************************)
CONSTANTS
  Runs,    \* operators: each runs one command at a time
  Pids,
  NoPid    \* no pid file, or none read yet

ASSUME PidAssumption == NoPid \notin Pids

VARIABLES
  agents,    \* pids of agent processes
  others,    \* pids of other processes of the same user
  file,      \* what run/agent.pid holds
  runtime,   \* is agent/runtime/constella there
  pc,        \* the command a run comes to next
  pid,       \* old_pid, $! or pid in its script
  crossed    \* have two scripts been at the pid file at once since the boot

nodeVars == <<agents, others, file, runtime>>
vars     == <<nodeVars, pc, pid, crossed>>

\* Between its first look at the pid file and its last change of it.
AtFile(r) == pc[r] \in {"remove", "launch", "note", "kill", "forget"}

InUse == agents \cup others

Init ==
  /\ agents  = {}
  /\ others  = {}
  /\ file    = NoPid
  /\ runtime = FALSE
  /\ pc      = [r \in Runs |-> "idle"]
  /\ pid     = [r \in Runs |-> NoPid]
  /\ crossed = FALSE

Goto(r, next) == pc' = [pc EXCEPT ![r] = next]
Read(r, p)    == pid' = [pid EXCEPT ![r] = p]
Cross(r)      == crossed' = (crossed \/ \E q \in Runs \ {r} : AtFile(q))
----------------------------------------------------------------------------
(* start_node *)

\* With --no-sync the runtime on the node is used as it is.
Start(r) ==
  /\ pc[r] = "idle"
  /\ Goto(r, "clear") \/ Goto(r, "look")
  /\ UNCHANGED <<nodeVars, pid, crossed>>

\* _sync_agent_runtime removes the old runtime, whoever may be using it.  It does
\* not notice if that fails.
Clear(r) ==
  /\ pc[r] = "clear"
  /\ runtime' \in {FALSE, runtime}
  /\ Goto(r, "extract")
  /\ UNCHANGED <<agents, others, file, pid, crossed>>

Extract(r) ==
  /\ pc[r] = "extract"
  /\ runtime' = TRUE
  /\ Goto(r, "look")
  /\ UNCHANGED <<agents, others, file, pid, crossed>>

\* tar, or writing the env file or the script, fails: start_node reports it and
\* goes no further.  A broken tar may have made the directory.
GiveUp(r) ==
  /\ pc[r] \in {"extract", "look"}
  /\ runtime' \in IF pc[r] = "extract" THEN {TRUE, runtime} ELSE {runtime}
  /\ Goto(r, "idle")
  /\ UNCHANGED <<agents, others, file, pid, crossed>>

\* Mutant of Look: a pid file that is there is taken for stale.
LookAway(r) ==
  /\ pc[r] = "look"
  /\ Read(r, file)
  /\ Goto(r, IF file = NoPid THEN "launch" ELSE "remove")
  /\ Cross(r)
  /\ UNCHANGED nodeVars

\* The top of the start script: "running" if kill -0 reaches the pid of the
\* file, whatever process that is.
Look(r) ==
  /\ pc[r] = "look"
  /\ Read(r, file)
  /\ Goto(r, IF file \in InUse THEN "idle" ELSE IF file = NoPid THEN "launch" ELSE "remove")
  /\ Cross(r)
  /\ UNCHANGED nodeVars

Remove(r) ==
  /\ pc[r] = "remove"
  /\ file' = NoPid
  /\ Goto(r, "launch")
  /\ UNCHANGED <<agents, others, runtime, pid, crossed>>

\* Mutant of Launch: the pid of the new agent is not asked for.
LaunchUnseen(r) ==
  /\ pc[r] = "launch"
  /\ runtime
  /\ \E p \in Pids \ InUse : agents' = agents \cup {p} /\ Read(r, NoPid)
  /\ Goto(r, "note")
  /\ UNCHANGED <<others, file, runtime, crossed>>

Launch(r) ==
  /\ pc[r] = "launch"
  /\ runtime
  /\ \E p \in Pids \ InUse : agents' = agents \cup {p} /\ Read(r, p)
  /\ Goto(r, "note")
  /\ UNCHANGED <<others, file, runtime, crossed>>

\* No runtime, no env file or no Python: the script exits before the launch.
LaunchFails(r) ==
  /\ pc[r] = "launch"
  /\ Goto(r, "idle")
  /\ UNCHANGED <<nodeVars, pid, crossed>>

\* Mutant of Note: the pid is not written.
NoteNothing(r) ==
  /\ pc[r] = "note"
  /\ Goto(r, "idle")
  /\ UNCHANGED <<nodeVars, pid, crossed>>

\* echo $! > "$PID".  What follows only reads: it says started or failed.
Note(r) ==
  /\ pc[r] = "note"
  /\ file' = pid[r]
  /\ Goto(r, "idle")
  /\ UNCHANGED <<agents, others, runtime, pid, crossed>>
----------------------------------------------------------------------------
(* stop_node *)

Stop(r) ==
  /\ pc[r] = "idle"
  /\ Goto(r, "find")
  /\ UNCHANGED <<nodeVars, pid, crossed>>

Find(r) ==
  /\ pc[r] = "find"
  /\ Read(r, file)
  /\ Goto(r, IF file = NoPid THEN "idle" ELSE "kill")
  /\ Cross(r)
  /\ UNCHANGED nodeVars

\* Mutant of Kill: the signal is one the agent survives.
KillNothing(r) ==
  /\ pc[r] = "kill"
  /\ Goto(r, "forget")
  /\ UNCHANGED <<nodeVars, pid, crossed>>

\* The agent does not handle SIGTERM, and neither may another process that has
\* its pid.
Kill(r) ==
  /\ pc[r] = "kill"
  /\ agents' = agents \ {pid[r]}
  /\ others' = others \ {pid[r]}
  /\ Goto(r, "forget")
  /\ UNCHANGED <<file, runtime, pid, crossed>>

Forget(r) ==
  /\ pc[r] = "forget"
  /\ file' = NoPid
  /\ Goto(r, "idle")
  /\ UNCHANGED <<agents, others, runtime, pid, crossed>>
----------------------------------------------------------------------------
(* The node *)

Die(p) ==
  /\ p \in agents
  /\ agents' = agents \ {p}
  /\ UNCHANGED <<others, file, runtime, pc, pid, crossed>>

OtherStarts(p) ==
  /\ p \notin InUse
  /\ others' = others \cup {p}
  /\ UNCHANGED <<agents, file, runtime, pc, pid, crossed>>

OtherEnds(p) ==
  /\ p \in others
  /\ others' = others \ {p}
  /\ UNCHANGED <<agents, file, runtime, pc, pid, crossed>>

\* Only files outlive it: the pid file, stale, and the runtime.
Reboot ==
  /\ agents'  = {}
  /\ others'  = {}
  /\ pc'      = [r \in Runs |-> "idle"]
  /\ pid'     = [r \in Runs |-> NoPid]
  /\ crossed' = FALSE
  /\ UNCHANGED <<file, runtime>>
----------------------------------------------------------------------------

StartStep(r) ==
  \/ Start(r) \/ Clear(r) \/ Extract(r) \/ GiveUp(r) \/ Look(r) \/ Remove(r)
  \/ Launch(r) \/ LaunchFails(r) \/ Note(r)

StopStep(r) == Stop(r) \/ Find(r) \/ Kill(r) \/ Forget(r)

NodeStep == (\E p \in Pids : Die(p) \/ OtherStarts(p) \/ OtherEnds(p)) \/ Reboot

Next == (\E r \in Runs : StartStep(r) \/ StopStep(r)) \/ NodeStep

Spec == Init /\ [][Next]_vars
----------------------------------------------------------------------------
(* Properties *)

Places ==
  {"idle", "clear", "extract", "look", "remove", "launch", "note", "find", "kill", "forget"}

\* Every variable stays in its domain, and a script that is about to write or
\* to kill a pid has one.
TypeOK ==
  /\ agents \subseteq Pids
  /\ others \subseteq Pids
  /\ agents \cap others = {}
  /\ file \in Pids \cup {NoPid}
  /\ runtime \in BOOLEAN
  /\ pc \in [Runs -> Places]
  /\ pid \in [Runs -> Pids \cup {NoPid}]
  /\ \A r \in Runs : pc[r] \in {"note", "kill"} => pid[r] \in Pids
  /\ crossed \in BOOLEAN

\* docs/plan_stage2.md:1094 says of start.sh that running it again does not start
\* an agent again.  However often start and stop are run, after crashes, reboots
\* and with pids used again, there is one agent at most, unless two runs were at
\* the pid file at once.
OneAgent == ~crossed => \A p, q \in agents : p = q

\* Nor is there an agent that no stop would find: the file names it, but for the
\* moment between its launch and the note.
AgentIsOnFile ==
  ~crossed /\ (\A r \in Runs : pc[r] # "note") => agents \subseteq {file}

\* A stop that ran by itself leaves no agent behind, whichever way it ends.
StopLeavesNone ==
  [][\A r \in Runs :
       pc[r] \in {"find", "forget"} /\ pc'[r] = "idle" /\ ~crossed' => agents' = {}]_vars
=============================================================================
