------------------------- MODULE AgentControlProofs -------------------------
(***************************************************************************)
(* Theorems about AgentControl for any number of operators and pids: runs  *)
(* of the scripts that are not at the pid file at once leave one agent at  *)
(* most, the file names it, and a stop leaves none.                        *)
(***************************************************************************)
EXTENDS AgentControl, TLAPS

USE PidAssumption

---------------------------------------------------------------------------
(* Types *)

LEMMA StartStepTypes ==
  ASSUME TypeOK, NEW r \in Runs, StartStep(r)
  PROVE  TypeOK'
<1> USE DEF TypeOK, Places, Goto, Read, Cross, InUse, AtFile, nodeVars
<1>1. CASE Start(r) BY <1>1 DEF Start
<1>2. CASE Clear(r) BY <1>2 DEF Clear
<1>3. CASE Extract(r) BY <1>3 DEF Extract
<1>4. CASE GiveUp(r) BY <1>4 DEF GiveUp
<1>5. CASE Look(r) BY <1>5 DEF Look
<1>6. CASE Remove(r) BY <1>6 DEF Remove
<1>7. CASE Launch(r) BY <1>7 DEF Launch
<1>8. CASE LaunchFails(r) BY <1>8 DEF LaunchFails
<1>9. CASE Note(r) BY <1>9 DEF Note
<1> QED BY <1>1, <1>2, <1>3, <1>4, <1>5, <1>6, <1>7, <1>8, <1>9 DEF StartStep

LEMMA StopStepTypes ==
  ASSUME TypeOK, NEW r \in Runs, StopStep(r)
  PROVE  TypeOK'
<1> USE DEF TypeOK, Places, Goto, Read, Cross, AtFile, nodeVars
<1>1. CASE Stop(r) BY <1>1 DEF Stop
<1>2. CASE Find(r) BY <1>2 DEF Find
<1>3. CASE Kill(r) BY <1>3 DEF Kill
<1>4. CASE Forget(r) BY <1>4 DEF Forget
<1> QED BY <1>1, <1>2, <1>3, <1>4 DEF StopStep

LEMMA NodeStepTypes ==
  ASSUME TypeOK, NodeStep
  PROVE  TypeOK'
<1> USE DEF TypeOK, Places, InUse
<1>1. ASSUME NEW p \in Pids, Die(p) PROVE TypeOK'
  BY <1>1 DEF Die
<1>2. ASSUME NEW p \in Pids, OtherStarts(p) PROVE TypeOK'
  BY <1>2 DEF OtherStarts
<1>3. ASSUME NEW p \in Pids, OtherEnds(p) PROVE TypeOK'
  BY <1>3 DEF OtherEnds
<1>4. CASE Reboot BY <1>4 DEF Reboot
<1> QED BY <1>1, <1>2, <1>3, <1>4 DEF NodeStep

\* The node, the pid file and every run of a script stay in their domains; a
\* script that is about to write or to kill a pid has one.
THEOREM TypeCorrect == Spec => []TypeOK
<1>1. Init => TypeOK
  BY DEF Init, TypeOK, Places
<1>2. TypeOK /\ [Next]_vars => TypeOK'
  <2> SUFFICES ASSUME TypeOK, [Next]_vars PROVE TypeOK'
    OBVIOUS
  <2>1. CASE \E r \in Runs : StartStep(r) \/ StopStep(r)
    BY <2>1, StartStepTypes, StopStepTypes
  <2>2. CASE NodeStep
    BY <2>2, NodeStepTypes
  <2>3. CASE UNCHANGED vars
    BY <2>3 DEF vars, nodeVars, TypeOK
  <2> QED BY <2>1, <2>2, <2>3 DEF Next
<1> QED BY <1>1, <1>2, PTL DEF Spec

---------------------------------------------------------------------------
(* One agent *)

\* Who is at the file is there alone.
Alone == \A q, r \in Runs : AtFile(q) /\ AtFile(r) => q = r

\* What a script has made sure of by the time it comes to a command.
Sure(r) ==
  /\ pc[r] \in {"remove", "launch", "forget"} => agents = {}
  /\ pc[r] = "note" => agents \subseteq {pid[r]}
  /\ pc[r] = "kill" => pid[r] = file

NamedByFile == (\A r \in Runs : pc[r] # "note") => agents \subseteq {file}

Uncrossed == Alone /\ (\A r \in Runs : Sure(r)) /\ NamedByFile

ControlInv == ~crossed => Uncrossed

\* A first look at the file that crosses nothing finds all agents there.
LEMMA LookFindsAgents ==
  ASSUME TypeOK, ControlInv, NEW r \in Runs, ~AtFile(r), Cross(r), ~crossed'
  PROVE  /\ ~crossed
         /\ Uncrossed
         /\ \A q \in Runs : ~AtFile(q)
         /\ agents \subseteq {file}
         /\ file = NoPid => agents = {}
<1>1. ~crossed /\ \A q \in Runs \ {r} : ~AtFile(q)
  BY DEF Cross, TypeOK
<1>2. \A q \in Runs : ~AtFile(q)
  BY <1>1
<1>3. Uncrossed
  BY <1>1 DEF ControlInv
<1>4. agents \subseteq {file}
  BY <1>2, <1>3 DEF Uncrossed, NamedByFile, AtFile
<1> QED BY <1>1, <1>2, <1>3, <1>4 DEF TypeOK

\* The step of a run that is at the file, or stays away from it, moves no other.
LEMMA AloneKept ==
  ASSUME TypeOK, Alone, NEW r \in Runs, NEW next, Goto(r, next),
         AtFile(r) \/ next \notin {"remove", "launch", "note", "kill", "forget"}
  PROVE  Alone'
BY DEF TypeOK, Alone, AtFile, Goto

LEMMA StartStepSafe ==
  ASSUME TypeOK, ControlInv, NEW r \in Runs, StartStep(r), ~crossed'
  PROVE  Uncrossed'
<1> USE DEF Goto, Read
<1>0. CASE ~ Look(r)
  <2>0. crossed' = crossed /\ Uncrossed
    BY <1>0 DEF StartStep, ControlInv, Start, Clear, Extract, GiveUp, Remove, Launch, LaunchFails, Note
  <2>1. CASE Start(r) \/ Clear(r) \/ Extract(r) \/ GiveUp(r)
    <3>1. \E next : Goto(r, next) /\ next \in {"clear", "look", "extract", "idle"}
      BY <2>1 DEF Start, Clear, Extract, GiveUp
    <3>2. UNCHANGED <<agents, file, pid>> /\ ~AtFile(r)
      BY <2>1 DEF Start, Clear, Extract, GiveUp, nodeVars, AtFile
    <3> QED BY <2>0, <3>1, <3>2 DEF TypeOK, Uncrossed, Alone, AtFile, Sure, NamedByFile
  <2>2. CASE Remove(r)
    BY <2>0, <2>2 DEF Remove, TypeOK, Uncrossed, Alone, AtFile, Sure, NamedByFile
  <2>3. CASE Launch(r)
    BY <2>0, <2>3 DEF Launch, TypeOK, Uncrossed, Alone, AtFile, Sure, NamedByFile
  <2>4. CASE LaunchFails(r)
    BY <2>0, <2>4 DEF LaunchFails, nodeVars, TypeOK, Uncrossed, Alone, AtFile, Sure, NamedByFile
  <2>5. CASE Note(r)
    BY <2>0, <2>5 DEF Note, TypeOK, Uncrossed, Alone, AtFile, Sure, NamedByFile
  <2> QED BY <1>0, <2>1, <2>2, <2>3, <2>4, <2>5 DEF StartStep
<1>1. CASE Look(r)
  <2>1. UNCHANGED <<agents, others, file>> /\ ~AtFile(r) /\ Cross(r)
    BY <1>1 DEF Look, nodeVars, AtFile
  <2>2. /\ \A q \in Runs : ~AtFile(q)
        /\ agents \subseteq {file}
        /\ file = NoPid => agents = {}
    BY <2>1, LookFindsAgents
  <2>3. \A q \in Runs \ {r} : pc'[q] = pc[q]
    BY <1>1 DEF Look, TypeOK
  <2>4. pc'[r] \in {"remove", "launch"} => agents' = {}
    BY <1>1, <2>1, <2>2 DEF Look, TypeOK, InUse
  <2>5. pc'[r] \in {"idle", "remove", "launch"}
    BY <1>1 DEF Look, TypeOK
  <2> QED BY <2>1, <2>2, <2>3, <2>4, <2>5 DEF Uncrossed, Alone, AtFile, Sure, NamedByFile
<1> QED BY <1>0, <1>1

LEMMA StopStepSafe ==
  ASSUME TypeOK, ControlInv, NEW r \in Runs, StopStep(r), ~crossed'
  PROVE  /\ Uncrossed'
         /\ pc[r] \in {"find", "forget"} /\ pc'[r] = "idle" => agents' = {}
<1> USE DEF Goto, Read
<1>1. CASE Find(r)
  <2>1. UNCHANGED <<agents, file>> /\ ~AtFile(r) /\ Cross(r)
    BY <1>1 DEF Find, nodeVars, AtFile
  <2>2. /\ \A q \in Runs : ~AtFile(q)
        /\ agents \subseteq {file}
        /\ file = NoPid => agents = {}
    BY <2>1, LookFindsAgents
  <2>3. \A q \in Runs \ {r} : pc'[q] = pc[q]
    BY <1>1 DEF Find, TypeOK
  <2>4. /\ pc'[r] \in {"idle", "kill"}
        /\ pid'[r] = file
        /\ pc'[r] = "idle" => file = NoPid
    BY <1>1 DEF Find, TypeOK
  <2> QED BY <2>1, <2>2, <2>3, <2>4 DEF Uncrossed, Alone, AtFile, Sure, NamedByFile
<1>2. CASE ~ Find(r)
  <2>0. crossed' = crossed /\ Uncrossed
    BY <1>2 DEF StopStep, ControlInv, Stop, Kill, Forget
  <2>1. CASE Stop(r)
    BY <2>0, <2>1 DEF Stop, nodeVars, TypeOK, Uncrossed, Alone, AtFile, Sure, NamedByFile
  <2>2. CASE Kill(r)
    <3>1. agents \subseteq {file} /\ pid[r] = file
      BY <2>0, <2>2 DEF Kill, Uncrossed, Alone, AtFile, Sure, NamedByFile
    <3>2. agents' = {}
      BY <2>2, <3>1 DEF Kill
    <3> QED BY <2>0, <2>2, <3>2 DEF Kill, TypeOK, Uncrossed, Alone, AtFile, Sure, NamedByFile
  <2>3. CASE Forget(r)
    BY <2>0, <2>3 DEF Forget, TypeOK, Uncrossed, Alone, AtFile, Sure, NamedByFile
  <2> QED BY <1>2, <2>1, <2>2, <2>3 DEF StopStep
<1> QED BY <1>1, <1>2

LEMMA NodeStepSafe ==
  ASSUME TypeOK, ControlInv, NodeStep, ~crossed'
  PROVE  Uncrossed'
<1>1. CASE Reboot
  BY <1>1 DEF Reboot, Uncrossed, Alone, AtFile, Sure, NamedByFile
<1>2. CASE \E p \in Pids : Die(p) \/ OtherStarts(p) \/ OtherEnds(p)
  <2>1. agents' \subseteq agents /\ UNCHANGED <<file, pc, pid, crossed>>
    BY <1>2 DEF Die, OtherStarts, OtherEnds
  <2> QED BY <2>1 DEF ControlInv, Uncrossed, Alone, AtFile, Sure, NamedByFile
<1> QED BY <1>1, <1>2 DEF NodeStep

LEMMA ControlInvHolds == Spec => []ControlInv
<1>1. Init => ControlInv
  BY DEF Init, ControlInv, Uncrossed, Alone, AtFile, Sure, NamedByFile
<1>2. TypeOK /\ ControlInv /\ [Next]_vars => ControlInv'
  <2> SUFFICES ASSUME TypeOK, ControlInv, [Next]_vars, ~crossed' PROVE Uncrossed'
    BY DEF ControlInv
  <2>1. CASE \E r \in Runs : StartStep(r) \/ StopStep(r)
    BY <2>1, StartStepSafe, StopStepSafe
  <2>2. CASE NodeStep
    BY <2>2, NodeStepSafe
  <2>3. CASE UNCHANGED vars
    BY <2>3 DEF vars, nodeVars, ControlInv, Uncrossed, Alone, AtFile, Sure, NamedByFile
  <2> QED BY <2>1, <2>2, <2>3 DEF Next
<1> QED BY <1>1, <1>2, TypeCorrect, PTL DEF Spec

\* Scripts that are not at the pid file at once never leave two agents.
THEOREM OneAgentHolds == Spec => []OneAgent
<1>1. TypeOK /\ ControlInv => OneAgent
  BY DEF TypeOK, ControlInv, Uncrossed, Alone, AtFile, Sure, NamedByFile, OneAgent
<1> QED BY <1>1, TypeCorrect, ControlInvHolds, PTL

\* Nor an agent the pid file does not name.
THEOREM AgentIsOnFileHolds == Spec => []AgentIsOnFile
<1>1. ControlInv => AgentIsOnFile
  BY DEF ControlInv, Uncrossed, NamedByFile, AgentIsOnFile
<1> QED BY <1>1, ControlInvHolds, PTL

\* The step that ends a stop ends it without an agent.
THEOREM StopLeavesNoneHolds == Spec => StopLeavesNone
<1> DEFINE Ends(r) == pc[r] \in {"find", "forget"} /\ pc'[r] = "idle" /\ ~crossed' => agents' = {}
<1>1. TypeOK /\ ControlInv /\ [Next]_vars => [\A r \in Runs : Ends(r)]_vars
  <2> SUFFICES ASSUME TypeOK, ControlInv, Next, NEW r \in Runs,
                      pc[r] \in {"find", "forget"}, pc'[r] = "idle", ~crossed'
               PROVE  agents' = {}
    OBVIOUS
  <2>1. ASSUME NEW q \in Runs, StartStep(q) \/ StopStep(q) PROVE q = r
    BY <2>1 DEF TypeOK, Goto, StartStep, StopStep, Start, Clear, Extract, GiveUp, Look, Remove,
               Launch, LaunchFails, Note, Stop, Find, Kill, Forget
  <2>2. ~ StartStep(r)
    BY DEF StartStep, Start, Clear, Extract, GiveUp, Look, Remove, Launch, LaunchFails, Note
  <2>3. CASE StopStep(r)
    BY <2>3, StopStepSafe
  <2>4. CASE NodeStep
    BY <2>4 DEF NodeStep, Die, OtherStarts, OtherEnds, Reboot
  <2> QED BY <2>1, <2>2, <2>3, <2>4 DEF Next
<1> QED BY <1>1, TypeCorrect, ControlInvHolds, PTL DEF Spec, StopLeavesNone
=============================================================================
