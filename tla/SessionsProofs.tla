--------------------------- MODULE SessionsProofs ---------------------------
(***************************************************************************)
(* Theorems about Sessions, for every set of processes and every bound.    *)
(*                                                                         *)
(* The argument: snapshots wait in the order of their times (Ordered) and  *)
(* none for long (Timely).  Where none is lost, one follows another within *)
(* the pace of the agent (Chain), so that maintenance does not find the    *)
(* last one old.  And what a row was last written for was alive shortly    *)
(* before that time (Rooted), to which maintenance keeps close (Recent).   *)
(* Copies of a sample say the same (Copies), so that one written again     *)
(* finds its rows as the first one left them.                              *)
(***************************************************************************)
EXTENDS Sessions, NodeProcessesProofs, SequenceTheorems

USE SessionsAssumption, ProcessesAssumption

\* The bounds as single numbers.
Pace == Refresh + Slow
Lag  == Larger(Stale - Ahead, Patience)

LEMMA Numbers ==
  /\ Pace \in Nat
  /\ Fresh \in Nat
  /\ Lag \in Int /\ Lag >= Patience /\ Lag >= Stale - Ahead
  /\ Bound = Fresh + Lag + Every
  /\ Times \subseteq Nat
BY BoundsAreNumbers DEF Pace, Lag, Larger, Bound, Times
----------------------------------------------------------------------------
(* Rows *)

LEMMA ReportedType ==
  ASSUME NEW s \in Session, NEW at \in Times
  PROVE  Reported(s, at) \in Session
BY DEF Reported, Session

LEMMA UsedType ==
  ASSUME NEW u \in Usage, NEW at \in Times
  PROVE  Used(u, at) \in Usage
BY DEF Used, Usage

LEMMA SnapshotSessions ==
  ASSUME NEW m \in Snapshots
  PROVE  /\ \A k : k \in In(m) => k \in Keys /\ \E g \in Gpus : k \in On(m, g)
         /\ \A k, g : k \in On(m, g) => k \in In(m)
<1>1. m.processes \subseteq Details
  BY DEF Snapshots
<1>2. \A d \in m.processes : d.gpu \in Gpus
  BY <1>1 DEF Details
<1> QED BY <1>1, <1>2, SessionInKeys DEF In, On

\* What happens on the node.
NodeStep ==
  \/ \E p \in Procs : Come(p) \/ Go(p)
  \/ \E k \in Heard : KeepsUnread(k)

LEMMA NodeStepEffect ==
  NodeStep => UNCHANGED <<now, sampled, newest, queue, lost, written, sessions, usages, maintained>>
BY DEF NodeStep, Come, Go, Start, Exit, KeepsUnread, Forget, processVars, tableVars

\* The step of a process as a step of Lives.
LEMMA StepLives ==
  ASSUME TypeOK, [Next]_vars
  PROVE  Lives
<1>1. CASE UNCHANGED vars
  BY <1>1 DEF vars, nodeVars, processVars, Lives, TypeOK, NodeTypeOK, Times
<1>0. now \in Times /\ now \in Int
  BY DEF TypeOK, NodeTypeOK, Times
<1>2. ASSUME NEW p \in Procs, Come(p) PROVE Lives
  <2>1. Start(p) /\ now' = now
    BY <1>2 DEF Come, Start
  <2> QED BY <1>0, <2>1 DEF Lives
<1>3. ASSUME NEW p \in Procs, Go(p) PROVE Lives
  <2>1. Exit(p) /\ now' = now
    BY <1>3 DEF Go, Exit
  <2> QED BY <1>0, <2>1 DEF Lives
<1>4. CASE Tick
  BY <1>4 DEF Tick, Pass, Lives, TypeOK, NodeTypeOK, Times
<1>5. ASSUME UNCHANGED processVars PROVE Lives
  BY <1>5 DEF processVars, Lives, TypeOK, NodeTypeOK, Times
<1>6. ASSUME NEW k \in Heard, KeepsUnread(k) PROVE Lives
  BY <1>5, <1>6 DEF KeepsUnread, Forget
<1>7. ASSUME NEW details \in SUBSET Reportable, NEW arrives \in BOOLEAN, Publish(details, arrives)
      PROVE Lives
  BY <1>5, <1>7 DEF Publish, Report
<1>8. CASE Resend \/ Write \/ WriteFails \/ RestartManager \/ Maintain
  BY <1>5, <1>8 DEF Resend, Write, WriteFails, RestartManager, Maintain, nodeVars
<1> QED BY <1>1, <1>2, <1>3, <1>4, <1>6, <1>7, <1>8 DEF Next
----------------------------------------------------------------------------
(* The queue *)

\* The queue without its head, and whatever WriteFails notes on it.
Rest == [i \in 1 .. Len(queue) - 1 |-> [queue[i + 1] EXCEPT !.late = @ \/ i = 1]]

LEMMA RestType ==
  ASSUME queue \in Seq(Snapshots), queue # << >>
  PROVE  /\ Rest \in Seq(Snapshots)
         /\ Len(Rest) = Len(queue) - 1
         /\ \A i \in 1 .. Len(Rest) :
              /\ i + 1 \in 1 .. Len(queue)
              /\ Rest[i].at = queue[i + 1].at
              /\ Rest[i].processes = queue[i + 1].processes
              /\ Rest[i].late = (queue[i + 1].late \/ i = 1)
<1>1. Len(queue) \in Nat /\ Len(queue) # 0
  OBVIOUS
<1>2. ASSUME NEW i \in 1 .. Len(queue) - 1
      PROVE  /\ i + 1 \in 1 .. Len(queue)
             /\ [queue[i + 1] EXCEPT !.late = @ \/ i = 1] \in Snapshots
             /\ [queue[i + 1] EXCEPT !.late = @ \/ i = 1].at = queue[i + 1].at
             /\ [queue[i + 1] EXCEPT !.late = @ \/ i = 1].processes = queue[i + 1].processes
             /\ [queue[i + 1] EXCEPT !.late = @ \/ i = 1].late = (queue[i + 1].late \/ i = 1)
  <2>1. i + 1 \in 1 .. Len(queue)
    BY <1>1
  <2>2. queue[i + 1] \in Snapshots
    BY <2>1
  <2>3. (queue[i + 1].late \/ i = 1) \in BOOLEAN
    OBVIOUS
  <2> QED BY <2>1, <2>2, <2>3 DEF Snapshots
<1>3. Rest \in [1 .. Len(queue) - 1 -> Snapshots] /\ Len(queue) - 1 \in Nat
  BY <1>1, <1>2 DEF Rest
<1>4. Rest \in Seq(Snapshots) /\ Len(Rest) = Len(queue) - 1
  BY <1>3
<1>5. \A i \in 1 .. Len(queue) - 1 : Rest[i] = [queue[i + 1] EXCEPT !.late = @ \/ i = 1]
  BY DEF Rest
<1> DEFINE Marked(i) == [queue[i + 1] EXCEPT !.late = @ \/ i = 1]
<1> HIDE DEF Marked
<1>6. \A i \in 1 .. Len(queue) - 1 :
         /\ i + 1 \in 1 .. Len(queue)
         /\ Marked(i).at = queue[i + 1].at
         /\ Marked(i).processes = queue[i + 1].processes
         /\ Marked(i).late = (queue[i + 1].late \/ i = 1)
         /\ Rest[i] = Marked(i)
  BY <1>2, <1>5 DEF Marked
<1> QED BY <1>4, <1>6, ZenonT(30)

LEMMA TailType ==
  ASSUME queue \in Seq(Snapshots), queue # << >>
  PROVE  /\ Tail(queue) \in Seq(Snapshots)
         /\ Len(Tail(queue)) = Len(queue) - 1
         /\ \A i \in 1 .. Len(Tail(queue)) : i + 1 \in 1 .. Len(queue) /\ Tail(queue)[i] = queue[i + 1]
         /\ Head(queue) = queue[1] /\ Head(queue) \in Snapshots
         /\ 1 \in 1 .. Len(queue)
OBVIOUS

LEMMA AppendType ==
  ASSUME queue \in Seq(Snapshots), NEW m \in Snapshots
  PROVE  /\ Append(queue, m) \in Seq(Snapshots)
         /\ Len(Append(queue, m)) = Len(queue) + 1
         /\ \A i \in 1 .. Len(queue) : Append(queue, m)[i] = queue[i]
         /\ Append(queue, m)[Len(queue) + 1] = m
OBVIOUS
----------------------------------------------------------------------------
(* Types *)

LEMMA SnapshotType ==
  ASSUME TypeOK, NEW at \in Times, NEW details \in SUBSET Details
  PROVE  /\ Snapshot(at, details) \in Snapshots
         /\ Snapshot(at, details).at = at
         /\ Snapshot(at, details).processes = details
         /\ Snapshot(at, details).late = lost
BY DEF Snapshot, Snapshots, TypeOK

\* What Publish puts into the queue, if it does, and Resend.
LEMMA PublishEffect ==
  ASSUME TypeOK, NEW details \in SUBSET Reportable, NEW arrives \in BOOLEAN,
         Publish(details, arrives)
  PROVE  /\ details \subseteq Details /\ now \in Times
         /\ now > sampled /\ sampled' = now /\ newest' = details
         /\ UNCHANGED <<now, life, died, ghosts, written, sessions, usages, maintained>>
         /\ Snapshot(now, details) \in Snapshots
         /\ \/ queue' = queue /\ lost' = TRUE
            \/ /\ queue' = Append(queue, Snapshot(now, details))
               /\ lost' = FALSE
               /\ Len(queue) < QueueSize
<1>1. details \subseteq Details /\ now \in Times
  BY DEF Reportable, TypeOK, NodeTypeOK
<1>2. Snapshot(now, details) \in Snapshots
  BY <1>1, SnapshotType
<1> QED BY <1>1, <1>2 DEF Publish, Report, processVars, tableVars

LEMMA ResendEffect ==
  ASSUME TypeOK, Resend
  PROVE  /\ 0 < sampled /\ now <= sampled + Patience
         /\ UNCHANGED <<now, life, died, sampled, ghosts, newest, written, sessions, usages, maintained>>
         /\ Snapshot(sampled, newest) \in Snapshots
         /\ queue' = Append(queue, Snapshot(sampled, newest))
         /\ lost' = FALSE
         /\ Len(queue) < QueueSize
<1>1. sampled \in Times /\ newest \in SUBSET Details
  BY DEF TypeOK, NodeTypeOK
<1>2. Snapshot(sampled, newest) \in Snapshots
  BY <1>1, SnapshotType
<1> QED BY <1>2 DEF Resend, nodeVars, processVars, tableVars

LEMMA TypeHolds == Spec => []TypeOK
<1>1. Init => TypeOK
  <2>1. ASSUME Init PROVE NodeTypeOK
    BY <2>1 DEF Init, NodeInit, NodeTypeOK, Times
  <2>2. NoSession \in Session /\ NoUsage \in Usage
    BY DEF NoSession, Session, NoUsage, Usage, Times
  <2>3. << >> \in Seq(Snapshots) /\ Len(<< >>) = 0
    OBVIOUS
  <2>4. ASSUME Init PROVE sessions \in [Keys -> Session] /\ usages \in [Keys -> [Gpus -> Usage]]
    BY <2>2, <2>4 DEF Init
  <2>5. ASSUME Init PROVE queue \in Seq(Snapshots) /\ Len(queue) <= QueueSize
    BY <2>3, <2>5 DEF Init
  <2>6. 0 \in Times
    BY DEF Times
  <2>7. ASSUME Init PROVE lost \in BOOLEAN /\ written \in Times /\ maintained \in Times /\ faults \in Nat
    BY <2>6, <2>7 DEF Init
  <2> QED BY <2>1, <2>4, <2>5, <2>7 DEF TypeOK
<1>2. ASSUME TypeOK, [Next]_vars PROVE TypeOK'
  <2> USE DEF TypeOK
  <2>1. CASE UNCHANGED vars
    BY <1>2, <2>1 DEF vars, nodeVars, processVars, tableVars, NodeTypeOK
  <2>2. ASSUME NEW p \in Procs, Come(p) \/ Go(p) PROVE TypeOK'
    <3>1. UNCHANGED <<sampled, newest, ghosts>> /\ UNCHANGED <<queue, lost, written, tableVars, maintained, faults>>
      BY <2>2 DEF Come, Go, Start, Exit
    <3> QED BY <1>2, <3>1, StepLives, NodeTypeKept DEF tableVars
  <2>3. ASSUME NEW k \in Heard, KeepsUnread(k) PROVE TypeOK'
    <3>1. ghosts' \subseteq Keys
      BY <1>2, <2>3 DEF KeepsUnread, Forget, Heard, NodeTypeOK
    <3> QED BY <1>2, <2>3, <3>1 DEF KeepsUnread, Forget, Fault, processVars, tableVars, NodeTypeOK
  <2>4. ASSUME NEW details \in SUBSET Reportable, NEW arrives \in BOOLEAN, Publish(details, arrives)
        PROVE TypeOK'
    <3>0. newest' = details /\ details \subseteq Details
      BY <1>2, <2>4, PublishEffect
    <3>1. NodeTypeOK'
      BY <1>2, <2>4, <3>0 DEF Publish, Report, NodeTypeOK, processVars
    <3>2. queue' \in Seq(Snapshots) /\ Len(queue') <= QueueSize /\ lost' \in BOOLEAN
      <4>2. CASE queue' = queue /\ lost' = TRUE
        BY <1>2, <4>2
      <4>3. ASSUME NEW m \in Snapshots, queue' = Append(queue, m), lost' = FALSE, Len(queue) < QueueSize
            PROVE  queue' \in Seq(Snapshots) /\ Len(queue') <= QueueSize /\ lost' \in BOOLEAN
        <5>1. queue \in Seq(Snapshots) /\ Len(queue) \in Nat
          BY <1>2
        <5> HIDE DEF TypeOK
        <5>2. Append(queue, m) \in Seq(Snapshots) /\ Len(Append(queue, m)) = Len(queue) + 1
          BY <4>3, <5>1
        <5>3. queue' \in Seq(Snapshots) /\ Len(queue') = Len(queue) + 1
          BY <4>3, <5>2
        <5>4. lost' \in BOOLEAN
          BY <4>3, Zenon
        <5> QED BY <4>3, <5>1, <5>3, <5>4
      <4> QED BY <1>2, <2>4, <4>2, <4>3, PublishEffect
    <3>3. faults' \in Nat
      BY <1>2, <2>4 DEF Publish, Report, Fault
    <3> QED BY <1>2, <2>4, <3>1, <3>2, <3>3 DEF Publish, Report, tableVars
  <2>10. CASE Resend
    <3>1. queue' \in Seq(Snapshots) /\ Len(queue') <= QueueSize /\ lost' \in BOOLEAN
      <4>1. ASSUME NEW m \in Snapshots, queue' = Append(queue, m), lost' = FALSE, Len(queue) < QueueSize
            PROVE  queue' \in Seq(Snapshots) /\ Len(queue') <= QueueSize /\ lost' \in BOOLEAN
        <5>1. queue \in Seq(Snapshots) /\ Len(queue) \in Nat
          BY <1>2
        <5> HIDE DEF TypeOK
        <5>2. Append(queue, m) \in Seq(Snapshots) /\ Len(Append(queue, m)) = Len(queue) + 1
          BY <4>1, <5>1
        <5>3. queue' \in Seq(Snapshots) /\ Len(queue') = Len(queue) + 1
          BY <4>1, <5>2
        <5>4. lost' \in BOOLEAN
          BY <4>1, Zenon
        <5> QED BY <4>1, <5>1, <5>3, <5>4
      <4> QED BY <1>2, <2>10, <4>1, ResendEffect
    <3> QED BY <1>2, <2>10, <3>1 DEF Resend, nodeVars, processVars, NodeTypeOK, tableVars
  <2>5. CASE Write
    <3>1. queue' \in Seq(Snapshots) /\ Len(queue') <= QueueSize /\ Head(queue) \in Snapshots
      BY <1>2, <2>5, TailType DEF Write
    <3>2. Head(queue).at \in Times
      BY <3>1 DEF Snapshots
    <3>3. sessions' \in [Keys -> Session]
      BY <1>2, <2>5, <3>2, ReportedType DEF Write
    <3>4. usages' \in [Keys -> [Gpus -> Usage]]
      BY <1>2, <2>5, <3>2, UsedType DEF Write
    <3> QED BY <1>2, <2>5, <3>1, <3>2, <3>3, <3>4 DEF Write, nodeVars, processVars, NodeTypeOK
  <2>6. CASE WriteFails
    <3>1. queue' = Rest
      BY <2>6 DEF WriteFails, Rest
    <3>2. queue' \in Seq(Snapshots) /\ Len(queue') <= QueueSize
      <4>1. queue # << >>
        BY <2>6 DEF WriteFails
      <4>2. Rest \in Seq(Snapshots) /\ Len(Rest) = Len(queue) - 1
        BY <1>2, <4>1, RestType
      <4>3. Len(queue) \in Nat
        BY <1>2
      <4> QED BY <1>2, <3>1, <4>2, <4>3
    <3>3. lost' \in BOOLEAN /\ faults' \in Nat
      BY <1>2, <2>6 DEF WriteFails, Fault
    <3> QED BY <1>2, <2>6, <3>2, <3>3 DEF WriteFails, tableVars, nodeVars, processVars, NodeTypeOK
  <2>7. CASE RestartManager
    <3>1. queue' \in Seq(Snapshots) /\ Len(queue') <= QueueSize
      BY <2>7 DEF RestartManager
    <3> QED BY <1>2, <2>7, <3>1 DEF RestartManager, Fault, tableVars, nodeVars, processVars, NodeTypeOK
  <2>8. CASE Maintain
    <3>1. ASSUME NEW k \in Keys PROVE [sessions[k] EXCEPT !.status = "ended"] \in Session
      BY <1>2 DEF Session
    <3>2. sessions' \in [Keys -> Session]
      BY <1>2, <2>8, <3>1 DEF Maintain
    <3> QED BY <1>2, <2>8, <3>2 DEF Maintain, nodeVars, processVars, NodeTypeOK
  <2>9. CASE Tick
    BY <1>2, <2>9 DEF Tick, Pass, tableVars, NodeTypeOK, Times
  <2> QED BY <1>2, <2>1, <2>2, <2>3, <2>4, <2>5, <2>6, <2>7, <2>8, <2>9, <2>10 DEF Next
<1> QED BY <1>1, <1>2, PTL DEF Spec

\* Every variable stays in its domain (TypeOK).
THEOREM TypeCorrect == Spec => []TypeOK
BY TypeHolds
----------------------------------------------------------------------------
(* Order and pace *)

\* Snapshots are written in the order of their times, the same one perhaps more
\* than once.
Ordered ==
  /\ written <= sampled
  /\ sampled <= now
  /\ \A i \in 1 .. Len(queue) : written <= queue[i].at /\ queue[i].at <= sampled
  /\ \A i, j \in 1 .. Len(queue) : i < j => queue[i].at <= queue[j].at

\* Nothing is overdue.
Timely ==
  /\ now <= sampled + Pace
  /\ maintained <= now
  /\ now <= maintained + Every
  /\ \A i \in 1 .. Len(queue) : now <= queue[i].at + Patience

\* A snapshot follows the one before it at the agent's pace, unless one between
\* them was lost.
Chain ==
  /\ ~lost => sampled = IF queue = << >> THEN written ELSE queue[Len(queue)].at
  /\ queue # << >> /\ ~queue[1].late => queue[1].at <= written + Pace
  /\ \A i \in 1 .. Len(queue) - 1 : ~queue[i + 1].late => queue[i + 1].at <= queue[i].at + Pace

QueueInv == TypeOK /\ Ordered /\ Timely /\ Chain

LEMMA QueueNumbers ==
  ASSUME TypeOK
  PROVE  /\ now \in Int /\ sampled \in Int /\ written \in Int /\ maintained \in Int
         /\ Len(queue) \in Nat
         /\ \A i \in 1 .. Len(queue) : queue[i] \in Snapshots /\ queue[i].at \in Int
<1>1. \A i \in 1 .. Len(queue) : queue[i] \in Snapshots
  BY DEF TypeOK
<1> QED BY <1>1 DEF TypeOK, NodeTypeOK, Snapshots, Times

LEMMA QueueHolds == Spec => []QueueInv
<1>1. Init => Ordered /\ Timely /\ Chain
  BY Numbers DEF Init, NodeInit, Ordered, Timely, Chain
<1>2. ASSUME QueueInv, TypeOK', [Next]_vars PROVE Ordered' /\ Timely' /\ Chain'
  <2> USE QueueNumbers, Numbers DEF QueueInv
  <2>1. ASSUME UNCHANGED <<now, sampled, maintained, queue, lost, written>> PROVE Ordered' /\ Timely' /\ Chain'
    BY <1>2, <2>1 DEF Ordered, Timely, Chain
  <2>2. CASE UNCHANGED vars
    BY <2>1, <2>2 DEF vars, nodeVars, processVars
  <2>3. ASSUME NodeStep PROVE Ordered' /\ Timely' /\ Chain'
    BY <2>1, <2>3, NodeStepEffect
  <2>4. ASSUME NEW m \in Snapshots, queue' = Append(queue, m), ~lost',
               m.at = sampled', m.late = lost, sampled <= sampled', sampled' <= now,
               now <= sampled' + Patience, UNCHANGED <<now, written, maintained>>
        PROVE Ordered' /\ Timely' /\ Chain'
    <3> DEFINE n == Len(queue)
    <3>1. /\ Len(queue') = n + 1 /\ n \in Nat /\ queue' # << >>
          /\ \A i \in 1 .. n : queue'[i] = queue[i]
          /\ queue'[n + 1].at = sampled' /\ queue'[n + 1].late = lost
      <4>1. queue \in Seq(Snapshots)
        BY <1>2 DEF TypeOK
      <4> QED BY <2>4, <4>1, AppendType
    <3>0. sampled' \in Int /\ now <= sampled + Pace
      <4>1. TypeOK' /\ now <= sampled + Pace
        BY <1>2 DEF Timely
      <4> QED BY <4>1 DEF TypeOK, NodeTypeOK, Times
    <3>2. Ordered'
      <4>1. \A i \in 1 .. Len(queue') : i \in 1 .. n \/ i = n + 1
        BY <3>1
      <4>2. \A i \in 1 .. Len(queue') : queue'[i].at \in Int /\ (i \in 1 .. n => queue'[i].at <= sampled)
        BY <1>2, <3>0, <3>1, <4>1 DEF Ordered
      <4>3. \A i \in 1 .. Len(queue') : written' <= queue'[i].at /\ queue'[i].at <= sampled'
        <5>1. \A i \in 1 .. n : written <= queue[i].at
          BY <1>2 DEF Ordered
        <5>2. written <= sampled /\ \A i \in 1 .. n : queue'[i].at <= sampled
          BY <1>2, <3>1, <4>1, <4>2 DEF Ordered
        <5>3. sampled \in Int /\ written \in Int
          BY <1>2
        <5>4. ASSUME NEW i \in 1 .. n PROVE written' <= queue'[i].at /\ queue'[i].at <= sampled'
          <6>1. i \in 1 .. Len(queue') /\ queue'[i].at \in Int
            BY <3>1, <4>2
          <6> QED BY <2>4, <3>0, <3>1, <5>1, <5>2, <5>3, <6>1
        <5>5. written' <= queue'[n + 1].at /\ queue'[n + 1].at <= sampled'
          BY <2>4, <3>0, <3>1, <5>2, <5>3
        <5> QED BY <4>1, <5>4, <5>5
      <4>4. ASSUME NEW i \in 1 .. Len(queue'), NEW j \in 1 .. Len(queue'), i < j
            PROVE  queue'[i].at <= queue'[j].at
        <5>1. i \in 1 .. n
          BY <3>1, <4>4
        <5>2. CASE j \in 1 .. n
          BY <1>2, <3>1, <4>4, <5>1, <5>2 DEF Ordered
        <5>3. CASE j = n + 1
          BY <3>1, <4>3, <5>3
        <5> QED BY <4>1, <5>2, <5>3
      <4> QED BY <1>2, <2>4, <3>0, <4>3, <4>4 DEF Ordered
    <3>3. Timely'
      BY <1>2, <2>4, <3>0, <3>1 DEF Timely
    <3>4. sampled' = queue'[Len(queue')].at
      BY <3>1
    <3>5. ~queue'[1].late => queue'[1].at <= written' + Pace
      <4>1. CASE n = 0
        <5>1. queue = << >>
          BY <1>2, <4>1 DEF TypeOK
        <5>2. queue'[1].late = lost /\ queue'[1].at = sampled'
          BY <3>1, <4>1
        <5> QED BY <1>2, <2>4, <3>0, <5>1, <5>2 DEF Chain
      <4>2. CASE n # 0
        <5>1. queue # << >> /\ 1 \in 1 .. n
          BY <3>1, <4>2
        <5> QED BY <1>2, <2>4, <3>1, <5>1 DEF Chain
      <4> QED BY <4>1, <4>2
    <3>6. ASSUME NEW i \in 1 .. Len(queue') - 1, ~queue'[i + 1].late
          PROVE  queue'[i + 1].at <= queue'[i].at + Pace
      <4>1. CASE i = n
        <5>1. ~lost /\ queue'[i + 1].at = sampled' /\ queue'[i].at = queue[n].at /\ queue # << >>
          BY <3>1, <3>6, <4>1
        <5> QED BY <1>2, <2>4, <3>0, <5>1 DEF Chain
      <4>2. CASE i # n
        <5>1. i \in 1 .. n - 1 /\ i \in 1 .. n /\ i + 1 \in 1 .. n
          BY <3>1, <4>2
        <5> QED BY <1>2, <3>1, <3>6, <5>1 DEF Chain
      <4> QED BY <4>1, <4>2
    <3>7. Chain'
      BY <2>4, <3>1, <3>4, <3>5, <3>6 DEF Chain
    <3> QED BY <3>2, <3>3, <3>7
  <2>10. ASSUME NEW details \in SUBSET Reportable, NEW arrives \in BOOLEAN, Publish(details, arrives)
        PROVE Ordered' /\ Timely' /\ Chain'
    <3>1. now > sampled /\ sampled' = now /\ UNCHANGED <<now, written, maintained>>
      BY <1>2, <2>10, PublishEffect
    <3>2. CASE queue' = queue /\ lost' = TRUE
      BY <1>2, <3>1, <3>2 DEF Ordered, Timely, Chain
    <3>3. CASE queue' = Append(queue, Snapshot(now, details)) /\ lost' = FALSE
      <4> DEFINE m == Snapshot(now, details)
      <4>1. m \in Snapshots /\ m.at = now /\ m.late = lost
        BY <1>2, <2>10, PublishEffect DEF Snapshot
      <4> HIDE DEF m
      <4>2. /\ ~lost' /\ m.at = sampled' /\ sampled <= sampled' /\ sampled' <= now
            /\ now <= sampled' + Patience
        BY <1>2, <3>1, <3>3, <4>1
      <4> QED BY <2>4, <3>1, <3>3, <4>1, <4>2 DEF m
    <3> QED BY <1>2, <2>10, <3>2, <3>3, PublishEffect
  <2>11. CASE Resend
    <3> DEFINE m == Snapshot(sampled, newest)
    <3>1. m \in Snapshots /\ m.at = sampled /\ m.late = lost
      BY <1>2, <2>11, ResendEffect DEF Snapshot
    <3>2. /\ queue' = Append(queue, m) /\ ~lost' /\ now <= sampled' + Patience
          /\ UNCHANGED <<now, sampled, written, maintained>>
      BY <1>2, <2>11, ResendEffect
    <3> HIDE DEF m
    <3>3. sampled <= sampled' /\ sampled' <= now
      BY <1>2, <3>2 DEF Ordered
    <3> QED BY <2>4, <3>1, <3>2, <3>3
  <2>5. CASE Write
    <3>1. /\ queue # << >> /\ queue' = Tail(queue) /\ written' = queue[1].at
          /\ UNCHANGED <<now, sampled, maintained, lost>>
      BY <1>2, <2>5, TailType DEF Write, nodeVars, processVars, TypeOK
    <3>2. /\ Len(queue') = Len(queue) - 1
          /\ 1 \in 1 .. Len(queue)
          /\ \A i \in 1 .. Len(queue') : i + 1 \in 1 .. Len(queue) /\ queue'[i] = queue[i + 1]
      BY <1>2, <3>1, TailType DEF TypeOK
    <3>3. Ordered'
      BY <1>2, <3>1, <3>2 DEF Ordered
    <3>4. Timely'
      BY <1>2, <3>1, <3>2 DEF Timely
    <3>5. ~lost' => sampled' = IF queue' = << >> THEN written' ELSE queue'[Len(queue')].at
      <4>1. CASE queue' = << >>
        <5>1. Len(queue) = 1
          BY <1>2, <3>2, <4>1
        <5> QED BY <1>2, <3>1, <4>1, <5>1 DEF Chain
      <4>2. CASE queue' # << >>
        <5>1. Len(queue') \in 1 .. Len(queue') /\ Len(queue') + 1 = Len(queue)
          BY <1>2, <3>2, <4>2 DEF TypeOK
        <5> QED BY <1>2, <3>1, <3>2, <4>2, <5>1 DEF Chain
      <4> QED BY <4>1, <4>2
    <3>6. queue' # << >> /\ ~queue'[1].late => queue'[1].at <= written' + Pace
      <4>1. ASSUME queue' # << >> PROVE 1 \in 1 .. Len(queue') /\ 1 \in 1 .. Len(queue) - 1
        BY <1>2, <3>2, <4>1 DEF TypeOK
      <4> QED BY <1>2, <3>1, <3>2, <4>1 DEF Chain
    <3>7. ASSUME NEW i \in 1 .. Len(queue') - 1, ~queue'[i + 1].late
          PROVE  queue'[i + 1].at <= queue'[i].at + Pace
      <4>1. i \in 1 .. Len(queue') /\ i + 1 \in 1 .. Len(queue') /\ i + 1 \in 1 .. Len(queue) - 1
        BY <1>2, <3>2
      <4> QED BY <1>2, <3>2, <3>7, <4>1 DEF Chain
    <3> QED BY <3>3, <3>4, <3>5, <3>6, <3>7 DEF Chain
  <2>6. CASE WriteFails
    <3>1. /\ queue # << >> /\ queue' = Rest /\ lost' = (lost \/ Len(queue) = 1)
          /\ UNCHANGED <<now, sampled, maintained, written>>
      BY <2>6 DEF WriteFails, Rest, nodeVars, processVars
    <3>2. /\ Len(queue') = Len(queue) - 1
          /\ \A i \in 1 .. Len(queue') : /\ i + 1 \in 1 .. Len(queue)
                                         /\ queue'[i].at = queue[i + 1].at
                                         /\ queue'[i].late = (queue[i + 1].late \/ i = 1)
      BY <1>2, <3>1, RestType DEF TypeOK
    <3>3. Ordered'
      <4>1. \A i \in 1 .. Len(queue') : written' <= queue'[i].at /\ queue'[i].at <= sampled'
        BY <1>2, <3>1, <3>2 DEF Ordered
      <4>2. ASSUME NEW i \in 1 .. Len(queue'), NEW j \in 1 .. Len(queue'), i < j
            PROVE  queue'[i].at <= queue'[j].at
        <5>1. i + 1 \in 1 .. Len(queue) /\ j + 1 \in 1 .. Len(queue) /\ i + 1 < j + 1
          BY <3>2, <4>2
        <5>2. queue[i + 1].at <= queue[j + 1].at
          BY <1>2, <5>1 DEF Ordered
        <5> QED BY <3>2, <5>2
      <4> QED BY <1>2, <3>1, <4>1, <4>2 DEF Ordered
    <3>4. Timely'
      BY <1>2, <3>1, <3>2 DEF Timely
    <3>5. ~lost' => sampled' = IF queue' = << >> THEN written' ELSE queue'[Len(queue')].at
      <4>1. ASSUME ~lost' PROVE Len(queue) # 1 /\ ~lost
        BY <3>1, <4>1
      <4>2. ASSUME Len(queue) # 1 PROVE Len(queue') \in 1 .. Len(queue') /\ Len(queue') + 1 = Len(queue)
        BY <1>2, <3>1, <3>2, <4>2 DEF TypeOK
      <4>3. ASSUME Len(queue) # 1 PROVE queue' # << >> /\ queue'[Len(queue')].at = queue[Len(queue)].at
        BY <3>2, <4>2, <4>3
      <4> QED BY <1>2, <3>1, <4>1, <4>3 DEF Chain
    <3>6. queue' # << >> => queue'[1].late
      <4>1. ASSUME queue' # << >> PROVE 1 \in 1 .. Len(queue')
        <5>1. queue' \in Seq(Snapshots)
          BY <1>2 DEF TypeOK
        <5> QED BY <4>1, <5>1
      <4> QED BY <3>2, <4>1
    <3>7. ASSUME NEW i \in 1 .. Len(queue') - 1, ~queue'[i + 1].late
          PROVE  queue'[i + 1].at <= queue'[i].at + Pace
      <4>1. i \in 1 .. Len(queue') /\ i + 1 \in 1 .. Len(queue') /\ i + 1 \in 1 .. Len(queue) - 1
        BY <1>2, <3>2
      <4>2. ~queue[(i + 1) + 1].late
        BY <3>2, <3>7, <4>1
      <4>3. queue[(i + 1) + 1].at <= queue[i + 1].at + Pace
        BY <1>2, <4>1, <4>2 DEF Chain
      <4>4. queue'[i].at = queue[i + 1].at /\ queue'[i + 1].at = queue[(i + 1) + 1].at
        BY <3>2, <4>1
      <4> QED BY <4>3, <4>4
    <3> QED BY <3>3, <3>4, <3>5, <3>6, <3>7 DEF Chain
  <2>7. CASE RestartManager
    <3>1. queue' = << >> /\ Len(queue') = 0 /\ lost' = TRUE /\ UNCHANGED <<now, sampled, maintained, written>>
      BY <2>7 DEF RestartManager, nodeVars, processVars
    <3>2. Ordered'
      BY <1>2, <3>1 DEF Ordered
    <3>3. Timely' /\ Chain'
      BY <1>2, <3>1 DEF Timely, Chain
    <3> QED BY <3>2, <3>3
  <2>8. CASE Maintain
    <3>1. maintained' = now /\ UNCHANGED <<now, sampled, queue, lost, written>>
      BY <2>8 DEF Maintain, nodeVars, processVars
    <3>2. Ordered' /\ Chain'
      BY <1>2, <3>1 DEF Ordered, Chain
    <3>3. Timely'
      BY <1>2, <3>1 DEF Timely
    <3> QED BY <3>2, <3>3
  <2>9. CASE Tick
    <3>1. /\ now' = now + 1 /\ UNCHANGED <<sampled, maintained, queue, lost, written>>
          /\ now < sampled + Pace /\ now < maintained + Every
          /\ \A i \in 1 .. Len(queue) : now < queue[i].at + Patience
      BY <1>2, <2>9, SMTT(30) DEF Tick, Pass, Pace
    <3> QED BY <1>2, <3>1 DEF Ordered, Timely, Chain
  <2> QED BY <1>2, <2>2, <2>3, <2>4, <2>5, <2>6, <2>7, <2>8, <2>9, <2>10, <2>11 DEF Next, NodeStep
<1> QED BY <1>1, <1>2, TypeHolds, PTL DEF Spec, QueueInv
----------------------------------------------------------------------------
(* Rows *)

\* A session and its usages, by themselves.
Fits(k) ==
  LET on == {g \in Gpus : usages[k][g].used} IN
  /\ Exists(k) <=> on # {}
  /\ \A g \in on : sessions[k].first <= usages[k][g].first /\ usages[k][g].last <= sessions[k].last
  /\ Exists(k) => /\ \E g \in on : usages[k][g].first = sessions[k].first
                  /\ \E g \in on : usages[k][g].last = sessions[k].last

\* What a row holds was written before.
Bounded(k) ==
  /\ sessions[k].first <= sessions[k].last
  /\ sessions[k].last <= written

RowsInv == \A k \in Keys : Fits(k) /\ Bounded(k)

LEMMA RowNumbers ==
  ASSUME TypeOK, NEW k \in Keys
  PROVE  /\ sessions[k] \in Session
         /\ sessions[k].first \in Int /\ sessions[k].last \in Int
         /\ \A g \in Gpus : /\ usages[k][g].used \in BOOLEAN
                            /\ usages[k][g].first \in Int /\ usages[k][g].last \in Int
<1>1. sessions[k] \in Session /\ \A g \in Gpus : usages[k][g] \in Usage
  BY DEF TypeOK
<1> QED BY <1>1 DEF Session, Usage, Times

\* What Write does to the rows of a session.
LEMMA WriteEffect ==
  ASSUME QueueInv, Write, NEW k \in Keys
  PROVE  /\ queue[1] \in Snapshots /\ queue[1].at \in Times
         /\ written <= queue[1].at
         /\ written' = queue[1].at
         /\ k \notin In(queue[1]) => /\ sessions'[k] = sessions[k]
                                    /\ \A g \in Gpus : usages'[k][g] = usages[k][g]
         /\ k \in In(queue[1]) =>
              /\ sessions'[k] = Reported(sessions[k], queue[1].at)
              /\ \E g \in Gpus : k \in On(queue[1], g)
              /\ \A g \in Gpus : usages'[k][g] = IF k \in On(queue[1], g)
                                               THEN Used(usages[k][g], queue[1].at)
                                               ELSE usages[k][g]
<1>1. Head(queue) = queue[1] /\ queue[1] \in Snapshots /\ 1 \in 1 .. Len(queue)
  BY TailType DEF QueueInv, TypeOK, Write
<1>2. queue[1].at \in Times
  BY <1>1 DEF Snapshots
<1>3. written <= queue[1].at
  BY <1>1 DEF QueueInv, Ordered
<1>4. /\ written' = queue[1].at
      /\ sessions'[k] = IF k \in In(queue[1]) THEN Reported(sessions[k], queue[1].at) ELSE sessions[k]
      /\ \A g \in Gpus : usages'[k][g] = IF k \in On(queue[1], g)
                                       THEN Used(usages[k][g], queue[1].at) ELSE usages[k][g]
  BY <1>1 DEF Write
<1>5. /\ k \in In(queue[1]) => \E g \in Gpus : k \in On(queue[1], g)
      /\ \A g \in Gpus : k \in On(queue[1], g) => k \in In(queue[1])
  BY <1>1, SnapshotSessions
<1> QED BY <1>1, <1>2, <1>3, <1>4, <1>5

\* Steps other than Write leave the rows alone, but for the status.
LEMMA OtherEffect ==
  ASSUME TypeOK, [Next]_vars, ~Write, NEW k \in Keys
  PROVE  /\ written' = written /\ usages' = usages
         /\ \/ sessions'[k] = sessions[k]
            \/ /\ Maintain
               /\ Overdue(sessions[k])
               /\ sessions'[k] = [sessions[k] EXCEPT !.status = "ended"]
<1>1. ASSUME UNCHANGED <<written, sessions, usages>>
      PROVE  written' = written /\ usages' = usages /\ sessions'[k] = sessions[k]
  BY <1>1
<1>2. CASE UNCHANGED vars
  BY <1>1, <1>2 DEF vars, tableVars
<1>3. ASSUME NodeStep PROVE UNCHANGED <<written, sessions, usages>>
  BY <1>3, NodeStepEffect
<1>4. ASSUME NEW details \in SUBSET Reportable, NEW arrives \in BOOLEAN, Publish(details, arrives)
      PROVE  UNCHANGED <<written, sessions, usages>>
  BY <1>4 DEF Publish, Report, tableVars
<1>7. ASSUME Resend PROVE UNCHANGED <<written, sessions, usages>>
  BY <1>7 DEF Resend, tableVars
<1>5. ASSUME WriteFails \/ RestartManager \/ Tick PROVE UNCHANGED <<written, sessions, usages>>
  BY <1>5 DEF WriteFails, RestartManager, Tick, tableVars
<1>6. CASE Maintain
  BY <1>6 DEF Maintain
<1> QED BY <1>1, <1>2, <1>3, <1>4, <1>5, <1>6, <1>7 DEF Next, NodeStep

LEMMA EndedRow ==
  ASSUME NEW s \in Session, s.status = "running"
  PROVE  LET e == [s EXCEPT !.status = "ended"] IN
         /\ e.status = "ended"
         /\ e.first = s.first /\ e.last = s.last
BY DEF Session

LEMMA RowsHold == Spec => []RowsInv
<1>1. Init => RowsInv
  <2>1. ASSUME Init, NEW k \in Keys PROVE Fits(k) /\ Bounded(k)
    <3>1. sessions[k] = NoSession /\ written = 0 /\ \A g \in Gpus : usages[k][g] = NoUsage
      BY <2>1 DEF Init
    <3> QED BY <3>1 DEF NoSession, NoUsage, Fits, Bounded, Exists
  <2> QED BY <2>1 DEF RowsInv
<1>2. ASSUME RowsInv, QueueInv, TypeOK', [Next]_vars, NEW k \in Keys PROVE Fits(k)' /\ Bounded(k)'
  <2>1. Fits(k) /\ Bounded(k)
    BY <1>2 DEF RowsInv
  <2>2. TypeOK /\ written \in Int
    BY <1>2, QueueNumbers DEF QueueInv
  <2>3. /\ sessions[k] \in Session
        /\ sessions[k].first \in Int /\ sessions[k].last \in Int
        /\ \A g \in Gpus : /\ usages[k][g].used \in BOOLEAN
                           /\ usages[k][g].first \in Int /\ usages[k][g].last \in Int
    BY <2>2, RowNumbers
  <2>4. CASE Write
    <3> DEFINE at == queue[1].at
    <3>1. at \in Int /\ written <= at /\ written' = at
      <4>1. at \in Times /\ written <= at /\ written' = at
        BY <1>2, <2>4, WriteEffect
      <4> QED BY <4>1 DEF Times
    <3>2. CASE k \notin In(queue[1])
      <4>1. sessions'[k] = sessions[k] /\ \A g \in Gpus : usages'[k][g] = usages[k][g]
        BY <1>2, <2>4, <3>2, WriteEffect
      <4>2. Fits(k)'
        BY <2>1, <4>1 DEF Fits, Exists
      <4>3. Bounded(k)'
        BY <2>1, <2>2, <2>3, <3>1, <4>1 DEF Bounded, Exists
      <4> QED BY <4>2, <4>3
    <3>3. CASE k \in In(queue[1])
      <4>1. sessions'[k] = Reported(sessions[k], at)
        BY <1>2, <2>4, <3>3, WriteEffect
      <4>2. PICK h \in Gpus : k \in On(queue[1], h)
        BY <1>2, <2>4, <3>3, WriteEffect
      <4>3. \A g \in Gpus : usages'[k][g] = IF k \in On(queue[1], g) THEN Used(usages[k][g], at)
                                                                     ELSE usages[k][g]
        BY <1>2, <2>4, <3>3, WriteEffect
      <4> HIDE DEF at
      <4>4. /\ sessions'[k].status = "running" /\ sessions'[k].last = at
            /\ sessions'[k].first = IF Exists(k) THEN sessions[k].first ELSE at
        BY <4>1 DEF Reported, Exists
      <4>5. \A g \in Gpus :
              /\ usages'[k][g].used <=> (k \in On(queue[1], g) \/ usages[k][g].used)
              /\ usages'[k][g].first = IF k \in On(queue[1], g) /\ ~usages[k][g].used
                                       THEN at ELSE usages[k][g].first
              /\ usages'[k][g].last = IF k \in On(queue[1], g) THEN at ELSE usages[k][g].last
        <5>1. ASSUME NEW g \in Gpus, k \in On(queue[1], g)
              PROVE  /\ usages'[k][g].used
                     /\ usages'[k][g].first = IF usages[k][g].used THEN usages[k][g].first ELSE at
                     /\ usages'[k][g].last = at
          <6>1. usages'[k][g] = Used(usages[k][g], at)
            BY <4>3, <5>1
          <6> QED BY <6>1 DEF Used
        <5>2. ASSUME NEW g \in Gpus, k \notin On(queue[1], g) PROVE usages'[k][g] = usages[k][g]
          BY <4>3, <5>2
        <5> QED BY <5>1, <5>2
      <4>6. Exists(k)'
        BY <4>4 DEF Exists
      <4>7. \A g \in Gpus : usages[k][g].used => /\ Exists(k)
                                                /\ sessions[k].first <= usages[k][g].first
                                                /\ usages[k][g].last <= sessions[k].last
        BY <2>1 DEF Fits
      <4>8. \A g \in Gpus : usages'[k][g].used => /\ sessions'[k].first <= usages'[k][g].first
                                                 /\ usages'[k][g].last <= sessions'[k].last
        <5>1. sessions[k].first <= at /\ sessions[k].last <= at
          BY <2>1, <2>2, <2>3, <3>1 DEF Bounded
        <5> QED BY <2>3, <3>1, <4>4, <4>5, <4>7, <5>1
      <4>9. \E g \in Gpus : usages'[k][g].used /\ usages'[k][g].first = sessions'[k].first
        <5>1. CASE Exists(k)
          <6>1. PICK g \in Gpus : usages[k][g].used /\ usages[k][g].first = sessions[k].first
            BY <2>1, <5>1 DEF Fits
          <6> QED BY <4>4, <4>5, <5>1, <6>1
        <5>2. CASE ~Exists(k)
          <6>1. ~usages[k][h].used
            BY <4>7, <5>2
          <6> QED BY <4>2, <4>4, <4>5, <5>2, <6>1
        <5> QED BY <5>1, <5>2
      <4>10. usages'[k][h].used /\ usages'[k][h].last = sessions'[k].last
        BY <4>2, <4>4, <4>5
      <4>11. Fits(k)'
        BY <4>2, <4>6, <4>8, <4>9, <4>10 DEF Fits
      <4>12. Bounded(k)'
        BY <2>1, <2>2, <2>3, <3>1, <4>4, <4>6 DEF Bounded
      <4> QED BY <4>11, <4>12
    <3> QED BY <3>2, <3>3
  <2>5. CASE ~Write
    <3>1. written' = written /\ usages' = usages
      BY <1>2, <2>2, <2>5, OtherEffect
    <3>2. CASE sessions'[k] = sessions[k]
      BY <2>1, <3>1, <3>2 DEF Fits, Bounded, Exists
    <3>3. CASE Overdue(sessions[k]) /\ sessions'[k] = [sessions[k] EXCEPT !.status = "ended"]
      <4>1. /\ sessions[k].status = "running" /\ sessions'[k].status = "ended"
            /\ sessions'[k].first = sessions[k].first /\ sessions'[k].last = sessions[k].last
        BY <2>3, <3>3, EndedRow DEF Overdue
      <4> QED BY <2>1, <3>1, <4>1 DEF Fits, Bounded, Exists
    <3> QED BY <1>2, <2>2, <2>5, <3>2, <3>3, OtherEffect
  <2> QED BY <2>4, <2>5
<1>3. RowsInv /\ QueueInv /\ TypeOK' /\ [Next]_vars => RowsInv'
  <2>1. ASSUME RowsInv, QueueInv, TypeOK', [Next]_vars PROVE \A k \in Keys : Fits(k)' /\ Bounded(k)'
    BY <1>2, <2>1
  <2> QED BY <2>1 DEF RowsInv, Keys
<1> QED BY <1>1, <1>3, QueueHolds, TypeHolds, PTL DEF Spec

\* A session covers the usages of its GPUs and nothing else, for any number of
\* GPUs and however often a snapshot is written (SessionMatchesUsages).
THEOREM UsagesMatch == Spec => []SessionMatchesUsages
<1>1. RowsInv => SessionMatchesUsages
  BY DEF RowsInv, Fits, SessionMatchesUsages
<1> QED BY <1>1, RowsHold, PTL
----------------------------------------------------------------------------
(* Snapshots that are sent again *)

Held(details)    == {SessionOf(d) : d \in details}
HeldOn(details, g) == {SessionOf(d) : d \in {d \in details : d.gpu = g}}

LEMMA HeldOfSnapshot ==
  ASSUME NEW m
  PROVE  In(m) = Held(m.processes) /\ \A g \in Gpus : On(m, g) = HeldOn(m.processes, g)
BY DEF In, On, Held, HeldOn

\* In these tables, the last snapshot that was written, at that time, said this.
RecordedIn(details, at, ss, us) ==
  \A k \in Keys :
    /\ k \in Held(details) <=> ss[k].status # "none" /\ ss[k].last = at
    /\ \A g \in Gpus : k \in HeldOn(details, g) => us[k][g].used /\ us[k][g].last = at
    /\ StaleIsLong /\ k \in Held(details) => ss[k].status = "running"

Recorded(details) == RecordedIn(details, written, sessions, usages)

\* Snapshots of one time are copies of one sample.
Copies ==
  /\ written = sampled => Recorded(newest)
  /\ \A i \in 1 .. Len(queue) : queue[i].at = written => Recorded(queue[i].processes)
  /\ \A i \in 1 .. Len(queue) : queue[i].at = sampled => queue[i].processes = newest
  /\ \A i, j \in 1 .. Len(queue) :
       queue[i].at = queue[j].at => queue[i].processes = queue[j].processes

\* What a snapshot on its way, or the newest sample, showed is not old.
LEMMA CopyIsRecent ==
  ASSUME QueueInv, StaleIsLong, NEW k \in Keys, sessions[k].last = written,
         written = sampled \/ \E i \in 1 .. Len(queue) : queue[i].at = written
  PROVE  ~Overdue(sessions[k])
<1> USE QueueNumbers, Numbers DEF QueueInv
<1>1. now <= written + Pace \/ now <= written + Patience
  BY DEF Timely
<1> QED BY <1>1 DEF StaleIsLong, Overdue, Pace

LEMMA CopiesHold == Spec => []Copies
<1>1. Init => Copies
  BY DEF Init, NodeInit, Copies, Recorded, RecordedIn, NoSession, Held, HeldOn
<1>2. ASSUME Copies, RowsInv, QueueInv, QueueInv', [Next]_vars PROVE Copies'
  <2> USE QueueNumbers DEF QueueInv
  <2>2. ASSUME UNCHANGED <<sampled, newest, queue, written, sessions, usages>> PROVE Copies'
    BY <1>2, <2>2 DEF Copies, Recorded
  <2>3. CASE UNCHANGED vars
    BY <2>2, <2>3 DEF vars, nodeVars, tableVars
  <2>4. ASSUME NodeStep PROVE Copies'
    BY <2>2, <2>4, NodeStepEffect
  <2>5. ASSUME NEW m \in Snapshots, queue' = Append(queue, m), m.at = sampled', m.processes = newest',
               UNCHANGED <<written, sessions, usages>>,
               sampled' = written => Recorded(newest'),
               \A i \in 1 .. Len(queue) : queue[i].at = sampled' => queue[i].processes = newest'
        PROVE Copies'
    <3>1. /\ \A i \in 1 .. Len(queue') : i \in 1 .. Len(queue) \/ i = Len(queue) + 1
          /\ \A i \in 1 .. Len(queue) : queue'[i] = queue[i]
          /\ queue'[Len(queue) + 1] = m
      BY <1>2, <2>5, AppendType DEF TypeOK
    <3>2. ASSUME NEW i \in 1 .. Len(queue'), queue'[i].at = sampled' PROVE queue'[i].processes = newest'
      BY <2>5, <3>1, <3>2
    <3>3. ASSUME NEW i \in 1 .. Len(queue'), queue'[i].at = written
          PROVE  RecordedIn(queue'[i].processes, written, sessions, usages)
      BY <1>2, <2>5, <3>1, <3>3 DEF Copies, Recorded
    <3>4. ASSUME NEW i \in 1 .. Len(queue'), NEW j \in 1 .. Len(queue'), queue'[i].at = queue'[j].at
          PROVE  queue'[i].processes = queue'[j].processes
      BY <1>2, <2>5, <3>1, <3>2, <3>4 DEF Copies
    <3>5. written' = sampled' => Recorded(newest)'
      BY <2>5 DEF Recorded
    <3> QED BY <2>5, <3>2, <3>3, <3>4, <3>5 DEF Copies, Recorded
  <2>6. ASSUME NEW details \in SUBSET Reportable, NEW arrives \in BOOLEAN, Publish(details, arrives)
        PROVE Copies'
    <3>1. /\ sampled' = now /\ sampled < now /\ newest' = details /\ written <= sampled
          /\ UNCHANGED <<written, sessions, usages>>
          /\ \A i \in 1 .. Len(queue) : queue[i].at <= sampled
      BY <1>2, <2>6, PublishEffect DEF Ordered
    <3>2. sampled' # written /\ \A i \in 1 .. Len(queue) : queue[i].at # sampled'
      BY <1>2, <3>1
    <3>3. CASE queue' = queue
      BY <1>2, <3>1, <3>2, <3>3 DEF Copies, Recorded
    <3>4. CASE queue' = Append(queue, Snapshot(now, details))
      <4>1. /\ Snapshot(now, details) \in Snapshots
            /\ Snapshot(now, details).at = sampled' /\ Snapshot(now, details).processes = newest'
        BY <1>2, <2>6, <3>1, PublishEffect DEF Snapshot
      <4> QED BY <2>5, <3>1, <3>2, <3>4, <4>1
    <3> QED BY <1>2, <2>6, <3>3, <3>4, PublishEffect
  <2>12. CASE Resend
    <3> DEFINE m == Snapshot(sampled, newest)
    <3>1. /\ m \in Snapshots /\ m.at = sampled /\ m.processes = newest
          /\ queue' = Append(queue, m)
          /\ UNCHANGED <<sampled, newest, written, sessions, usages>>
      BY <1>2, <2>12, ResendEffect DEF Snapshot
    <3> HIDE DEF m
    <3>2. /\ sampled' = written => Recorded(newest')
          /\ \A i \in 1 .. Len(queue) : queue[i].at = sampled' => queue[i].processes = newest'
      BY <1>2, <3>1 DEF Copies
    <3> QED BY <2>5, <3>1, <3>2
  <2>7. CASE Write
    <3>1. /\ queue # << >> /\ queue' = Tail(queue) /\ 1 \in 1 .. Len(queue)
          /\ \A i \in 1 .. Len(queue') : i + 1 \in 1 .. Len(queue) /\ queue'[i] = queue[i + 1]
          /\ written' = queue[1].at /\ queue[1] \in Snapshots
          /\ UNCHANGED <<sampled, newest>>
      BY <1>2, <2>7, TailType DEF Write, TypeOK, nodeVars
    <3>2. ASSUME NEW k \in Keys
          PROVE  /\ k \in Held(queue[1].processes) <=>
                      sessions'[k].status # "none" /\ sessions'[k].last = written'
                 /\ \A g \in Gpus : k \in HeldOn(queue[1].processes, g) =>
                      usages'[k][g].used /\ usages'[k][g].last = written'
                 /\ k \in Held(queue[1].processes) => sessions'[k].status = "running"
      <4> DEFINE at == queue[1].at
      <4>1. at \in Int /\ written \in Int /\ written <= at /\ written' = at
        BY <1>2, <2>7, <3>1, WriteEffect
      <4>2. Bounded(k) /\ sessions[k] \in Session /\ sessions[k].last \in Int
        BY <1>2, RowNumbers DEF RowsInv
      <4>3. CASE k \in Held(queue[1].processes)
        <5>1. /\ sessions'[k] = Reported(sessions[k], at)
              /\ \A g \in Gpus : k \in HeldOn(queue[1].processes, g) =>
                                   usages'[k][g] = Used(usages[k][g], at)
          BY <1>2, <2>7, <4>3, WriteEffect, HeldOfSnapshot
        <5> HIDE DEF at
        <5>2. sessions'[k].status = "running" /\ sessions'[k].last = at
          BY <5>1 DEF Reported
        <5>3. \A g \in Gpus : k \in HeldOn(queue[1].processes, g) =>
                usages'[k][g].used /\ usages'[k][g].last = at
          <6>1. \A u : Used(u, at).used /\ Used(u, at).last = at
            BY DEF Used
          <6> QED BY <5>1, <6>1
        <5> QED BY <4>1, <4>3, <5>2, <5>3 DEF at
      <4>4. CASE k \notin Held(queue[1].processes)
        <5>1. sessions'[k] = sessions[k]
          BY <1>2, <2>7, <4>4, WriteEffect, HeldOfSnapshot
        <5>2. \A g \in Gpus : k \notin HeldOn(queue[1].processes, g)
          BY <4>4 DEF Held, HeldOn
        <5>3. ASSUME sessions'[k].status # "none", sessions'[k].last = at PROVE FALSE
          <6>1. sessions[k].last = written /\ at = written /\ Exists(k)
            BY <4>1, <4>2, <5>1, <5>3 DEF Bounded, Exists
          <6> QED BY <1>2, <3>1, <4>4, <6>1 DEF Copies, Recorded, RecordedIn, Exists
        <5> QED BY <4>1, <4>4, <5>2, <5>3
      <4> QED BY <4>3, <4>4
    <3>3. RecordedIn(queue[1].processes, written', sessions', usages')
      BY <3>2 DEF RecordedIn
    <3>4. ASSUME NEW i \in 1 .. Len(queue'), queue'[i].at = written'
          PROVE  RecordedIn(queue'[i].processes, written', sessions', usages')
      <4>1. queue'[i].processes = queue[1].processes
        BY <1>2, <3>1, <3>4 DEF Copies
      <4> QED BY <3>3, <4>1
    <3>5. written' = sampled' => RecordedIn(newest', written', sessions', usages')
      <4>1. written' = sampled' => newest' = queue[1].processes
        BY <1>2, <3>1 DEF Copies
      <4> QED BY <3>3, <4>1
    <3>6. \A i \in 1 .. Len(queue') : queue'[i].at = sampled' => queue'[i].processes = newest'
      BY <1>2, <3>1 DEF Copies
    <3>7. \A i, j \in 1 .. Len(queue') :
            queue'[i].at = queue'[j].at => queue'[i].processes = queue'[j].processes
      BY <1>2, <3>1 DEF Copies
    <3> QED BY <3>4, <3>5, <3>6, <3>7 DEF Copies, Recorded
  <2>8. CASE WriteFails
    <3>1. /\ \A i \in 1 .. Len(queue') : /\ i + 1 \in 1 .. Len(queue)
                                         /\ queue'[i].at = queue[i + 1].at
                                         /\ queue'[i].processes = queue[i + 1].processes
          /\ UNCHANGED <<sampled, newest, written, sessions, usages>>
      <4>1. queue' = Rest /\ queue # << >> /\ queue \in Seq(Snapshots)
        BY <1>2, <2>8 DEF WriteFails, Rest, TypeOK
      <4>2. UNCHANGED <<sampled, newest, written, sessions, usages>>
        BY <2>8 DEF WriteFails, nodeVars, tableVars
      <4> QED BY <4>1, <4>2, RestType
    <3>2. \A i \in 1 .. Len(queue') : queue'[i].at = written =>
            RecordedIn(queue'[i].processes, written, sessions, usages)
      BY <1>2, <3>1 DEF Copies, Recorded
    <3>3. \A i, j \in 1 .. Len(queue') :
            queue'[i].at = queue'[j].at => queue'[i].processes = queue'[j].processes
      <4>1. \A i, j \in 1 .. Len(queue) :
              queue[i].at = queue[j].at => queue[i].processes = queue[j].processes
        BY <1>2 DEF Copies
      <4> QED BY <3>1, <4>1
    <3>4. \A i \in 1 .. Len(queue') : queue'[i].at = sampled => queue'[i].processes = newest
      BY <1>2, <3>1 DEF Copies
    <3> QED BY <1>2, <3>1, <3>2, <3>3, <3>4 DEF Copies, Recorded
  <2>9. CASE RestartManager
    <3>1. queue' = << >> /\ Len(queue') = 0 /\ UNCHANGED <<sampled, newest, written, sessions, usages>>
      BY <2>9 DEF RestartManager, nodeVars, tableVars
    <3> QED BY <1>2, <3>1 DEF Copies, Recorded
  <2>10. CASE Maintain
    <3>1. UNCHANGED <<sampled, newest, queue, written, usages>>
      BY <2>10 DEF Maintain, nodeVars
    <3>2. ASSUME NEW details, Recorded(details),
                 written = sampled \/ \E i \in 1 .. Len(queue) : queue[i].at = written
          PROVE  RecordedIn(details, written', sessions', usages')
      <4>1. ASSUME NEW k \in Keys
            PROVE  /\ sessions'[k].status # "none" <=> sessions[k].status # "none"
                   /\ sessions'[k].last = sessions[k].last
                   /\ StaleIsLong /\ sessions[k].last = written => sessions'[k] = sessions[k]
        <5>1. sessions[k] \in Session
          BY <1>2, RowNumbers
        <5>2. CASE ~Overdue(sessions[k])
          BY <2>10, <5>2 DEF Maintain
        <5>3. CASE Overdue(sessions[k])
          <6>1. sessions'[k] = [sessions[k] EXCEPT !.status = "ended"] /\ sessions[k].status = "running"
            BY <2>10, <5>3 DEF Maintain, Overdue
          <6>2. sessions'[k].status = "ended" /\ sessions'[k].last = sessions[k].last
            BY <5>1, <6>1, EndedRow
          <6> QED BY <1>2, <3>2, <5>3, <6>1, <6>2, CopyIsRecent
        <5> QED BY <5>2, <5>3
      <4> QED BY <3>1, <3>2, <4>1 DEF Recorded, RecordedIn
    <3> QED BY <1>2, <3>1, <3>2 DEF Copies, Recorded
  <2>11. CASE Tick
    BY <2>2, <2>11 DEF Tick, Pass, tableVars
  <2> QED BY <1>2, <2>3, <2>4, <2>6, <2>7, <2>8, <2>9, <2>10, <2>11, <2>12 DEF Next, NodeStep
<1> QED BY <1>1, <1>2, RowsHold, QueueHolds, PTL DEF Spec
----------------------------------------------------------------------------
(* Sessions that were reported *)

\* While nothing is lost, the last snapshot that was written is never old.
LEMMA WrittenIsRecent ==
  ASSUME QueueInv, InTouch
  PROVE  now <= written + Pace + Patience
<1> USE QueueNumbers, Numbers DEF QueueInv
<1>1. CASE queue = << >>
  BY <1>1 DEF InTouch, Chain, Timely
<1>2. CASE queue # << >>
  <2>1. 1 \in 1 .. Len(queue) /\ Head(queue) = queue[1]
    BY <1>2, TailType DEF TypeOK
  <2>2. queue[1].at <= written + Pace /\ now <= queue[1].at + Patience
    BY <1>2, <2>1 DEF InTouch, Chain, Timely
  <2> QED BY <2>1, <2>2, SMTT(30)
<1> QED BY <1>1, <1>2

\* Contact is not found again but by a snapshot that is written.
LEMMA TouchIsKept ==
  ASSUME TypeOK, [Next]_vars, ~Write, InTouch'
  PROVE  InTouch
<1>1. ASSUME UNCHANGED <<queue, lost>> PROVE InTouch
  BY <1>1 DEF InTouch
<1>2. CASE UNCHANGED vars
  BY <1>1, <1>2 DEF vars
<1>3. ASSUME NodeStep PROVE InTouch
  BY <1>1, <1>3, NodeStepEffect
<1>4. ASSUME NEW m \in Snapshots, queue' = Append(queue, m), m.late = lost PROVE InTouch
  <2>1. CASE queue = << >>
    <3>1. queue' = <<m>>
      BY <1>4, <2>1
    <3>2. queue' # << >> /\ Head(queue').late = lost
      BY <1>4, <3>1
    <3> QED BY <2>1, <3>2 DEF InTouch
  <2>2. CASE queue # << >>
    <3>1. queue' # << >> /\ Head(queue') = Head(queue)
      BY <1>4, <2>2 DEF TypeOK
    <3> QED BY <2>2, <3>1 DEF InTouch
  <2> QED BY <2>1, <2>2
<1>8. ASSUME NEW details \in SUBSET Reportable, NEW arrives \in BOOLEAN, Publish(details, arrives)
      PROVE  InTouch
  <2>1. CASE queue' = queue /\ lost' = TRUE
    BY <2>1 DEF InTouch
  <2>2. CASE queue' = Append(queue, Snapshot(now, details))
    BY <1>4, <1>8, <2>2, PublishEffect DEF Snapshot
  <2> QED BY <1>8, <2>1, <2>2, PublishEffect
<1>9. CASE Resend
  BY <1>4, <1>9, ResendEffect DEF Snapshot
<1>5. CASE WriteFails
  <2>1. queue' = Rest /\ queue # << >> /\ lost' = (lost \/ Len(queue) = 1)
    BY <1>5 DEF WriteFails, Rest
  <2>2. Rest \in Seq(Snapshots) /\ Len(Rest) = Len(queue) - 1 /\ \A i \in 1 .. Len(Rest) : i = 1 => Rest[i].late
    BY <2>1, RestType DEF TypeOK
  <2>3. CASE Rest = << >>
    <3>1. Len(queue) \in Nat /\ Len(<< >>) = 0
      BY DEF TypeOK
    <3>2. Len(queue) = 1
      BY <2>2, <2>3, <3>1
    <3>3. lost'
      BY <2>1, <3>2
    <3> QED BY <2>1, <2>3, <3>3 DEF InTouch
  <2>4. CASE Rest # << >>
    <3>1. Head(Rest) = Rest[1] /\ 1 \in 1 .. Len(Rest)
      BY <2>2, <2>4
    <3> QED BY <2>1, <2>2, <2>4, <3>1 DEF InTouch
  <2> QED BY <2>3, <2>4
<1>6. CASE RestartManager
  BY <1>6 DEF RestartManager, InTouch
<1>7. CASE Maintain \/ Tick
  BY <1>1, <1>7 DEF Maintain, Tick, Pass
<1> QED BY <1>2, <1>3, <1>5, <1>6, <1>7, <1>8, <1>9 DEF Next, NodeStep

\* db maintain does not end a session that the last snapshot showed, as long as
\* none is lost and the stale seconds cover clocks, sampling and the queue
\* (ReportedStaysOpen).
THEOREM StaysOpen == Spec => []ReportedStaysOpen
<1>1. Init => ReportedStaysOpen
  BY DEF Init, ReportedStaysOpen, Exists, NoSession
<1>2. ASSUME ReportedStaysOpen, Copies, RowsInv, QueueInv, [Next]_vars, StaleIsLong, InTouch',
             NEW k \in Keys, Exists(k)', sessions'[k].last = written'
      PROVE  sessions'[k].status = "running"
  <2>1. TypeOK /\ Bounded(k) /\ written \in Int /\ now \in Int
    BY <1>2, QueueNumbers DEF QueueInv, RowsInv
  <2>2. sessions[k] \in Session /\ sessions[k].last \in Int
    BY <2>1, RowNumbers
  <2>3. CASE Write
    <3>1. queue[1].at \in Int /\ written <= queue[1].at /\ written' = queue[1].at
      BY <1>2, <2>3, WriteEffect DEF Times
    <3>2. CASE k \in In(queue[1])
      <4>1. sessions'[k] = Reported(sessions[k], queue[1].at)
        BY <1>2, <2>3, <3>2, WriteEffect
      <4> QED BY <4>1 DEF Reported
    <3>3. CASE k \notin In(queue[1])
      <4>1. sessions'[k] = sessions[k]
        BY <1>2, <2>3, <3>3, WriteEffect
      <4>2. sessions[k].last = written /\ queue[1].at = written /\ Exists(k)
        BY <1>2, <2>1, <2>2, <3>1, <4>1 DEF Bounded, Exists
      <4>3. 1 \in 1 .. Len(queue)
        BY <2>1, <2>3, TailType DEF Write, TypeOK
      <4> QED BY <1>2, <3>3, <4>2, <4>3, HeldOfSnapshot DEF Copies, Recorded, RecordedIn, Exists
    <3> QED BY <3>2, <3>3
  <2>4. CASE ~Write
    <3>1. InTouch /\ written' = written
      BY <1>2, <2>1, <2>4, TouchIsKept, OtherEffect
    <3>2. CASE sessions'[k] = sessions[k]
      BY <1>2, <3>1, <3>2 DEF ReportedStaysOpen, Exists
    <3>3. CASE Overdue(sessions[k]) /\ sessions'[k] = [sessions[k] EXCEPT !.status = "ended"]
      <4>1. sessions'[k].last = sessions[k].last
        BY <2>2, <3>3, EndedRow DEF Overdue
      <4>2. now <= written + Pace + Patience
        BY <1>2, <3>1, WrittenIsRecent
      <4>3. sessions[k].last < now + Ahead - Stale
        BY <3>3 DEF Overdue
      <4> QED BY <1>2, <2>1, <2>2, <3>1, <4>1, <4>2, <4>3 DEF StaleIsLong, Pace
    <3> QED BY <1>2, <2>1, <2>4, <3>2, <3>3, OtherEffect
  <2> QED BY <2>3, <2>4
<1>3. ReportedStaysOpen /\ Copies /\ RowsInv /\ QueueInv /\ [Next]_vars => ReportedStaysOpen'
  BY <1>2 DEF ReportedStaysOpen, StaleIsLong, Keys
<1> QED BY <1>1, <1>3, CopiesHold, RowsHold, QueueHolds, PTL DEF Spec

\* A snapshot that an agent sends again, and that is written again, changes no
\* row (SentAgainChangesNothing).
THEOREM SendingAgainIsHarmless == Spec => SentAgainChangesNothing
<1>1. ASSUME Copies, QueueInv, QueueInv', StaleIsLong, Write, queue[1].at = written
      PROVE  UNCHANGED tableVars
  <2>1. TypeOK /\ TypeOK' /\ 1 \in 1 .. Len(queue)
    BY <1>1, TailType DEF QueueInv, TypeOK, Write
  <2>2. Recorded(queue[1].processes)
    BY <1>1, <2>1 DEF Copies
  <2>3. ASSUME NEW k \in Keys
        PROVE  sessions'[k] = sessions[k] /\ \A g \in Gpus : usages'[k][g] = usages[k][g]
    <3>1. sessions[k] \in Session /\ \A g \in Gpus : usages[k][g] \in Usage
      BY <2>1 DEF TypeOK
    <3>2. CASE k \notin In(queue[1])
      BY <1>1, <3>2, WriteEffect
    <3>3. CASE k \in In(queue[1])
      <4>1. sessions[k].last = written /\ sessions[k].status = "running"
        BY <1>1, <2>2, <3>3, HeldOfSnapshot DEF Recorded, RecordedIn
      <4>2. sessions'[k] = Reported(sessions[k], written)
        BY <1>1, <3>3, WriteEffect
      <4>3. Reported(sessions[k], written) = sessions[k]
        BY <3>1, <4>1 DEF Reported, Session
      <4>4. ASSUME NEW g \in Gpus PROVE usages'[k][g] = usages[k][g]
        <5>1. CASE k \in On(queue[1], g)
          <6>1. usages[k][g].used /\ usages[k][g].last = written
            BY <2>2, <5>1, HeldOfSnapshot DEF Recorded, RecordedIn
          <6>2. usages'[k][g] = Used(usages[k][g], written)
            BY <1>1, <3>3, <5>1, WriteEffect
          <6>3. Used(usages[k][g], written) = usages[k][g]
            BY <3>1, <6>1 DEF Used, Usage
          <6> QED BY <6>2, <6>3
        <5>2. CASE k \notin On(queue[1], g)
          BY <1>1, <3>3, <5>2, WriteEffect
        <5> QED BY <5>1, <5>2
      <4> QED BY <4>2, <4>3, <4>4
    <3> QED BY <3>2, <3>3
  <2>4. sessions' = sessions
    BY <2>1, <2>3 DEF TypeOK
  <2>5. usages' = usages
    <3>1. /\ usages \in [Keys -> [Gpus -> Usage]] /\ usages' \in [Keys -> [Gpus -> Usage]]
      BY <2>1 DEF TypeOK, Keys, Usage, Times
    <3>2. ASSUME NEW k \in Keys PROVE usages'[k] = usages[k]
      BY <2>3, <3>1
    <3> QED BY <3>1, <3>2
  <2> QED BY <2>4, <2>5 DEF tableVars
<1>2. Copies /\ QueueInv /\ QueueInv' =>
        [StaleIsLong /\ Write /\ queue[1].at = written => UNCHANGED tableVars]_vars
  BY <1>1
<1> QED BY <1>2, CopiesHold, QueueHolds, PTL DEF Spec, SentAgainChangesNothing
----------------------------------------------------------------------------
(* Sessions and processes *)

\* What a snapshot says of a process was true shortly before it.
Rooted ==
  /\ \A i \in 1 .. Len(queue) : \A d \in queue[i].processes :
       AliveSince(SessionOf(d), queue[i].at - Fresh) \/ SessionOf(d) \in ghosts
  /\ \A d \in newest : AliveSince(SessionOf(d), sampled - Fresh) \/ SessionOf(d) \in ghosts
  /\ \A k \in Keys : Exists(k) => AliveSince(k, sessions[k].last - Fresh) \/ k \in ghosts

\* Maintenance keeps up with the sessions that run.
Recent == \A k \in Keys : sessions[k].status = "running" => sessions[k].last >= maintained - Lag

RootInv == Rooted /\ Recent

\* A step keeps what is known of a session or a detail.
LEMMA KnownKept ==
  ASSUME QueueInv, [Next]_vars
  PROVE  /\ \A k, at : at \in Int /\ at <= now /\ AliveSince(k, at) => AliveSince(k, at)'
         /\ ghosts \subseteq ghosts'
<1>1. NodeTypeOK /\ Lives
  BY StepLives DEF QueueInv, TypeOK
<1>2. ASSUME NEW k, NEW at \in Int, at <= now, AliveSince(k, at) PROVE AliveSince(k, at)'
  BY <1>1, <1>2, AliveSinceKept
<1>3. ghosts \subseteq ghosts'
  <2>1. ASSUME ghosts' = ghosts PROVE ghosts \subseteq ghosts'
    BY <2>1
  <2>2. CASE UNCHANGED vars
    BY <2>1, <2>2 DEF vars, nodeVars
  <2>3. ASSUME NEW p \in Procs, Come(p) \/ Go(p) PROVE ghosts \subseteq ghosts'
    BY <2>1, <2>3 DEF Come, Go, Start, Exit
  <2>4. ASSUME NEW k \in Heard, KeepsUnread(k) PROVE ghosts \subseteq ghosts'
    BY <2>4 DEF KeepsUnread, Forget
  <2>5. ASSUME NEW details \in SUBSET Reportable, NEW arrives \in BOOLEAN, Publish(details, arrives)
        PROVE ghosts \subseteq ghosts'
    BY <2>1, <2>5 DEF Publish, Report
  <2>6. CASE Resend \/ Write \/ WriteFails \/ RestartManager \/ Maintain \/ Tick
    BY <2>1, <2>6 DEF Resend, Write, WriteFails, RestartManager, Maintain, Tick, Pass, nodeVars
  <2> QED BY <2>2, <2>3, <2>4, <2>5, <2>6 DEF Next
<1> QED BY <1>2, <1>3

\* Known of a detail at a time.
Known(d, at) == AliveSince(SessionOf(d), at - Fresh) \/ SessionOf(d) \in ghosts

\* Known of a session.
KnownRow(k) == Exists(k) => AliveSince(k, sessions[k].last - Fresh) \/ k \in ghosts

LEMMA RootedIsKnown ==
  Rooted <=> /\ \A i \in 1 .. Len(queue) : \A d \in queue[i].processes : Known(d, queue[i].at)
             /\ \A d \in newest : Known(d, sampled)
             /\ \A k \in Keys : KnownRow(k)
BY DEF Rooted, Known, KnownRow

LEMMA KnownStep ==
  ASSUME QueueInv, [Next]_vars, NEW d, NEW at \in Int, at <= now, Known(d, at)
  PROVE  Known(d, at)'
<1>1. at - Fresh \in Int /\ at - Fresh <= now
  BY Numbers, QueueNumbers DEF QueueInv
<1>2. SessionOf(d)' = SessionOf(d) /\ Fresh' = Fresh
  BY DEF SessionOf, Fresh
<1>3. AliveSince(SessionOf(d), at - Fresh) => AliveSince(SessionOf(d), at - Fresh)'
  BY <1>1, KnownKept
<1> QED BY <1>2, <1>3, KnownKept DEF Known

LEMMA RootHolds == Spec => []RootInv
<1>1. Init => RootInv
  BY DEF Init, NodeInit, RootInv, Rooted, Recent, Exists, NoSession
<1>2. ASSUME RootInv, RowsInv, QueueInv, QueueInv', [Next]_vars PROVE Rooted'
  <2>1. TypeOK /\ TypeOK' /\ now \in Int /\ written \in Int
    BY <1>2, QueueNumbers DEF QueueInv
  <2>2. ASSUME NEW i \in 1 .. Len(queue), NEW d \in queue[i].processes
        PROVE  Known(d, queue[i].at) /\ queue[i].at \in Int /\ queue[i].at <= now
    BY <1>2, <2>1, QueueNumbers, RootedIsKnown DEF RootInv, QueueInv, Ordered
  <2>5. sampled \in Int /\ sampled <= now /\ \A d \in newest : Known(d, sampled)
    BY <1>2, <2>1, QueueNumbers, RootedIsKnown DEF RootInv, QueueInv, Ordered
  <2>3. ASSUME NEW i \in 1 .. Len(queue'), NEW d \in queue'[i].processes, NEW at, at = queue'[i].at
        PROVE  Known(d, at)'
    <3>1. CASE \E j \in 1 .. Len(queue) : d \in queue[j].processes /\ at = queue[j].at
      BY <1>2, <2>2, <3>1, KnownStep
    <3>2. ASSUME UNCHANGED queue PROVE Known(d, at)'
      BY <2>3, <3>1, <3>2
    <3>10. ASSUME NEW m \in Snapshots, queue' = Append(queue, m), m.at \in Int, m.at <= now,
                  \A e \in m.processes : Known(e, m.at)
           PROVE  Known(d, at)'
      <4>1. /\ Len(queue) \in Nat
            /\ Len(queue') = Len(queue) + 1
            /\ \A j \in 1 .. Len(queue) : queue'[j] = queue[j]
            /\ queue'[Len(queue) + 1] = m
        BY <2>1, <3>10, AppendType DEF TypeOK
      <4>2. CASE i \in 1 .. Len(queue)
        BY <2>3, <3>1, <4>1, <4>2
      <4>3. CASE i = Len(queue) + 1
        <5>1. at = m.at /\ Known(d, at)
          BY <2>3, <3>10, <4>1, <4>3
        <5> QED BY <1>2, <3>10, <5>1, KnownStep
      <4> QED BY <4>1, <4>2, <4>3
    <3>3. CASE UNCHANGED vars
      BY <3>2, <3>3 DEF vars
    <3>4. ASSUME NodeStep PROVE Known(d, at)'
      BY <3>2, <3>4, NodeStepEffect
    <3>5. ASSUME NEW details \in SUBSET Reportable, NEW arrives \in BOOLEAN, Publish(details, arrives)
          PROVE Known(d, at)'
      <4>1. CASE queue' = Append(queue, Snapshot(now, details))
        <5>1. Snapshot(now, details).at = now /\ Snapshot(now, details).processes = details
          BY DEF Snapshot
        <5>2. ASSUME NEW e \in details PROVE Known(e, now)
          BY DEF Reportable, Known
        <5>3. now <= now
          BY <2>1
        <5>4. Snapshot(now, details) \in Snapshots
          BY <2>1, <3>5, PublishEffect
        <5> QED BY <2>1, <3>10, <4>1, <5>1, <5>2, <5>3, <5>4
      <4> QED BY <2>1, <3>2, <3>5, <4>1, PublishEffect
    <3>11. CASE Resend
      <4>1. Snapshot(sampled, newest).at = sampled /\ Snapshot(sampled, newest).processes = newest
        BY DEF Snapshot
      <4> QED BY <1>2, <2>1, <2>5, <3>10, <3>11, <4>1, ResendEffect
    <3>6. CASE Write
      <4>1. i + 1 \in 1 .. Len(queue) /\ queue'[i] = queue[i + 1]
        BY <2>1, <3>6, TailType DEF Write, TypeOK
      <4> QED BY <2>3, <3>1, <4>1
    <3>7. CASE WriteFails
      <4>1. queue' = Rest /\ queue # << >>
        BY <3>7 DEF WriteFails, Rest
      <4>2. i + 1 \in 1 .. Len(queue) /\ queue'[i].at = queue[i + 1].at
            /\ queue'[i].processes = queue[i + 1].processes
        BY <2>1, <4>1, RestType DEF TypeOK
      <4> QED BY <2>3, <3>1, <4>2
    <3>8. CASE RestartManager
      BY <3>8 DEF RestartManager
    <3>9. CASE Maintain \/ Tick
      BY <3>2, <3>9 DEF Maintain, Tick, Pass
    <3> QED BY <1>2, <3>3, <3>4, <3>5, <3>6, <3>7, <3>8, <3>9, <3>11 DEF Next, NodeStep
  <2>6. ASSUME NEW d \in newest', NEW at, at = sampled' PROVE Known(d, at)'
    <3>1. ASSUME UNCHANGED <<newest, sampled>> PROVE Known(d, at)'
      BY <1>2, <2>5, <2>6, <3>1, KnownStep
    <3>2. CASE UNCHANGED vars
      BY <3>1, <3>2 DEF vars, nodeVars
    <3>3. ASSUME NodeStep PROVE Known(d, at)'
      BY <3>1, <3>3, NodeStepEffect
    <3>4. ASSUME NEW details \in SUBSET Reportable, NEW arrives \in BOOLEAN, Publish(details, arrives)
          PROVE Known(d, at)'
      <4>1. d \in Reportable /\ at = now
        BY <1>2, <2>1, <2>6, <3>4, PublishEffect
      <4>2. Known(d, now) /\ now <= now
        BY <2>1, <4>1 DEF Reportable, Known
      <4> QED BY <1>2, <2>1, <4>1, <4>2, KnownStep
    <3>5. CASE Resend \/ Write \/ WriteFails \/ RestartManager \/ Maintain \/ Tick
      BY <3>1, <3>5 DEF Resend, Write, WriteFails, RestartManager, Maintain, Tick, Pass, nodeVars
    <3> QED BY <1>2, <3>2, <3>3, <3>4, <3>5 DEF Next, NodeStep
  <2>4. ASSUME NEW k \in Keys PROVE KnownRow(k)'
    <3>1. KnownRow(k) /\ Bounded(k) /\ sessions[k] \in Session /\ sessions[k].last \in Int
      BY <1>2, <2>1, RootedIsKnown, RowNumbers DEF RootInv, RowsInv
    <3>2. ASSUME sessions'[k].status # "none" => Exists(k), sessions'[k].last = sessions[k].last
          PROVE  KnownRow(k)'
      <4>1. sessions[k].last - Fresh \in Int /\ sessions[k].last - Fresh <= now
        <5>1. sessions[k].last <= written /\ written <= sampled /\ sampled <= now /\ sampled \in Int
          BY <1>2, <3>1, QueueNumbers DEF Bounded, QueueInv, Ordered
        <5>2. sessions[k].last <= now
          BY <2>1, <3>1, <5>1
        <5> QED BY <2>1, <3>1, <5>2, Numbers
      <4> DEFINE from == sessions[k].last - Fresh
      <4>2. AliveSince(k, from) => AliveSince(k, sessions[k].last - Fresh)'
        <5>1. \A at : at = from /\ AliveSince(k, at) => AliveSince(k, at)'
          BY <1>2, <4>1, KnownKept
        <5>2. (sessions[k].last - Fresh)' = from
          BY <3>2 DEF Fresh
        <5> QED BY <5>1, <5>2 DEF AliveSince
      <4> QED BY <1>2, <3>1, <3>2, <4>2, KnownKept DEF KnownRow, Exists
    <3>3. CASE Write
      <4>1. CASE k \notin In(queue[1])
        <5>1. sessions'[k] = sessions[k]
          BY <1>2, <3>3, <4>1, WriteEffect
        <5> QED BY <3>2, <5>1 DEF Exists
      <4>2. CASE k \in In(queue[1])
        <5>1. sessions'[k] = Reported(sessions[k], queue[1].at) /\ 1 \in 1 .. Len(queue)
          BY <1>2, <2>1, <3>3, <4>2, WriteEffect, TailType DEF Write, TypeOK
        <5>2. PICK d \in queue[1].processes : k = SessionOf(d)
          BY <4>2 DEF In
        <5>3. Known(d, queue[1].at) /\ queue[1].at \in Int /\ queue[1].at <= now
          BY <2>2, <5>1
        <5>4. \A at : at = queue[1].at => Known(d, at)'
          BY <1>2, <5>3, KnownStep
        <5>5. sessions'[k].last = queue[1].at
          BY <5>1 DEF Reported
        <5>6. AliveSince(k, sessions[k].last - Fresh)' \/ k \in ghosts'
          BY <5>2, <5>4, <5>5 DEF Known, AliveSince, SessionOf, Fresh
        <5> QED BY <5>6 DEF KnownRow
      <4> QED BY <4>1, <4>2
    <3>4. CASE ~Write
      <4>1. CASE sessions'[k] = sessions[k]
        BY <3>2, <4>1 DEF Exists
      <4>2. CASE Overdue(sessions[k]) /\ sessions'[k] = [sessions[k] EXCEPT !.status = "ended"]
        <5>1. sessions'[k].last = sessions[k].last /\ Exists(k)
          BY <3>1, <4>2, EndedRow DEF Overdue, Exists
        <5> QED BY <3>2, <5>1
      <4> QED BY <1>2, <2>1, <3>4, <4>1, <4>2, OtherEffect
    <3> QED BY <3>3, <3>4
  <2> QED BY <2>3, <2>4, <2>6 DEF Rooted, Known, KnownRow, Keys
<1>3. ASSUME RootInv, RowsInv, QueueInv, QueueInv', [Next]_vars PROVE Recent'
  <2>1. TypeOK /\ now \in Int /\ written \in Int /\ maintained \in Int /\ maintained <= now
    BY <1>3, QueueNumbers DEF QueueInv, Timely
  <2>2. ASSUME NEW k \in Keys, sessions'[k].status = "running"
        PROVE  sessions'[k].last >= maintained' - Lag
    <3>1. /\ sessions[k] \in Session /\ sessions[k].last \in Int
          /\ sessions[k].status = "running" => sessions[k].last >= maintained - Lag
      BY <1>3, <2>1, RowNumbers DEF RootInv, Recent
    <3>2. ASSUME ~Maintain PROVE maintained' = maintained
      <4>1. CASE UNCHANGED vars
        BY <4>1 DEF vars
      <4>2. ASSUME NodeStep PROVE maintained' = maintained
        BY <4>2, NodeStepEffect
      <4>3. ASSUME NEW details \in SUBSET Reportable, NEW arrives \in BOOLEAN, Publish(details, arrives)
            PROVE maintained' = maintained
        BY <4>3 DEF Publish, Report
      <4>4. CASE Resend \/ Write \/ WriteFails \/ RestartManager \/ Tick
        BY <4>4 DEF Resend, Write, WriteFails, RestartManager, Tick, Pass
      <4> QED BY <1>3, <3>2, <4>1, <4>2, <4>3, <4>4 DEF Next, NodeStep
    <3>3. CASE Write
      <4>1. CASE k \in In(queue[1])
        <5>1. sessions'[k].last = queue[1].at
          <6>1. sessions'[k] = Reported(sessions[k], queue[1].at)
            BY <1>3, <3>3, <4>1, WriteEffect
          <6> QED BY <6>1 DEF Reported
        <5>2. queue[1].at \in Int /\ now <= queue[1].at + Patience /\ maintained' = maintained
          <6>1. 1 \in 1 .. Len(queue)
            BY <2>1, <3>3, TailType DEF Write, TypeOK
          <6>2. maintained' = maintained
            BY <3>3 DEF Write
          <6> QED BY <1>3, <2>1, <6>1, <6>2, QueueNumbers DEF QueueInv, Timely
        <5> QED BY <2>1, <5>1, <5>2, Numbers
      <4>2. CASE k \notin In(queue[1])
        <5>1. sessions'[k] = sessions[k] /\ maintained' = maintained
          BY <1>3, <3>3, <4>2, WriteEffect DEF Write
        <5> QED BY <2>2, <3>1, <5>1
      <4> QED BY <4>1, <4>2
    <3>4. CASE Maintain
      <4>1. maintained' = now /\ ~Overdue(sessions[k]) /\ sessions'[k] = sessions[k]
        BY <2>2, <3>1, <3>4, EndedRow DEF Maintain, Overdue
      <4>2. sessions[k].last >= now + Ahead - Stale
        BY <2>1, <2>2, <3>1, <4>1 DEF Overdue
      <4> QED BY <2>1, <3>1, <4>1, <4>2, Numbers
    <3>5. CASE ~Write /\ ~Maintain
      <4>1. sessions'[k] = sessions[k]
        BY <1>3, <2>1, <3>5, OtherEffect
      <4> QED BY <2>2, <3>1, <3>2, <3>5, <4>1
    <3> QED BY <3>3, <3>4, <3>5
  <2> QED BY <2>2 DEF Recent, Lag, Larger, Keys
<1>4. RootInv /\ RowsInv /\ QueueInv /\ QueueInv' /\ [Next]_vars => RootInv'
  BY <1>2, <1>3 DEF RootInv
<1> QED BY <1>1, <1>4, RowsHold, QueueHolds, PTL DEF Spec

\* A session that is running is of a process that was alive not longer ago than
\* Bound, whatever is lost and however late the snapshots (RunningWasAlive).
THEOREM RunningIsAlive == Spec => []RunningWasAlive
<1>1. ASSUME RootInv, QueueInv, NEW k \in Keys \ ghosts, sessions[k].status = "running"
      PROVE  AliveSince(k, now - Bound)
  <2>1. /\ TypeOK /\ NodeTypeOK /\ now \in Int /\ maintained \in Int /\ now <= maintained + Every
        /\ sessions[k].last \in Int
    BY <1>1, QueueNumbers, RowNumbers DEF QueueInv, Timely, TypeOK
  <2>2. AliveSince(k, sessions[k].last - Fresh)
    BY <1>1 DEF RootInv, Rooted, Exists
  <2>3. sessions[k].last >= maintained - Lag
    BY <1>1 DEF RootInv, Recent
  <2>4. now - Bound \in Int /\ sessions[k].last - Fresh \in Int /\ now - Bound <= sessions[k].last - Fresh
    BY <2>1, <2>3, Numbers
  <2> QED BY <2>1, <2>2, <2>4, AliveSinceEarlier
<1>2. RootInv /\ QueueInv => RunningWasAlive
  BY <1>1 DEF RunningWasAlive
<1> QED BY <1>2, RootHolds, QueueHolds, PTL
=============================================================================
