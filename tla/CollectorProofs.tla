-------------------------- MODULE CollectorProofs --------------------------
(***************************************************************************)
(* Theorems about Collector for every set of intervals: its types, and     *)
(* that neither the thread's statements nor the loop's, in whatever order, *)
(* leave a sample, a sleep or a waiting sender behind the settings and the *)
(* snapshots.                                                              *)
(***************************************************************************)
EXTENDS Collector, TLAPS

USE CollectorAssumption

LEMMA RestType ==
  ASSUME NEW interval \in 0 .. Longest, NEW age \in {Never} \cup 0 .. Longest
  PROVE  Rest(interval, age) \in 0 .. Longest
BY DEF Rest, AtLeast

LEMMA EffectiveType ==
  ASSUME refresh \in Refreshes, process \in MinProcess .. Longest
  PROVE  /\ Effective \in MinProcess .. Longest
         /\ AtLeast(MinProcess, Effective) = Effective
BY DEF Effective, AtLeast

LEMMA ReckonedType ==
  ASSUME sampler \in Samplers
  PROVE  /\ Reckoned \in Samplers
         /\ Reckoned.interval = sampler.interval
         /\ Reckoned.due = Rest(Reckoned.interval, Reckoned.age)
<1>1. Rest(sampler.interval, sampler.age) \in 0 .. Longest
  BY RestType DEF Samplers
<1>2. Reckoned = [sampler EXCEPT !.due = Rest(sampler.interval, sampler.age)]
  BY DEF Reckoned
<1> QED BY <1>1, <1>2 DEF Samplers

\* A tick takes one off what is left of an interval.
LEMMA RestTicks ==
  ASSUME NEW interval \in 0 .. Longest, NEW age \in {Never} \cup 0 .. Longest
  PROVE  Rest(interval, Aged(age)) = AtLeast(0, Rest(interval, age) - 1)
BY DEF Rest, Aged, AtLeast, AtMost

LEMMA NewSamplerType ==
  ASSUME asked \in 0 .. Longest
  PROVE  /\ NewSampler \in Samplers
         /\ NewSampler.interval = AtLeast(MinProcess, asked)
         /\ NewSampler.due = Rest(NewSampler.interval, NewSampler.age)
<1>1. AtLeast(MinProcess, asked) \in MinProcess .. Longest
  BY DEF AtLeast
<1> QED BY <1>1 DEF NewSampler, Samplers, Rest

\* What the sampler becomes as time passes.
Later == [interval |-> sampler.interval, age |-> Aged(sampler.age),
          due |-> AtLeast(0, sampler.due - 1)]

LEMMA LaterType ==
  ASSUME sampler \in Samplers
  PROVE  Later \in Samplers
<1>1. Aged(sampler.age) \in {Never} \cup 0 .. Longest
  BY DEF Aged, AtMost, Samplers
<1>2. AtLeast(0, sampler.due - 1) \in 0 .. Longest
  BY DEF AtLeast, Samplers
<1> QED BY <1>1, <1>2 DEF Later, Samplers
----------------------------------------------------------------------------

\* Every variable stays in its domain.
THEOREM TypeCorrect == Spec => []TypeOK
<1>1. Init => TypeOK
  <2> SUFFICES ASSUME Init PROVE TypeOK
    OBVIOUS
  <2>1. process \in MinProcess .. Longest
    BY DEF Init, AtLeast
  <2>2. 0 \in 0 .. Longest
    OBVIOUS
  <2>3. asked \in 0 .. Longest /\ elapsed \in 0 .. Longest /\ rest \in 0 .. Longest
    BY <2>2 DEF Init
  <2>4. /\ refresh \in Refreshes /\ setter \in {"done", "checked", "telling"}
        /\ sampler \in {NoSampler} \cup Samplers
        /\ step = "start" /\ sender = "looking"
    BY DEF Init
  <2>5. /\ wake \in BOOLEAN /\ snapshot \in BOOLEAN /\ fresh \in BOOLEAN
        /\ event \in BOOLEAN /\ calm \in BOOLEAN
    BY DEF Init
  <2> QED BY <2>1, <2>3, <2>4, <2>5 DEF TypeOK, ThreadSteps
<1>2. TypeOK /\ [Next]_vars => TypeOK'
  <2> SUFFICES ASSUME TypeOK, [Next]_vars PROVE TypeOK'
    OBVIOUS
  <2> USE DEF TypeOK, setterVars, threadVars, sleepVars, senderVars, ThreadSteps
  <2>0. /\ sampler # NoSampler => sampler \in Samplers
        /\ Effective \in 0 .. Longest
        /\ AtLeast(MinProcess, Effective) \in MinProcess .. Longest
        /\ AtLeast(MinProcess, asked) \in MinProcess .. Longest
        /\ NewSampler \in Samplers
    BY EffectiveType, NewSamplerType DEF AtLeast
  <2>a. ASSUME sampler \in Samplers, NEW i \in MinProcess .. Longest
        PROVE  [sampler EXCEPT !.interval = i] \in Samplers
    BY <2>a DEF Samplers
  <2>b. ASSUME sampler \in Samplers PROVE [sampler EXCEPT !.age = 0] \in Samplers
    BY <2>b DEF Samplers
  <2>c. NoSampler \notin Samplers
    BY DEF Samplers
  <2>1. CASE Start
    BY <2>1, <2>0, <2>c DEF Start
  <2>2. CASE Create
    BY <2>2, <2>0, <2>c DEF Create
  <2>3. CASE Tell
    BY <2>3, <2>0, <2>a, <2>c DEF Tell
  <2>4. CASE Reckon
    BY <2>4, <2>0, <2>c, ReckonedType DEF Reckon
  <2>5. CASE Decide \/ Collect \/ Fail \/ Fallback
    BY <2>5 DEF Decide, Collect, Fail, Fallback
  <2>6. CASE Note
    BY <2>6, <2>0, <2>b, <2>c DEF Note
  <2>7. CASE Plan
    BY <2>7, <2>0, <2>c, ReckonedType DEF Plan
  <2>8. CASE Publish
    <3>a. refresh \in 1 .. Longest
      OBVIOUS
    <3>b. elapsed < refresh => refresh - elapsed \in 0 .. Longest
      BY <3>a
    <3>c. 0 \in 0 .. Longest
      OBVIOUS
    <3>1. elapsed' \in 0 .. Longest /\ rest' \in 0 .. Longest /\ wake' \in BOOLEAN
      <4>1. CASE elapsed < refresh
        BY <2>8, <3>b, <4>1 DEF Publish
      <4>2. CASE ~(elapsed < refresh)
        BY <2>8, <3>c, <4>2 DEF Publish
      <4> QED BY <4>1, <4>2
    <3>2. step' \in {"start", "sleep"} /\ calm' \in BOOLEAN
      BY <2>8 DEF Publish
    <3> QED BY <2>8, <3>1, <3>2 DEF Publish
  <2>9. CASE Awake
    BY <2>9 DEF Awake
  <2>10. CASE \E r \in Refreshes : SetRefresh(r)
    BY <2>10 DEF SetRefresh
  <2>11. CASE \E p \in Processes : SetProcess(p)
    <3>1. process' \in MinProcess .. Longest
      BY <2>11 DEF SetProcess, AtLeast
    <3> QED BY <2>11, <3>1 DEF SetProcess
  <2>12. CASE TellSampler
    BY <2>12, <2>0, <2>a, <2>c DEF TellSampler
  <2>13. CASE ReckonSampler
    BY <2>13, <2>0, <2>c, ReckonedType DEF ReckonSampler
  <2>14. CASE Look \/ Woken \/ TimedOut \/ Sent \/ Reconnect
    BY <2>14 DEF Look, Woken, TimedOut, Sent, Reconnect
  <2>15. CASE Tick
    <3>1. sampler' = IF sampler = NoSampler THEN NoSampler ELSE Later
      BY <2>15 DEF Tick, Later
    <3>2. elapsed' \in 0 .. Longest /\ rest' \in 0 .. Longest
      BY <2>15 DEF Tick, AtMost, AtLeast
    <3>3. sampler # NoSampler => Later \in Samplers
      BY <2>0, LaterType
    <3> QED BY <2>15, <2>c, <3>1, <3>2, <3>3 DEF Tick
  <2>16. CASE UNCHANGED vars
    BY <2>16 DEF vars
  <2> QED BY <2>1, <2>2, <2>3, <2>4, <2>5, <2>6, <2>7, <2>8, <2>9, <2>10, <2>11, <2>12,
             <2>13, <2>14, <2>15, <2>16 DEF Next, RunStep, SetterStep
<1> QED BY <1>1, <1>2, PTL DEF Spec
----------------------------------------------------------------------------

\* A cycle whose settings have not changed hands them on unchanged, from where
\* the thread reads them to where it decides by them.
CadenceInv ==
  calm =>
    /\ setter = "done"
    /\ step \in {"create", "tell"} => asked = Effective
    /\ step = "reckon" => sampler.interval = AtLeast(MinProcess, Effective)
    /\ CadenceFollowsSettings

\* For every set of intervals, a sample decides about listing the processes by
\* the settings it was started under and the time of the last listing.
THEOREM CadenceHolds == Spec => []CadenceFollowsSettings
<1>1. Init => CadenceInv
  BY DEF Init, CadenceInv, CadenceFollowsSettings
<1>2. TypeOK /\ CadenceInv /\ [Next]_vars => CadenceInv'
  <2> SUFFICES ASSUME TypeOK, CadenceInv, [Next]_vars, calm' PROVE CadenceInv'
    BY DEF CadenceInv
  <2> USE DEF CadenceInv, CadenceFollowsSettings, setterVars, threadVars, sleepVars, senderVars
  <2>0. /\ sampler # NoSampler => sampler \in Samplers
        /\ sampler = NoSampler =>
             step \notin {"tell", "reckon", "decide", "collect", "note", "plan"}
        /\ asked \in 0 .. Longest
    BY DEF TypeOK
  <2>1. CASE Start
    BY <2>1 DEF Start, Effective
  <2>2. CASE Create
    <3>1. calm /\ Effective' = Effective /\ asked = Effective /\ setter' = "done"
      BY <2>2 DEF Create, Effective
    <3>2. CASE sampler' = NewSampler /\ step' = "decide"
      BY <2>0, <3>1, <3>2, NewSamplerType
    <3>3. CASE step' = "fallback"
      BY <3>1, <3>3
    <3> QED BY <2>2, <3>2, <3>3 DEF Create
  <2>3. CASE Tell
    <3>1. sampler \in Samplers
      BY <2>0, <2>3 DEF Tell
    <3>2. sampler'.interval = AtLeast(MinProcess, asked)
      BY <2>3, <3>1 DEF Tell, Samplers
    <3>3. asked = Effective /\ Effective' = Effective /\ step' = "reckon" /\ setter' = "done"
      BY <2>3 DEF Tell, Effective
    <3> QED BY <3>2, <3>3
  <2>4. CASE Reckon
    <3>1. sampler \in Samplers
      BY <2>0, <2>4 DEF Reckon
    <3>2. /\ sampler' = Reckoned /\ sampler.interval = AtLeast(MinProcess, Effective)
          /\ Effective' = Effective /\ step' = "decide" /\ setter' = "done"
      BY <2>4 DEF Reckon, Effective
    <3> QED BY <3>1, <3>2, ReckonedType
  <2>5. CASE Decide \/ Collect \/ Fail \/ Fallback \/ Note \/ Plan
    BY <2>5 DEF Decide, Collect, Fail, Fallback, Note, Plan
  <2>6. CASE Publish
    BY <2>6 DEF Publish
  <2>7. CASE Awake
    BY <2>7 DEF Awake
  <2>8. CASE (\E r \in Refreshes : SetRefresh(r)) \/ (\E p \in Processes : SetProcess(p))
    BY <2>8 DEF SetRefresh, SetProcess
  <2>9. CASE SetterStep
    BY <2>9 DEF SetterStep, TellSampler, ReckonSampler
  <2>10. CASE Look \/ Woken \/ TimedOut \/ Sent \/ Reconnect
    BY <2>10 DEF Look, Woken, TimedOut, Sent, Reconnect, Effective
  <2>11. CASE Tick
    <3>1. /\ Effective' = Effective /\ asked' = asked /\ step' = step /\ setter' = "done"
          /\ sampler' = IF sampler = NoSampler THEN NoSampler ELSE Later
      BY <2>11 DEF Tick, Effective, Later
    <3>2. ASSUME step \in {"reckon", "decide"}
          PROVE  sampler' = Later /\ sampler'.interval = sampler.interval
      BY <2>0, <3>1, <3>2 DEF Later
    <3>3. ASSUME step = "decide"
          PROVE  sampler'.due = Rest(sampler'.interval, sampler'.age)
      <4>1. sampler \in Samplers /\ sampler.due = Rest(sampler.interval, sampler.age)
        BY <2>0, <2>11, <3>3 DEF Tick
      <4>2. sampler.interval \in 0 .. Longest /\ sampler.age \in {Never} \cup 0 .. Longest
        BY <4>1 DEF Samplers
      <4>3. Rest(sampler.interval, Aged(sampler.age)) = AtLeast(0, sampler.due - 1)
        BY <4>1, <4>2, RestTicks
      <4> QED BY <3>2, <3>3, <4>3 DEF Later
    <3> QED BY <2>11, <3>1, <3>2, <3>3 DEF Tick
  <2>12. CASE UNCHANGED vars
    BY <2>12 DEF vars, Effective
  <2> QED BY <2>1, <2>2, <2>3, <2>4, <2>5, <2>6, <2>7, <2>8, <2>9, <2>10, <2>11, <2>12
          DEF Next, RunStep
<1>3. TypeOK /\ CadenceInv => CadenceFollowsSettings
  BY DEF CadenceInv, CadenceFollowsSettings
<1> QED BY <1>1, <1>2, <1>3, TypeCorrect, PTL DEF Spec
----------------------------------------------------------------------------

\* For every set of intervals, a sleep that nobody called off ends when the
\* refresh interval of now says.
THEOREM SleepHolds == Spec => []SleepFollowsSettings
<1>1. Init => SleepFollowsSettings
  BY DEF Init, SleepFollowsSettings
<1>2. TypeOK /\ SleepFollowsSettings /\ [Next]_vars => SleepFollowsSettings'
  <2> SUFFICES ASSUME TypeOK, SleepFollowsSettings, [Next]_vars PROVE SleepFollowsSettings'
    OBVIOUS
  <2> USE DEF SleepFollowsSettings, setterVars, threadVars, sleepVars, senderVars
  <2>0. refresh \in 1 .. Longest /\ elapsed \in 0 .. Longest /\ rest \in 0 .. Longest
    BY DEF TypeOK
  <2>1. CASE Start \/ Create \/ Tell \/ Reckon \/ Decide \/ Collect \/ Note \/ Plan \/ Fail \/ Fallback
    BY <2>1 DEF Start, Create, Tell, Reckon, Decide, Collect, Note, Plan, Fail, Fallback
  <2>2. CASE Publish
    BY <2>0, <2>2 DEF Publish, AtLeast
  <2>3. CASE Awake
    BY <2>3 DEF Awake
  <2>4. CASE \E r \in Refreshes : SetRefresh(r)
    BY <2>4 DEF SetRefresh
  <2>5. CASE (\E p \in Processes : SetProcess(p)) \/ SetterStep
    BY <2>5 DEF SetProcess, SetterStep, TellSampler, ReckonSampler
  <2>6. CASE Look \/ Woken \/ TimedOut \/ Sent \/ Reconnect
    BY <2>6 DEF Look, Woken, TimedOut, Sent, Reconnect
  <2>7. CASE Tick
    BY <2>0, <2>7 DEF Tick, AtLeast, AtMost
  <2>8. CASE UNCHANGED vars
    BY <2>8 DEF vars
  <2> QED BY <2>1, <2>2, <2>3, <2>4, <2>5, <2>6, <2>7, <2>8 DEF Next, RunStep
<1> QED BY <1>1, <1>2, TypeCorrect, PTL DEF Spec

\* For every set of intervals, a snapshot never waits for the heartbeat of a
\* sender that could have it: the event is set from its publication on.
THEOREM WaitingHolds == Spec => []NoSnapshotWaits
<1>1. Init => NoSnapshotWaits
  BY DEF Init, NoSnapshotWaits
<1>2. NoSnapshotWaits /\ [Next]_vars => NoSnapshotWaits'
  <2> SUFFICES ASSUME NoSnapshotWaits, [Next]_vars PROVE NoSnapshotWaits'
    OBVIOUS
  <2> USE DEF NoSnapshotWaits, setterVars, threadVars, sleepVars, senderVars
  <2>1. CASE Start \/ Create \/ Tell \/ Reckon \/ Decide \/ Collect \/ Note \/ Plan \/ Fail \/ Fallback
    BY <2>1 DEF Start, Create, Tell, Reckon, Decide, Collect, Note, Plan, Fail, Fallback
  <2>2. CASE Publish \/ Awake
    BY <2>2 DEF Publish, Awake
  <2>3. CASE (\E r \in Refreshes : SetRefresh(r)) \/ (\E p \in Processes : SetProcess(p))
    BY <2>3 DEF SetRefresh, SetProcess
  <2>4. CASE SetterStep \/ Tick
    BY <2>4 DEF SetterStep, TellSampler, ReckonSampler, Tick
  <2>5. CASE Look \/ Woken \/ TimedOut \/ Sent \/ Reconnect
    BY <2>5 DEF Look, Woken, TimedOut, Sent, Reconnect
  <2>6. CASE UNCHANGED vars
    BY <2>6 DEF vars
  <2> QED BY <2>1, <2>2, <2>3, <2>4, <2>5, <2>6 DEF Next, RunStep
<1> QED BY <1>1, <1>2, PTL DEF Spec
=============================================================================
