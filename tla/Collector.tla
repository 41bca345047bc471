----------------------------- MODULE Collector -----------------------------
(***************************************************************************)
(* The agent's collector (collector.py, SnapshotCollector; nvml.py,        *)
(* NVMLSampler's process cadence).  A task of the event loop has a worker  *)
(* thread take one sample after the other; the loop meanwhile runs the     *)
(* receiver, which changes the two intervals, and the sender, which waits  *)
(* for snapshots.  The worker thread and the loop share the sampler        *)
(* without a lock: a step of the thread may come between any two           *)
(* statements of the receiver's set_process_interval, while the loop's     *)
(* other steps wait until that is done.                                    *)
(*                                                                         *)
(* Times are relative to now: an age counts up to the longest interval, a  *)
(* countdown down to zero.  What is sampled, the fallback's own process    *)
(* cache and stop, which is called only as the agent ends, are left out.   *)
(***************************************************************************)
EXTENDS Integers

CONSTANTS
  Refreshes,    \* ALLOWED_REFRESH_INTERVALS, in ticks
  Processes,    \* process intervals a config may ask for
  MinProcess,   \* the floor of one second
  Longest,      \* no interval is longer: ages stop here
  Never,        \* the age of what has not happened
  NoSampler     \* _sampler is None

AtLeast(a, b) == IF a > b THEN a ELSE b
AtMost(a, b)  == IF a < b THEN a ELSE b

ASSUME CollectorAssumption ==
  /\ Longest \in Nat
  /\ MinProcess \in 1 .. Longest
  /\ Refreshes \subseteq 1 .. Longest
  /\ Processes \subseteq 0 .. Longest
  /\ Refreshes # {}
  /\ Never \notin Nat
  /\ NoSampler \notin
       [interval: MinProcess .. Longest, age: {Never} \cup 0 .. Longest, due: 0 .. Longest]

VARIABLES
  refresh,   \* refresh_interval
  process,   \* _process_interval
  setter,    \* where set_process_interval is: "done" "checked" "telling"
  sampler,   \* NoSampler, or [interval, age, due]: process_interval, the age
             \* of _last_process_at and the countdown to _next_process_at
  step,      \* where _run and its thread are
  asked,     \* the interval _sample_once read for the sampler
  elapsed,   \* since the sample was started
  rest,      \* countdown of the sleep
  wake,      \* _wake_event
  snapshot,  \* has one been published
  fresh,     \* is it newer than the sender's last_snapshot_seq
  event,     \* _event
  sender,    \* "looking" "waiting" "sending"
  calm       \* no interval has changed since the sample was started

setterVars == <<refresh, process, setter>>
threadVars == <<sampler, step, asked>>
sleepVars  == <<elapsed, rest, wake>>
senderVars == <<snapshot, fresh, event, sender>>
vars == <<setterVars, threadVars, sleepVars, senderVars, calm>>

ThreadSteps ==
  {"start", "create", "tell", "reckon", "decide", "collect", "note", "plan", "fallback"}

\* What is left of an interval of which `age` has passed.
Rest(interval, age) == IF age = Never THEN 0 ELSE AtLeast(0, interval - age)

\* The property process_interval.
Effective == AtLeast(process, refresh)

NewSampler == [interval |-> AtLeast(MinProcess, asked), age |-> Never, due |-> 0]

Init ==
  /\ refresh \in Refreshes
  /\ process \in {AtLeast(MinProcess, p) : p \in Processes}
  /\ setter   = "done"
  /\ sampler  = NoSampler
  /\ step     = "start"
  /\ asked    = 0
  /\ elapsed  = 0
  /\ rest     = 0
  /\ wake     = FALSE
  /\ snapshot = FALSE
  /\ fresh    = FALSE
  /\ event    = FALSE
  /\ sender   = "looking"
  /\ calm     = TRUE
----------------------------------------------------------------------------
(* _sample_once, in the thread *)

\* Mutant of Start: a sampler that is there keeps the interval it was given.
StartUntold ==
  /\ step = "start"
  /\ asked' = Effective
  /\ step'  = IF sampler = NoSampler THEN "create" ELSE "decide"
  /\ UNCHANGED <<setterVars, sampler, sleepVars, senderVars, calm>>

\* The interval of the moment is read, for a new sampler or for the old one.
Start ==
  /\ step = "start"
  /\ asked' = Effective
  /\ step'  = IF sampler = NoSampler THEN "create" ELSE "tell"
  /\ UNCHANGED <<setterVars, sampler, sleepVars, senderVars, calm>>

\* NVML may be missing; a sampler is everybody's only when it is complete.
Create ==
  /\ step = "create"
  /\ \/ sampler' = NewSampler /\ step' = "decide"
     \/ step' = "fallback" /\ UNCHANGED sampler
  /\ UNCHANGED <<setterVars, asked, sleepVars, senderVars, calm>>

\* NVMLSampler.set_process_interval, from the thread.
Tell ==
  /\ step = "tell"
  /\ step'    = "reckon"
  /\ sampler' = [sampler EXCEPT !.interval = AtLeast(MinProcess, asked)]
  /\ UNCHANGED <<setterVars, asked, sleepVars, senderVars, calm>>

Reckoned == [sampler EXCEPT !.due = Rest(sampler.interval, sampler.age)]

Reckon ==
  /\ step = "reckon"
  /\ step'    = "decide"
  /\ sampler' = Reckoned
  /\ UNCHANGED <<setterVars, asked, sleepVars, senderVars, calm>>

\* sample(): processes are listed when they are due, the rest always.
Decide ==
  /\ step = "decide"
  /\ step' = IF sampler.due = 0 THEN "collect" ELSE "publish"
  /\ UNCHANGED <<setterVars, sampler, asked, sleepVars, senderVars, calm>>

Collect ==
  /\ step = "collect"
  /\ step' = "note"
  /\ UNCHANGED <<setterVars, sampler, asked, sleepVars, senderVars, calm>>

Note ==
  /\ step = "note"
  /\ step'    = "plan"
  /\ sampler' = [sampler EXCEPT !.age = 0]
  /\ UNCHANGED <<setterVars, asked, sleepVars, senderVars, calm>>

Plan ==
  /\ step = "plan"
  /\ step'    = "publish"
  /\ sampler' = Reckoned
  /\ UNCHANGED <<setterVars, asked, sleepVars, senderVars, calm>>

\* nvmlDeviceGetCount fails, or Python raises: the sampler is closed and given up.
Fail ==
  /\ step \in {"decide", "collect"}
  /\ step'    = "fallback"
  /\ sampler' = NoSampler
  /\ UNCHANGED <<setterVars, asked, sleepVars, senderVars, calm>>

\* Mutant of Fallback: an error of nvidia-smi ends the task.
FallbackRaises ==
  /\ step = "fallback"
  /\ step' \in {"publish", "dead"}
  /\ UNCHANGED <<setterVars, sampler, asked, sleepVars, senderVars, calm>>

\* nvidia-smi, and the error snapshot when that fails too: either way there is
\* something to publish.
Fallback ==
  /\ step = "fallback"
  /\ step' = "publish"
  /\ UNCHANGED <<setterVars, sampler, asked, sleepVars, senderVars, calm>>
----------------------------------------------------------------------------
(* _run, in the loop *)

\* Mutant of Publish: the waiting sender is not woken.
PublishQuietly ==
  /\ setter = "done"
  /\ step = "publish"
  /\ snapshot' = TRUE
  /\ fresh'    = TRUE
  /\ IF elapsed < refresh
     THEN step' = "sleep" /\ rest' = refresh - elapsed /\ wake' = FALSE /\ UNCHANGED <<elapsed, calm>>
     ELSE step' = "start" /\ elapsed' = 0 /\ calm' = TRUE /\ UNCHANGED <<rest, wake>>
  /\ UNCHANGED <<setterVars, sampler, asked, event, sender>>

\* The snapshot goes out, and what the interval of this moment leaves of the
\* cycle is slept.  Nothing runs between that computation and the clear.
Publish ==
  /\ setter = "done"
  /\ step = "publish"
  /\ snapshot' = TRUE
  /\ fresh'    = TRUE
  /\ event'    = TRUE
  /\ IF elapsed < refresh
     THEN step' = "sleep" /\ rest' = refresh - elapsed /\ wake' = FALSE /\ UNCHANGED <<elapsed, calm>>
     ELSE step' = "start" /\ elapsed' = 0 /\ calm' = TRUE /\ UNCHANGED <<rest, wake>>
  /\ UNCHANGED <<setterVars, sampler, asked, sender>>

Awake ==
  /\ setter = "done"
  /\ step = "sleep"
  /\ wake \/ rest = 0
  /\ step'    = "start"
  /\ elapsed' = 0
  /\ calm'    = TRUE
  /\ UNCHANGED <<setterVars, sampler, asked, rest, wake, senderVars>>
----------------------------------------------------------------------------
(* The receiver applies a config *)

\* Mutant of SetRefresh: the sleep goes on as planned.
SetRefreshWithoutWake(r) ==
  /\ setter = "done"
  /\ r # refresh
  /\ refresh' = r
  /\ calm'    = FALSE
  /\ UNCHANGED <<process, setter, threadVars, sleepVars, senderVars>>

SetRefresh(r) ==
  /\ setter = "done"
  /\ r # refresh
  /\ refresh' = r
  /\ wake'    = TRUE
  /\ calm'    = FALSE
  /\ UNCHANGED <<process, setter, threadVars, elapsed, rest, senderVars>>

\* Mutant of SetProcess: an interval below a second is taken as it is.
SetProcessUnfloored(p) ==
  /\ setter = "done"
  /\ p # process
  /\ process' = p
  /\ setter'  = IF sampler = NoSampler THEN "done" ELSE "checked"
  /\ calm'    = FALSE
  /\ UNCHANGED <<refresh, threadVars, sleepVars, senderVars>>

\* set_process_interval up to its test of _sampler.
SetProcess(p) ==
  /\ setter = "done"
  /\ AtLeast(MinProcess, p) # process
  /\ process' = AtLeast(MinProcess, p)
  /\ setter'  = IF sampler = NoSampler THEN "done" ELSE "checked"
  /\ calm'    = FALSE
  /\ UNCHANGED <<refresh, threadVars, sleepVars, senderVars>>

\* The call on _sampler.  If the thread has given it up since the test, this
\* is an AttributeError, which ends the receiver and with it the connection.
TellSampler ==
  /\ setter = "checked"
  /\ IF sampler = NoSampler
     THEN setter' = "done" /\ UNCHANGED sampler
     ELSE /\ setter'  = "telling"
          /\ sampler' = [sampler EXCEPT !.interval = AtLeast(MinProcess, Effective)]
  /\ UNCHANGED <<refresh, process, step, asked, sleepVars, senderVars, calm>>

\* A sampler given up meanwhile is still an object; it is nobody's any more.
ReckonSampler ==
  /\ setter = "telling"
  /\ setter'  = "done"
  /\ sampler' = IF sampler = NoSampler THEN NoSampler ELSE Reckoned
  /\ UNCHANGED <<refresh, process, step, asked, sleepVars, senderVars, calm>>
----------------------------------------------------------------------------
(* The sender waits for snapshots *)

\* wait_for_update: a newer snapshot, or else a cleared event to wait for.
Look ==
  /\ setter = "done"
  /\ sender = "looking"
  /\ IF fresh
     THEN sender' = "sending" /\ fresh' = FALSE /\ UNCHANGED event
     ELSE sender' = "waiting" /\ event' = FALSE /\ UNCHANGED fresh
  /\ UNCHANGED <<setterVars, threadVars, sleepVars, snapshot, calm>>

Woken ==
  /\ setter = "done"
  /\ sender = "waiting"
  /\ event
  /\ sender' = "looking"
  /\ UNCHANGED <<setterVars, threadVars, sleepVars, snapshot, fresh, event, calm>>

\* The heartbeat interval is over; a snapshot of this moment still counts.
TimedOut ==
  /\ setter = "done"
  /\ sender = "waiting"
  /\ sender' = "sending"
  /\ fresh'  = FALSE
  /\ UNCHANGED <<setterVars, threadVars, sleepVars, snapshot, event, calm>>

Sent ==
  /\ setter = "done"
  /\ sender = "sending"
  /\ sender' = "looking"
  /\ UNCHANGED <<setterVars, threadVars, sleepVars, snapshot, fresh, event, calm>>

\* A new connection has a new sender, which has seen no snapshot.
Reconnect ==
  /\ setter = "done"
  /\ sender' = "looking"
  /\ fresh'  = snapshot
  /\ UNCHANGED <<setterVars, threadVars, sleepVars, snapshot, event, calm>>
----------------------------------------------------------------------------

Aged(age) == IF age = Never THEN Never ELSE AtMost(Longest, age + 1)

Tick ==
  /\ elapsed' = AtMost(Longest, elapsed + 1)
  /\ rest'    = AtLeast(0, rest - 1)
  /\ sampler' = IF sampler = NoSampler THEN NoSampler
                ELSE [ interval |-> sampler.interval,
                       age      |-> Aged(sampler.age),
                       due      |-> AtLeast(0, sampler.due - 1) ]
  /\ UNCHANGED <<setterVars, step, asked, wake, senderVars, calm>>

RunStep ==
  Start \/ Create \/ Tell \/ Reckon \/ Decide \/ Collect \/ Note \/ Plan \/ Fail \/ Fallback
  \/ Publish \/ Awake

SetterStep == TellSampler \/ ReckonSampler

Next ==
  \/ RunStep
  \/ \E r \in Refreshes : SetRefresh(r)
  \/ \E p \in Processes : SetProcess(p)
  \/ SetterStep
  \/ Look \/ Woken \/ TimedOut \/ Sent \/ Reconnect
  \/ Tick

Spec == Init /\ [][Next]_vars

\* The thread runs, the loop finishes what it is in the middle of, and time
\* passes.  The loop serves what is ready in turn, so configs that keep coming
\* cannot keep _run from its next statement: that is strong fairness.  A call
\* to the driver may hang for ever in the code; here it returns, with an error
\* or without.
FairSpec == Spec /\ SF_vars(RunStep) /\ WF_vars(SetterStep) /\ WF_vars(Tick)
----------------------------------------------------------------------------
(* Properties *)

Samplers ==
  [interval: MinProcess .. Longest, age: {Never} \cup 0 .. Longest, due: 0 .. Longest]

\* Every variable stays in its domain.
TypeOK ==
  /\ refresh \in Refreshes
  /\ process \in MinProcess .. Longest
  /\ setter \in {"done", "checked", "telling"}
  /\ sampler \in {NoSampler} \cup Samplers
  /\ step \in ThreadSteps \cup {"publish", "sleep"}
  /\ sampler = NoSampler => step \notin {"tell", "reckon", "decide", "collect", "note", "plan"}
  /\ asked \in 0 .. Longest
  /\ elapsed \in 0 .. Longest
  /\ rest \in 0 .. Longest
  /\ wake \in BOOLEAN
  /\ snapshot \in BOOLEAN
  /\ fresh \in BOOLEAN
  /\ event \in BOOLEAN
  /\ sender \in {"looking", "waiting", "sending"}
  /\ calm \in BOOLEAN

\* Whatever the receiver and the thread wrote over each other before, a sample
\* decides about listing the processes by the intervals as they were when it
\* was started, and by the time they were really listed last.
CadenceFollowsSettings ==
  step = "decide" /\ calm =>
    /\ sampler.interval = AtLeast(MinProcess, Effective)
    /\ sampler.due = Rest(sampler.interval, sampler.age)

\* A sleep that nobody has called off ends when the interval of now says: a
\* new interval is lost neither before the sleep nor during it.
SleepFollowsSettings ==
  step = "sleep" /\ ~wake => rest = AtLeast(0, refresh - elapsed)

\* A snapshot never waits for the heartbeat of a sender that could have it.
NoSnapshotWaits == sender = "waiting" /\ fresh => event

\* The collector goes on whichever of NVML and nvidia-smi fails.
SamplingGoesOn == []<>(step = "publish")
=============================================================================
