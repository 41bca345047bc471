# Constella in TLA+

Constella shows the GPUs of a small cluster on one page.  An *agent* on every
node samples its GPUs and reports over a websocket to the *manager*, which keeps
the newest state of every node, sends it to the open dashboards over websockets
of their own, and writes history to SQLite.  This directory holds TLA+ modules
of the parts where order, failure and time matter, the TLC runs that check them,
and theorems about them that TLAPS has checked.

All paths below are those of the repository: `src/constella/`, `frontend/`,
`scripts/`, `docs/`, `tests/`.

## Inventory

| Component | State | Operations | What must be right |
|---|---|---|---|
| Cluster state, `cluster.py` | `latest_by_node`, `_seq`, `_event` | `register_hello`, `ingest_sample`, `ingest_heartbeat`, `disconnect`, `snapshot`, `wait_for_update` | a node belongs to its newest connection; a late message of an old one changes nothing; no change is hidden from a waiting page |
| Agent loop, `agent.py` | connection, `last_snapshot_seq`, `message_seq` | connect, hello, send samples and heartbeats, apply configs, reconnect | the newest snapshot arrives in spite of lost connections; settings are applied |
| Manager, agents, `app.py` | `ManagerSettings`, `agent_queues`, a handler per connection | `agent_ws`, `PATCH /api/settings`, `broadcast_config` | every agent ends on the present settings |
| Manager, pages, `app.py` | a handler per page with its `last_seq` | `cluster_ws` | every change, and a node's silence, reaches every page |
| History sink, `db.py` `AsyncDBSink`, `SQLiteStore` | bounded queue, open 20s buckets, three rollup tables, times of the last maintenance | `submit_node_snapshot`, `_worker`, `flush_rollups`, `rollup_gpu_metric_rollups`, `prune_rollups`, `stop`, `maintain` | a row sums up all that was written for it; nothing stays in memory; maintenance may be repeated |
| Process sessions, `db.py` | `process_sessions`, `process_gpu_usages` | `_write_process`, `close_stale_sessions` | a running session is of a process that runs; one that is reported is not ended; sessions and usages agree |
| History queries, `db.py` | none | `query_gpu_history`, `query_tasks`, `query_users` | a query goes to a table that still has what it asks for |
| Collector, `collector.py`, `nvml.py` | `_snapshot`, both intervals, `_sampler`, `_event`, `_wake_event` | `_run` with its worker thread, `set_refresh_interval`, `set_process_interval`, `wait_for_update` | new intervals take effect whatever the thread is doing; sampling survives any driver error |
| Device readers, `nvml.py`, `nvidia_smi.py`, `procfs.py` | `_process_snapshot`, `_last_process_at`; of the fallback `_fallback_processes_by_uuid`, `_next_fallback_process_at` | list the processes of a GPU, look up each in `/proc`, keep the list between listings | a sample names processes that run or ran a moment ago, by their own identity |
| Cluster control, `cluster_control.py`, `scripts/` | a pid file per node | start, status, stop over ssh | at most one agent per node, and one that stop reaches |
| Dashboard, `frontend/src/main.ts` | last snapshot, pause, refresh control | websocket, fetches | it shows what it was sent last |
| Schema, `schema.py` | none | totals, ids | sums and counts agree with the parts |

How they interact.  The collector's worker thread and the agent's event loop
share the collector and its sampler.  The agent and the manager exchange
messages over one websocket per connection.  Inside the manager everything runs
in one event loop, so that only an `await` lets something else happen; the
handlers of agents call cluster state and the sink, those of pages read cluster
state and wait on its event.  The sink's worker is a task of the same loop;
`constella db maintain` is another process on the same file.  The processes an
agent reports come from the driver, whose list and the node's `/proc` are read
one call after the other; what one sample says of them ends up as sessions.

What is hard: connections that break on one side first, reconnects that overlap
with the end of the connection before, restarts of either side, one event shared
by many waiters, statuses that depend on time alone, clocks of many nodes that
drive one maintenance, failures between two writes, processes that come and go
while they are listed, caches behind caches, and a thread that shares objects
with a loop.  `PROJECT.json` lists these hazards line by line with the
properties that cover them.

## Modules

| Module | Models | Runs |
|---|---|---|
| `ClusterState` | the methods of `ClusterState` as operators from the runtimes map to the next one | through the next two |
| `NodeRegistry` | the abstract promise of cluster state: owners, online, rising numbers | refinement of `AgentLink` |
| `AgentLink` | agents, connections, `agent_ws`, settings | `agent_link_*` |
| `ClusterFeed` | `cluster_ws`, `wait_for_update`, `_status` over time | `cluster_feed*` |
| `HistorySink` | `AsyncDBSink`, the rollup tables and the queries of them | `history*` |
| `RollupStore` | the abstract promise of the history database to its readers | refinement of `HistorySink` |
| `Collector` | `SnapshotCollector` and the sampler's cadence | `collector` |
| `AgentControl` | start and stop of an agent over ssh, its pid file | `agent_control` |
| `NodeProcesses` | the processes of a node, their sessions, and what the agent promises to say of them | refinement of `ProcessListing`, and part of `Sessions` |
| `ProcessListing` | how an agent lists processes, by NVML or nvidia-smi, with both caches | `process_listing` |
| `Sessions` | from samples to `process_sessions` and `process_gpu_usages`, and `close_stale_sessions` | `sessions` |
| `AgentLinkProofs`, `ClusterFeedProofs`, `HistorySinkProofs`, `CollectorProofs`, `AgentControlProofs`, `ProcessListingProofs`, `SessionsProofs` | theorems | |
| `NodeProcessesProofs` | lemmas of the last two | |
| `MC...` | constants for TLC | |

`AgentLink` and `ClusterFeed` both INSTANCE `ClusterState` and apply its
operators inside their own actions, as `app.py` calls the methods.  `AgentLink`
is shown to implement `NodeRegistry`.  `HistorySink` is shown
to implement `RollupStore`.  `ProcessListing` and `Sessions` are composed by contract,
`NodeSpec` of `NodeProcesses`: its samples are subsets of `Reportable` and come at
least every `Refresh + Slow`.  The first is shown to implement it, and the second is
built from its actions, so that it takes any sample the first may finish.

### AgentLink

A connection `c` is a number.  `peer[c]` is the agent that opened it,
`handler[c]` where its `agent_ws` is ("greeting" until the hello is read,
"serving", "closed"), `uplink[c]` what the manager has not read yet, and
`downlink[c]` the handler's `send_queue` followed by what is on the wire.
`link[a]` is the connection agent `a` is in.  A connection may end for the agent
(`DropLink`, `RestartAgent`) while a prefix of what it sent still arrives; the
handler reads that, and then the disconnect (`ReadDisconnect`).  Or it ends for
the manager first (`PeerTimeout`, `RestartManager`), and the agent runs into it
later (`NoticeClose`).  So two connections of one agent may be alive in the
manager at once, and their handlers run in any order.  Sample times stand for
snapshots: `snap` is the collector's newest, `sent` the sender's
`last_snapshot_seq`.

Each action is a whole handler step between two awaits: `ServeSample` is the
receive, `ingest_sample` and the acknowledgement; `UpdateSettings` is the update
and the broadcast.

### ClusterFeed

The agent side is reduced to the calls it makes; time is a tick that ages every
runtime.  A page's handler is a program counter with one value per place where
others may run: "polling" (top of the loop), "checking" (after `send_json`),
"entering" (up to Python 3.11 `wait_for` starts a task before it waits),
"waiting", "pacing".

### HistorySink

A bucket and a row are the *set of samples* they sum up, which count, average
and maximum are functions of; an upsert replaces a set.  `Maintenance` is
`_run_scheduled_maintenance` with its four stages and an error after any of
them, also behind the prune of the rollups in that of the raw snapshots, which
leaves the prune due again.  `lost` remembers 20s keys whose samples were lost with the process, in a
failed flush or by pruning, so that completeness is claimed for the others only.
`Submit` takes any time that is not too old, also one it was given before: a new
connection starts with the newest snapshot and its numbers start anew, so that the
manager accepts a snapshot twice.  (`sample_count` and the averages then count it
twice, which a set does not show.)
`Patience` and `Stall` bound how long a snapshot waits and how long the worker goes
without coming to its maintenance (`turn`, from the start of its process on): they
are guards of `Tick`, that is, assumptions about the event loop.

`RollupStore` has neither queue, worker, memory nor jobs.  It has what was written,
the rows, and what was lost: a row of any table appears once, with every sample of
its bucket, and is final; and something is lost only by a fault or past the retention
of the finest table.  `ImplementsStore` maps it to the variables of the same names.
The widths, periods and retentions it needs are `TablesInStep`.

`constella db maintain` is another process on the same file.  `job` is the statement
it runs next, with the time it was started at and what its last SELECT found; the
manager's transactions, a restart or an error may come between any two: the SELECT
and the upsert of the 2m rollup, those of the 1h rollup, and the prune.  The
manager's own maintenance runs without an await; its statements and those of the
command that fall between them are taken one after the other.  One command runs at
a time, and takes no longer than `MaintainTime`.  `Table` and
`Answer` are what `query_gpu_history` does with a query of one beginning and no
end, the one the API makes when it is given `since` alone.

### Collector

`step` is the statement `_run` or its thread is at, `setter` the statement of
`set_process_interval` in the loop.  The thread may run between any two
statements of the setter; other steps of the loop may not.  Times are ages and
countdowns.  `calm` says that no interval has changed since the sample was
started; it is history, not state of the program.

### AgentControl

One node; a run `r` is an operator who runs one start or stop at a time, and
`pc[r]` the command of the script that is next: clear and extract the runtime,
look at the pid file, remove it, launch, note the pid; or find the pid, kill it,
forget it.  `pid[r]` is `old_pid`, `$!` or `pid` of the script.  The file lives
through crashes and reboots, pids are used again, and `others` are processes of
the same user, which `kill -0` and `kill` reach as well.  `crossed` is history:
it says that two scripts have been at the pid file at once since the last boot.
Nothing in the code prevents that, and then two agents are possible; so the
properties are about runs that have not crossed, and `agent_link_twins` about
what two agents of one node do to the manager.  `scripts/service` keeps its pid
file in the same way.

### NodeProcesses

A process instance stands for its start time, so that two instances may have one
pid, one after the other.  A session is a pid with a start time, or with none
(`process_session_id`).  `/proc` gives none when no process has the pid any more, and
also when it will not or cannot tell: `process_start_time_seconds` returns None on
any `OSError` (a `/proc` mounted with hidepid and a process of another user), without
the time of boot and for a stat it cannot parse (`procfs.py:25-54`).  `Unreadable` are
the processes this may happen to, at any of their lookups; it may be all of them.  So
"no start time" does not say that the process has ended.

`Reportable` is the contract: a sample may say of a session that it runs only if one
of its processes was alive within `Fresh`, the age that the listing interval and the
duration of a sample add up to; without a start time any process of the pid counts,
and there is one that is over or `Unreadable`.  The exception are `ghosts`, which is
history: the sessions on a list the agent kept because it could not read it again when
its listing was due.  That is a GPU without a handle or a uuid (`nvml.py:407`, `482`:
the old list stays in `_process_snapshot`, the time of the listing is advanced for all
GPUs at `361`, and `454` shows the list again when there is a handle), and nvidia-smi's
list when its query fails (`nvidia_smi.py:159`).  The code has no bound for how long
such a list lives, so neither has the contract.  `NodeSpec` puts this into actions:
processes start and end, time passes, but never far beyond the last sample (`Pass`), a
sample says what is `Reportable` (`Report`), and a list of sessions that were once seen
is kept unread (`Forget`).

### ProcessListing

`step` is the call that `_sample_once` makes next: for every GPU the handle and the
uuid ("gpu"), for each of its lists the call for its length ("count") and the one for
its pids ("fill"), then `/proc` for each entry ("detail"); behind the last GPU the
sample is complete ("nvml").  Processes start and end between any two of them.

Most NVML calls answer with a code that does not end the sample:

- a list call that fails, with any code but NO_PERMISSION, passes for an empty list
  (`nvml.py:713`, `722`), which is kept like any other until the next listing
  (`ListFails`; `Fill` when the list has grown);
- without a handle the sample has nothing of the GPU, and its old list stays
  (`NoHandle` while listing, `BeginCached` in between);
- a uuid that cannot be read is "unknown" (`NoUuid`): what is listed then is kept
  under that name, and the list under the GPU's own name stays (`Identify`).

Only `nvmlInit`, `nvmlDeviceGetCount` and what Python raises give up the sampler with
its cache (`shown`, `listed`) and have nvidia-smi asked ("query", "reuse", "parse",
"smi"), whose cache is `smi` and `smiDue` (`NvmlFails`, before the first GPU and behind
the last).  What `set_process_interval` meets in the thread is `Collector`; here it
takes effect at the next sample, which is when the thread reads it.

`steady`, `read` and `named` are history: nothing came or went since the listing at
hand was begun; the lists it has read in full since, of GPUs it had by their names;
and the GPUs the sample at hand has by their names.  An entry remembers its list: a
process on both lists of a GPU is looked up twice, and the two lookups may differ.

### Sessions

`Publish` hands any subset of `Reportable` to the queue, or loses it: on its
connection, to a newer sample, or to the full queue.  `Resend` is a new connection of
the agent, which starts with the newest sample once more; `newest` is what that sample
says.  Otherwise samples are accepted in the order of their times: the older sample a
late connection may still bring (see Runs) is out of scope here.
`Write` is the transaction of
`write_node_snapshot`, `WriteFails` its rollback, `RestartManager` the end of the
process with what was queued, `Maintain` the `close_stale_sessions` of
`constella db maintain` by the clock of the manager's host, which is `Ahead` of the
node's.  `sample_count`, which counts a snapshot as often as it is written, is left
out.  `lost` and `late` are history: they say whether a snapshot was lost since
the last one that was written.

## Runs

| Run | Question | Bounds and why they are enough |
|---|---|---|
| `agent_link_twins` | who owns a node, is what its agent sent shown or coming | two agents of one node id, three connections, two samples, one heartbeat per connection, one fault: a takeover, the return of the first agent, and every late message of each |
| `agent_link_live` | do settings and samples arrive | one agent, three connections, one PATCH, two faults: a fault during the recovery from another |
| `agent_link_reorder` | does a reconnected agent stay online | the counterexample needs two connections and one fault |
| `cluster_feed` | is any change hidden from a page | two pages, so that one clears the event the other is about to wait for; three changes by two connections |
| `cluster_feed_silence` | is silence shown | one page, one node |
| `history` | are rows complete, are buckets written, and in time, does a query keep its rows, is the database the abstract store | one node with a slow clock; widths of two, two and four ticks, so that several samples make a row and several rows a coarse one; retentions such that two tables are pruned; a queue of one, so that it fills; three samples; two faults of any kind, that is failed writes, restarts, `db maintain` and its failures, in any combination, and the command done within a tick; ten ticks, so that a row passes through all three tables |
| `history_skew`, `history_maintain` | what the documents promise | two nodes, one with a fast clock; a prune between two rollups |
| `agent_control` | one agent, and none after a stop | two operators, so that scripts overlap or follow each other in any order; three pids: the stale one of the file, that of the agent, and one in other use |
| `collector` | do intervals take effect | three refresh and two process intervals on both sides of each other and of the floor; the driver fails at will |
| `process_listing` | how old and how true is a sample | three processes, two of one pid, so that a pid is taken over during a listing; one on two GPUs and on both lists of one of them, one GPU with one list and one with two; the start times of the two of one pid may be unreadable, that of the third not; both intervals on both sides of the sampling rate; five ticks, so that each cache expires while the other is in use, and one tick more than `Fresh`, so that a sample can be too old; one fault (a handle, a uuid, a list or a query of nvidia-smi that cannot be read, a restart, a change of the interval), while NVML and nvidia-smi as a whole fail at will; the two processes of one pid are symmetric (nothing tells them apart, and no property is about liveness) |
| `sessions` | which sessions run, do sessions and usages agree | one process, that is two sessions, whose start time is readable while it lives; two GPUs; clocks a tick apart and `Stale` at the least that `StaleIsLong` allows; a queue of one, so that a snapshot that is sent again finds it full, or empty; one fault of any kind; the GPUs are symmetric (no definition names one, and no property is about liveness) |

In both of the last two a sample takes no time (`Slow = 0`), and in `sessions` no
pid is used again and the start time of a living process is always readable; in
`history` there is one node.  The theorems below cover the general case, and
`history_skew` has two nodes.

Four runs end in a violation of something a document or test of the repository
states, and each is a finding:

1. `agent_link_reorder` - the hello of an abandoned connection, read late, takes
   the node from the connection that replaced it; the agent's messages are then
   refused for ever (`cluster.py:111`).
2. `cluster_feed_silence` - a node that turns stale or offline by time alone is
   not sent to open pages until something else changes (`app.py:258`).
3. `history_skew` - a node whose clock is ahead closes the buckets of the others
   while they fill (`db.py:724`).
4. `history_maintain` - once a prune has taken a part of the finer rows, the next
   rollup replaces a complete coarse row by the rest (`db.py:447`).

Properties are explained where they are defined, at the end of each module.  The
deepest are `ConnectedWhileServed` and `ImplementsRegistry` (late disconnects),
`ConfigReachesLink` (configs queued by the PATCH and by the hello),
`CaughtUpIsExact` and `EveryChangeIsSent` (the shared event), `RowsComplete`
(flush against late snapshots), `ImplementsStore` (everything that happens to a row),
`SentAgainChangesNothing` (a copy against what was written and ended since),
`AnswersKeepRows` (queries against the prune),
`CadenceFollowsSettings` (thread against loop), `OneAgent` (scripts against crashes,
reboots and pids used again), `ReportIsFresh` and `KeepsPromise` (two caches against
processes that come and go) and `RunningWasAlive` (queue, clocks and maintenance against each
other).

Six things the models show without a run of their own.  `last_seq` is of a
connection, not of a node (`cluster.py:115`): the late hello of `agent_link_reorder`
also resets it, and an older sample behind it replaces a newer one, where
plan_stage2.md:548 has `seq` drop the older samples of a node.  A failed write of a flush
loses its buckets, which had left memory before (`db.py:708`; plan_stage2.2.md:173
says they are deleted after a flush that succeeded): `Maintenance` puts their keys
into `lost`.  A query of nvidia-smi that fails keeps its last list alive, for as
long as it fails (`nvidia_smi.py:159`): the exception named `ghosts` in
`RunningWasAlive`.  So does a GPU without a handle or a uuid when a listing comes to it
(`nvml.py:407`, `482`): its old list counts as listed and is shown by the samples
after it; without the ghosts of `NextGpu`, `ReportIsFresh` is violated.  A list that grows
between NVML's two calls, or whose call fails, passes for empty (`nvml.py:713`, `722`):
its processes are missing until the next listing, so `SteadyListingIsExact` is about
listings during which none came, and about lists that were read in full.  And two
processes that one pid had in turn are one session while `/proc` does not tell their
start times (`procfs.py:38`): what `RunningWasAlive` says of it is that one of them was
alive.

### Fairness

- `AgentLink`: the tasks of both loops run, the retry loop reconnects, bytes of a
  connection that both ends hold arrive.  No fault, PATCH or heartbeat has to
  happen.
- `ClusterFeed`: the event loop runs every page's handler and its timers fire.
- `HistorySink`: the worker runs, its ten-second timeout fires, a maintenance
  command goes on, time passes.
  Only the maintenance that fully succeeds is fair; failures never have to
  happen and are bounded.
- `Collector`: the thread runs, a setter ends, time passes, and `_run` gets its
  turn even while configs keep coming: the loop serves what is ready in turn,
  which is strong fairness.  That a driver call returns is assumed; the code has
  no timeout for NVML.

- `AgentControl`, `ProcessListing` and `Sessions` have none: their properties say
  what must not happen.  How long a sample, a wait in the queue or a pause of the
  maintenance may take is a guard of `Tick` in each.

`CHECK_DEADLOCK FALSE` stands where the bounds on connections, samples, faults,
changes or time let the model stop; `collector` and `agent_control` have no such
bound and are checked for deadlock.

## Proofs

All theorems hold for every value of the constants that satisfies the named
assumptions of the modules (which TLC evaluates on every run).

- `AgentLinkProofs!TypeCorrect`, `ConnectedIsServed`, `RegistryImplemented`.
  `ConnectedWhileServed` is inductive once it is joined with how connections are
  opened: numbers up to `opened` have a peer, and only those are read from.  With
  it each handler step maps to one step of `NodeRegistry`, every other step to a
  stutter.  The mapping reads the owner, the status, the floor and the sample
  shown off `latest`, and a connection's phase off `handler`.
- `AgentLinkProofs!ConfigReaches`.  `ConfigInv` joins the property with who the ends
  of a connection are (`LinkPeer`) and with the floor of the intervals (`Floored`).
  What queues a config for a connection queues the settings of that moment behind
  everything else, and the receiver takes messages from the front; so the last
  config on the way, or the one applied when none is, says what the settings are.
- `AgentLinkProofs!OwnerAccepted`.  `Numbered`: on every connection the numbers under
  way rise, none is past the sender's count, and all are above `last_seq` of a node
  the connection owns.
- `AgentLinkProofs!NewestReaches`, the safety core of `SamplesArrive`.  `Coming` says
  it of a connection in its greeting as well, where nothing has been read but all is
  still on its way behind the hello (`HelloFirst`); a sample the owner reads is taken
  (`OwnerTakes`, from `Numbered`), and only a hello of another connection, after
  which this one owns nothing, covers it.
- `ClusterFeedProofs!TypeCorrect`, `CaughtUpHolds`.  A handler's `last_seq` is never
  past the counter and starts below it (`Behind`), so that a change, which raises
  the counter, leaves every page behind; a step that does not raise it only lets
  runtimes grow older.
- `HistorySinkProofs!TypeCorrect`, `RowsAreComplete`.  Under `ClocksAgree` (clock
  differences plus the wait in the queue stay within the lag of one width) the
  invariant is that snapshots in the queue are fresh (`QueueFresh`), that a key
  with a row was closed when it was flushed and stays closed for whatever may
  still come (`FlushedLate`), and that its samples are either all in memory or
  all in the row (`InOnePlace`).  `history_skew` shows that the assumption is
  needed.
- `HistorySinkProofs!CoarseRowsAreComplete`.  Under `ClocksAgree` and `TablesInStep`:
  a coarse bucket is closed one width after its end, which leaves the worker time to
  write the finer rows (with db.py's widths and periods, as long as it comes to its
  maintenance every 90 seconds), and the finer rows are kept no longer than the coarse
  ones.  The invariant is that no 20s bucket of a closed 2m bucket is left in memory
  (`FlushInv`); that the rows of both tables are complete, of buckets some clock has
  seen closed, and that the 2m rows go up to the last rollup (`CoarseInv`); and the
  same of what a maintenance command has read and not stored yet, by its own time
  (`CommandInv`).  No snapshot still comes for a bucket a clock has seen closed
  (`SampleIsNew`), which is what keeps the rows read, and stored later, complete.  A
  prune of a 2m row has lost its 20s rows as well (`PrunedIsCovered`), so that the
  next 1h rollup, which then lacks it, is not one the property speaks of.  The widths
  of the `history` run are closer together than `TablesInStep` asks; TLC has
  the property there without it.
- `HistorySinkProofs!WrittenInTimeHolds`, from `FlushInv` of the theorem before: a
  bucket in memory is one the last flush still found open, so that one which is
  closed, and behind which the worker had its `Every` and `Stall`, is in memory no
  more; then it has its row (`InOnePlace`) or was lost.  This is the part of
  `BucketsAreWritten` that the prover can state, with its time.
- `HistorySinkProofs!StoreImplemented`.  Every step of the sink is one of
  `RollupStore`.  Rows of buckets of which nothing was lost are complete in both
  states (the theorems before), so what is left is that a row which is there is not
  taken away (`Held`): a flush or a rollup finds it in memory or below again only if
  something comes for it, which is past (`SampleIsNew`), and a prune that takes it has
  taken, and lost, the 20s rows below it, as finer rows are kept a coarse width
  less long (`TablesInStep`).  A key that is newly lost is one of a step that spends a
  fault, or one a prune found past its retention.  `StoreKept` joins these.
- `HistorySinkProofs!AnswersAreKept`.  A prune goes by the clock of the worker, a
  query by that of the manager; with no clock ahead a queued time is never past the
  clock (`QueuePast`), so that both are the same, and a command's clock is that of its
  start (`JobPast`); what a prune takes lies before any `since` whose span still
  selects that table.
- `CollectorProofs!TypeCorrect`, `CadenceHolds`, `SleepHolds`, `WaitingHolds`.
  `CadenceInv` follows the interval from where the thread reads it over the
  sampler to the decision, for a cycle in which nothing was set; the other two
  are inductive by themselves.

- `AgentControlProofs!TypeCorrect`, `OneAgentHolds`, `AgentIsOnFileHolds`,
  `StopLeavesNoneHolds`.  As long as nothing has crossed, who is at the file is
  there alone (`Alone`), knows by the command it comes to that no agent is left
  or which one (`Sure`), and while no pid waits to be noted every agent is on
  file (`NamedByFile`).  None of the three is inductive without the others.

- `ProcessListingProofs!TypeCorrect`, `ReportsAreFresh`, `PromiseIsKept`,
  `SteadyListingsAreExact`.
  The age of what a sample carries is followed through the listing: entries found by
  the sample under way are no older than its begin (`UnderWay`), those in either
  cache no older than their own listing, or ghosts (`Aged`), whose next one is due
  within `Longest` of it (`Paced`); what a listing keeps unread is a ghost by the time
  `NextGpu` advances `_last_process_at` over it (`Placed` says what is where at each
  call).  `PromiseIsKept` maps
  each step to one of `NodeSpec`, the end of a listing with lists put off and a failed
  query of nvidia-smi to `Forget`: it adds that a sample is begun within `Refresh` of
  the one before and after its time (`Turn`), and that what either cache names has been
  seen.  A restart of the agent is a sample that says nothing.  For the exact listing
  `Exact` says, of a listing without comings and goings, that what was found and what
  is still to be looked up are together the entries of the lists that were read in full
  (`ReadSoFar`), GPU by GPU, and what is kept of a GPU behind is exactly its lists;
  `Named` carries this to the sample, which has of a GPU with a name what is kept of it.
- `SessionsProofs!TypeCorrect`, `UsagesMatch`, `SendingAgainIsHarmless`, `StaysOpen`,
  `RunningIsAlive`.  Queued snapshots are in the order of their
  times and not before what was written (`Ordered`), and the clock is held back by the oldest (`Timely`);
  while nothing was lost, each follows the one before it within the sampling pace
  (`Chain`).  So when the maintenance ends a session, its last time is older than
  `StaleIsLong` allows for one just written.  For a snapshot that is written twice
  `Copies` says that all snapshots of one time in the queue, and the newest sample if
  it has that time, say the same, and that while the last written one may still come
  again, the tables are as it left them: the maintenance in between ended none of its
  sessions (`CopyIsRecent`).  `RunningWasAlive` needs that what a
  queued snapshot or a row speaks of was alive within `Fresh` of its time (`Rooted`),
  and that a running session's time is close to the last maintenance, because it was
  not overdue then or was written since by a snapshot that waited no longer than
  `Patience` (`Recent`).

Only model-checked: everything under fairness (`SettingsArrive`, `SamplesArrive`,
`EveryChangeIsSent`, `BucketsAreWritten`, `SamplingGoesOn`), which is beyond the
prover.

## Not modelled

- Payloads: what is in a sample, in `hardware`, in a history response; parsing and
  formatting.  Messages that no agent of this repository sends, tokens.
- The status command and the contents of the env file; writes of the scripts that
  fail, and scripts cut off between two commands other than by a reboot.
- The retry delays and `agent-state.json`; `SnapshotCollector.stop`, called only as
  the agent ends; the plotted history of the collector.
- Of a process its user, name, command line and memory.  The "aggregate" detail
  mode, which hides the processes of others; a list NVML gives no permission for,
  for which the sampler asks nvidia-smi in between; an exception of Python in the
  middle of a listing (a library that lacks a function), which `NvmlFails` has before the
  first GPU and behind the last only; a number of GPUs that changes.
- A periodic `constella db maintain`: nothing in the repository schedules it, and
  `RunningWasAlive` takes it for granted by a guard of `Tick`.
- `avg_memory_mb` and `sample_count` of a usage: a process that is on both lists of a
  GPU is counted twice in them (`db.py:638`), which nothing in the repository
  excludes.
- Raw snapshots, which are off by default, the node and GPU tables, which are
  written and never read back, the legacy rollup of a table that is no longer
  written.  Queries with a limit or an end in the past, and those of tasks and users:
  one SELECT over the rows of `Sessions`.
- Two `constella db maintain` at once; the other `db` commands run one of its
  statements.  `Sessions` has only its first statement, which is one transaction.
- The dashboard: it draws what it was sent last, and a fetch that answers late is
  drawn until the next message.  Totals of `schema.py`: sums without state.
- The service scripts keep a pid file as `AgentControl` describes; `cli.py` and the
  tunnel script only start processes.

## Plan

Done, in the order of importance: `ClusterState`, `AgentLink` with
`NodeRegistry`, `ClusterFeed`, `HistorySink` with its queries, the statements of
`db maintain` and `RollupStore`, `Collector`, `AgentControl`, `ProcessListing` and
`Sessions` with the contract between them, and their theorems.  What is left, in this
order: an abstract page feed that `ClusterFeed` implements; the manager's own
rollup split into its SELECT and its upsert, for a second writer between the two.
