---------------------------- MODULE HistorySink ----------------------------
(***************************************************************************)
(* The history database's writer (db.py, AsyncDBSink and the rollup tables *)
(* of SQLiteStore): accepted snapshots go through a bounded queue to one   *)
(* worker, which gathers them in 20s buckets in memory, writes a bucket's  *)
(* row once the bucket is closed, rolls rows up to 2m and 1h rows, and     *)
(* prunes what is past its retention.                                      *)
(*                                                                         *)
(* A bucket and a row are the set of samples they summarise, a sample the  *)
(* time its node stamped it with: count, average and maximum are functions *)
(* of that set, but that a snapshot counts as often as it is submitted; an *)
(* empty set is a bucket or row that does not exist.                       *)
(* Every node has one GPU.  Raw snapshots are off, as they are by default, *)
(* and the node and process tables, which nothing here reads, are left out.*)
(***************************************************************************)
EXTENDS Integers, Sequences

CONSTANTS
  Nodes,
  Skew,          \* [Nodes -> Int]: a node's clock minus the manager's
  Width,         \* ROLLUP_20S, ROLLUP_2M, ROLLUP_1H
  Every,         \* seconds between two flushes, 2m rollups, 1h rollups
  PruneEvery,    \* seconds between two prunes
  Retention,     \* ROLLUP_RETENTION_SECONDS of the three tables
  QueueSize,
  Patience,      \* how long a snapshot may be under way and in the queue
  Stall,         \* how long the worker may go without coming to its maintenance
  MaxTime,       \* bound: how far the clocks go
  MaxSamples,    \* bound: samples submitted
  MaintainTime,  \* how long "constella db maintain" may take
  MaxFaults      \* bound: SQLite errors, ends of the manager, maintenance commands

Tiers == 1 .. 3
Times == 0 .. MaxTime

\* The times of the last flush, rollup and prune start as 0.0, which the time
\* of day is always a period past.
Unset == [t \in Tiers |-> 0 - Every[t]]
NeverPruned == 0 - PruneEvery

\* The start of the bucket of a sample, and the keys (bucket_start, node_id).
Start(t, at) == (at \div Width[t]) * Width[t]
Starts == {Start(1, at) : at \in Times}
Keys   == Starts \X Nodes

ASSUME SinkAssumption ==
  /\ Skew \in [Nodes -> Int]
  /\ Width \in [Tiers -> Nat \ {0}]
  /\ \A t \in {2, 3} : \E c \in 1 .. Width[t] : Width[t] = c * Width[t - 1]
  /\ Every \in [Tiers -> Nat]
  /\ PruneEvery \in Nat
  /\ Retention \in [Tiers -> Nat]
  /\ QueueSize \in Nat
  /\ Patience \in Nat
  /\ Stall \in Nat
  /\ MaxTime \in Nat
  /\ MaintainTime \in Nat
  /\ MaxSamples \in Nat
  /\ MaxFaults \in Nat

VARIABLES
  clock,     \* the manager's time.time()
  queue,     \* AsyncDBSink.queue: [node, at]
  open,      \* _rollup_20s
  rows,      \* gpu_metric_rollups, per bucket_seconds
  done,      \* _last_20s_flush_at, _last_2m_rollup_at, _last_1h_rollup_at
  pruned,    \* _last_prune_at
  turn,      \* when the worker, or its process, last began or came to its maintenance
  written,   \* the samples of a node that write_node_snapshot wrote
  lost,      \* 20s keys whose samples are gone: crashed, failed or pruned
  job,       \* "constella db maintain": its next statement, its time, what it read
  counts     \* what is left of the bounds

vars == <<clock, queue, open, rows, done, pruned, turn, written, lost, job, counts>>

NoRows == [k \in Keys |-> {}]
NoJob  == [next |-> "none", now |-> 0, read |-> NoRows]

Budget == [samples: Nat, faults: Nat]
Spend(kind) == counts[kind] > 0 /\ counts' = [counts EXCEPT ![kind] = @ - 1]

Init ==
  /\ clock   = 0
  /\ queue   = << >>
  /\ open    = NoRows
  /\ rows    = [t \in Tiers |-> NoRows]
  /\ done    = Unset
  /\ pruned  = NeverPruned
  /\ turn    = 0
  /\ written = [n \in Nodes |-> {}]
  /\ lost    = {}
  /\ job     = NoJob
  /\ counts  = [samples |-> MaxSamples, faults |-> MaxFaults]
----------------------------------------------------------------------------
(* Buckets and tables *)

\* Mutant of Closed: a bucket that is over is closed at once.
ClosedWithoutLag(t, s, now) == s + Width[t] <= now

\* bucket_start + width <= now - width: over, and for a width already.
Closed(t, s, now) == s + Width[t] <= now - Width[t]

Accumulated(buckets, n, at) ==
  [buckets EXCEPT ![<<Start(1, at), n>>] = @ \cup {at}]

Ready(buckets, now) == {k \in Keys : buckets[k] # {} /\ Closed(1, k[1], now)}

Without(buckets, keys) == [k \in Keys |-> IF k \in keys THEN {} ELSE buckets[k]]

\* The upsert replaces the row of every key it is given.
Upserted(table, buckets, keys) ==
  [table EXCEPT ![1] = [k \in Keys |-> IF k \in keys THEN buckets[k] ELSE @[k]]]

\* What the rows of the next finer table hold for a coarse key.
Finer(table, t, k) ==
  UNION {table[t - 1][<<s, k[2]>>] : s \in {s \in Starts : Start(t, s) = k[1]}}

\* Mutant of Read: the bucket that is still filling is rolled up too.
ReadEarly(table, t, now) == [k \in Keys |-> Finer(table, t, k)]

\* rollup_gpu_metric_rollups reads every finer row there is, each time, and
\* upserts a row for every coarse bucket that is closed.
Read(table, t, now) ==
  [k \in Keys |-> IF Closed(t, k[1], now) THEN Finer(table, t, k) ELSE {}]

Stored(table, t, read) ==
  [table EXCEPT ![t] = [k \in Keys |-> IF read[k] = {} THEN @[k] ELSE read[k]]]

Rolled(table, t, now) == Stored(table, t, Read(table, t, now))

\* Mutant of Expired: one retention for all tables.
ExpiredAtOnce(t, now) == {k \in Keys : k[1] < now - Retention[1]}

Expired(t, now) == {k \in Keys : k[1] < now - Retention[t]}

Pruned(table, now) ==
  [t \in Tiers |-> [k \in Keys |-> IF k \in Expired(t, now) THEN {} ELSE table[t][k]]]

PrunedKeys(table, now) == {k \in Expired(1, now) : table[1][k] # {}}

\* Mutant of Table: the table of the next longer span.
TableOfNext(since) ==
  IF clock - since <= Retention[2] THEN 1 ELSE IF clock - since <= Retention[3] THEN 2 ELSE 3

\* _select_history_bucket: a query without an end spans from `since` to now.
Table(since) ==
  IF clock - since <= Retention[1] THEN 1 ELSE IF clock - since <= Retention[2] THEN 2 ELSE 3

\* query_gpu_history of all nodes, but for its limit: the rows it finds.
Answer(since) == {k \in Keys : k[1] >= since /\ rows[Table(since)][k] # {}}
----------------------------------------------------------------------------
(* The worker *)

\* _run_scheduled_maintenance on the buckets the worker holds by then.  It has
\* five stages, each when due; an error ends it after the first `ok` of them.
\* The flush has deleted its buckets before it writes them, and the last two,
\* prune_rollups and that of raw snapshots, which are left out, share their due.
Maintenance(buckets, now, ok) ==
  LET Due(t)  == now - done[t] >= Every[t]
      Runs(t) == Due(t) /\ t <= ok
      sweep   == now - pruned >= PruneEvery
      ready   == IF Due(1) THEN Ready(buckets, now) ELSE {}
      t1 == IF Runs(1) THEN Upserted(rows, buckets, ready) ELSE rows
      t2 == IF Runs(2) THEN Rolled(t1, 2, now) ELSE t1
      t3 == IF Runs(3) THEN Rolled(t2, 3, now) ELSE t2
  IN
  /\ ok \in 1 .. 4 => (IF ok < 3 THEN Due(ok + 1) ELSE sweep)
  /\ ok = 0 => ready # {}
  /\ open'   = Without(buckets, ready)
  /\ rows'   = IF sweep /\ ok >= 4 THEN Pruned(t3, now) ELSE t3
  /\ done'   = [t \in Tiers |-> IF Runs(t) THEN now ELSE done[t]]
  /\ pruned' = IF sweep /\ ok = 5 THEN now ELSE pruned
  /\ lost'   = lost \cup (IF ok = 0 THEN ready ELSE {})
                    \cup (IF sweep /\ ok >= 4 THEN PrunedKeys(t3, now) ELSE {})
  /\ turn'   = clock
  /\ IF ok = 5 THEN UNCHANGED counts ELSE Spend("faults")

\* Mutant of Submit: a queue without a limit.
SubmitUnbounded(n, at) ==
  /\ at <= clock + Skew[n]
  /\ clock <= at - Skew[n] + Patience
  /\ Spend("samples")
  /\ queue' = Append(queue, [node |-> n, at |-> at])
  /\ UNCHANGED <<clock, open, rows, done, pruned, turn, written, lost, job>>

\* agent_ws hands over an accepted snapshot, which was stamped a while ago.
\* Nothing says that it is newer than the last one: the sender starts every
\* connection with its newest snapshot, and ClusterState with last_seq 0.  A
\* full queue drops it.
Submit(n, at) ==
  /\ at <= clock + Skew[n]
  /\ clock <= at - Skew[n] + Patience
  /\ Spend("samples")
  /\ queue' = IF Len(queue) < QueueSize THEN Append(queue, [node |-> n, at |-> at]) ELSE queue
  /\ UNCHANGED <<clock, open, rows, done, pruned, turn, written, lost, job>>

Later(a, b) == IF a > b THEN a ELSE b

\* _worker takes a snapshot: it is written and counted in its bucket, and the
\* maintenance goes by whichever clock is ahead, the manager's or the node's.
Work(ok) ==
  LET m   == Head(queue)
      now == Later(clock, m.at)
  IN
  /\ queue # << >>
  /\ queue'   = Tail(queue)
  /\ written' = [written EXCEPT ![m.node] = @ \cup {m.at}]
  /\ Maintenance(Accumulated(open, m.node, m.at), now, ok)
  /\ UNCHANGED <<clock, job>>

\* write_node_snapshot fails and is rolled back; the snapshot is skipped.
WorkFails ==
  /\ queue # << >>
  /\ queue' = Tail(queue)
  /\ Spend("faults")
  /\ UNCHANGED <<clock, open, rows, done, pruned, turn, written, lost, job>>

\* Mutant of Idle: a worker without snapshots only waits on.
IdleSkips(ok) ==
  /\ queue = << >> /\ ok = 5
  /\ turn' = clock
  /\ UNCHANGED <<clock, queue, open, rows, done, pruned, written, lost, job, counts>>

\* No snapshot for ten seconds.
Idle(ok) ==
  /\ queue = << >>
  /\ Maintenance(open, clock, ok)
  /\ UNCHANGED <<clock, queue, written, job>>
----------------------------------------------------------------------------
(* The process, the maintenance command and time *)

\* The manager ends and starts anew.  stop() flushes what is closed; a crash
\* does not.  Either way the other buckets and the queue are gone.
Restart(graceful) ==
  LET ready == IF graceful THEN Ready(open, clock) ELSE {} IN
  /\ Spend("faults")
  /\ queue'  = << >>
  /\ rows'   = Upserted(rows, open, ready)
  /\ open'   = NoRows
  /\ lost'   = lost \cup {k \in Keys \ ready : open[k] # {}}
  /\ done'   = Unset
  /\ pruned' = NeverPruned
  /\ turn'   = clock
  /\ UNCHANGED <<clock, written, job>>

\* "constella db maintain" is another process on the same file, so that the
\* manager's transactions come between its statements: for either coarse table
\* the SELECT and then the upsert of what it found, and at last the prune, all
\* by the time it was started at.
MaintainBegin ==
  /\ job = NoJob
  /\ Spend("faults")
  /\ job' = [next |-> "store2", now |-> clock, read |-> Read(rows, 2, clock)]
  /\ UNCHANGED <<clock, queue, open, rows, done, pruned, turn, written, lost>>

MaintainStore(t, this, next) ==
  /\ job.next = this
  /\ rows' = Stored(rows, t, job.read)
  /\ job'  = [next |-> next, now |-> job.now, read |-> NoRows]
  /\ UNCHANGED <<clock, queue, open, done, pruned, turn, written, lost, counts>>

MaintainRead ==
  /\ job.next = "read3"
  /\ job' = [next |-> "store3", now |-> job.now, read |-> Read(rows, 3, job.now)]
  /\ UNCHANGED <<clock, queue, open, rows, done, pruned, turn, written, lost, counts>>

MaintainPrune ==
  /\ job.next = "prune"
  /\ rows' = Pruned(rows, job.now)
  /\ lost' = lost \cup PrunedKeys(rows, job.now)
  /\ job'  = NoJob
  /\ UNCHANGED <<clock, queue, open, done, pruned, turn, written, counts>>

\* An SQLite error or an interrupt ends the command where it is.
MaintainFails ==
  /\ job # NoJob
  /\ Spend("faults")
  /\ job' = NoJob
  /\ UNCHANGED <<clock, queue, open, rows, done, pruned, turn, written, lost>>

MaintainGoesOn ==
  \/ MaintainStore(2, "store2", "read3")
  \/ MaintainRead
  \/ MaintainStore(3, "store3", "prune")
  \/ MaintainPrune

Maintain == MaintainBegin \/ MaintainGoesOn \/ MaintainFails

\* All of SQLiteStore.maintain, when nothing comes between.
Maintained(table, now) == Pruned(Rolled(Rolled(table, 2, now), 3, now), now)

\* The worker keeps up: nothing waits in the queue longer than Patience, and
\* from its first turn on, a snapshot or the timeout of its wait gives it another
\* at least every Stall.  A maintenance command is done within MaintainTime.
Tick ==
  /\ clock < MaxTime
  /\ job # NoJob => clock + 1 <= job.now + MaintainTime
  /\ clock + 1 <= turn + Stall
  /\ \A i \in 1 .. Len(queue) : clock + 1 <= queue[i].at - Skew[queue[i].node] + Patience
  /\ clock' = clock + 1
  /\ UNCHANGED <<queue, open, rows, done, pruned, turn, written, lost, job, counts>>

Worker == (\E ok \in 0 .. 5 : Work(ok) \/ Idle(ok)) \/ WorkFails

Next ==
  \/ \E n \in Nodes, at \in Times : Submit(n, at)
  \/ Worker
  \/ \E graceful \in BOOLEAN : Restart(graceful)
  \/ Maintain
  \/ Tick

Spec == Init /\ [][Next]_vars

\* The worker's loop runs, its ten-second timeout fires, a maintenance command
\* goes on, and time passes.
FairSpec ==
  /\ Spec
  /\ WF_vars(Work(5))
  /\ WF_vars(Idle(5))
  /\ WF_vars(MaintainGoesOn)
  /\ WF_vars(Tick)
----------------------------------------------------------------------------
(* Properties *)

\* Every variable stays in its domain.
TypeOK ==
  /\ clock \in Times
  /\ queue \in Seq([node: Nodes, at: Times])
  /\ Len(queue) <= QueueSize
  /\ open \in [Keys -> SUBSET Times]
  /\ rows \in [Tiers -> [Keys -> SUBSET Times]]
  /\ done \in [Tiers -> Times \cup {Unset[t] : t \in Tiers}]
  /\ pruned \in Times \cup {NeverPruned}
  /\ turn \in Times
  /\ written \in [Nodes -> SUBSET Times]
  /\ lost \subseteq Keys
  /\ job \in [next: {"none", "store2", "read3", "store3", "prune"}, now: Times,
             read: [Keys -> SUBSET Times]]
  /\ counts \in Budget

WrittenIn(t, k) == {at \in written[k[2]] : Start(t, at) = k[1]}

\* The clocks of the nodes and the wait in the queue together differ by no
\* more than the lag a closed bucket is given.
ClocksAgree ==
  \A m \in Nodes : /\ Patience - Skew[m] <= Width[1]
                   /\ \A n \in Nodes : Skew[n] - Skew[m] + Patience <= Width[1]

\* A coarse bucket gets the lag of a width, too: by then its finer rows are
\* written, and they are pruned before the coarse row is.
TablesInStep ==
  /\ Stall + Every[1] + Width[1] <= Width[2]
  /\ Every[2] + Width[2] <= Width[3]
  /\ \A t \in {2, 3} : Retention[1] + Width[t] <= Retention[t] /\ 2 * Width[t] <= Retention[t]

\* The 20s row of a bucket that lost nothing sums up every sample written for
\* it: no snapshot comes after its bucket was flushed, to start it anew and
\* have the upsert replace the full row by what is left.
RowsComplete ==
  \A k \in Keys : k \notin lost /\ rows[1][k] # {} => rows[1][k] = WrittenIn(1, k)

\* The same of the 2m and 1h rows, as long as the finer rows are there.
CoarseRowsComplete ==
  \A t \in {2, 3} : \A k \in Keys :
    ( /\ rows[t][k] # {}
      /\ \A f \in lost : f[2] # k[2] \/ Start(t, f[1]) # k[1] )
    => rows[t][k] = WrittenIn(t, k)

\* A bucket does not stay in memory, even when its node falls silent: by the
\* time it is closed and the worker had its next flush, what was written for it
\* has its row, unless it was lost.
WrittenInTime ==
  \A k \in Keys \ lost :
    WrittenIn(1, k) # {} /\ k[1] + 2 * Width[1] + Every[1] + Stall <= clock => rows[1][k] # {}

Store == INSTANCE RollupStore WITH faults <- counts.faults

\* The store is what a reader of the tables may take it for: a row of any table
\* appears once, complete, and is final; only faults and the retention lose
\* anything.
ImplementsStore == Store!Spec

NoClockAhead == \A n \in Nodes : Skew[n] <= 0

\* As long as no node's clock is ahead, a query's answer loses a row by the
\* passage of time alone: no prune, rollup, flush, restart or maintenance beside
\* the manager takes one out of the table the query goes to.
AnswersKeepRows ==
  [][ NoClockAhead /\ clock' = clock =>
        \A since \in Times :
          clock - since <= Retention[3] => Answer(since) \subseteq Answer(since)' ]_vars

\* plan_stage2.2.md, "repeating the maintenance command is idempotent".
MaintainIsIdempotent ==
  LET once == Maintained(rows, clock) IN Maintained(once, clock) = once

\* The same without a time: every bucket in memory gets its row, unless it is
\* lost with the process or in a failed flush.
BucketsAreWritten ==
  \A k \in Keys : k[1] + 2 * Width[1] + Every[1] <= MaxTime =>
    (open[k] # {} ~> rows[1][k] # {} \/ k \in lost)
=============================================================================
