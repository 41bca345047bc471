------------------------- MODULE HistorySinkProofs -------------------------
(***************************************************************************)
(* Theorems about HistorySink, for every value of its constants: types,    *)
(* that an answer keeps its rows, and, when the clocks agree, that 20s     *)
(* rows, and with tables in step 2m and 1h rows, are complete.             *)
(*                                                                         *)
(* The argument: a bucket is flushed only when some clock is two widths    *)
(* past its start (FlushedLate), and a snapshot in the queue is never far  *)
(* behind the manager's clock (QueueFresh).  So the bucket of a snapshot   *)
(* the worker takes has not been flushed, and the snapshot joins all the   *)
(* others of its bucket in memory (InOnePlace).                            *)
(*                                                                         *)
(* For the coarse rows: by the time a 2m bucket is closed no 20s bucket of *)
(* it is left in memory (FlushInv), so that its 20s rows, each complete,   *)
(* make it up (ReadTwo); and the 2m rows that are stored go far enough for *)
(* a 1h bucket that is closed (Covers, ReadThree).  What a maintenance     *)
(* command has read stays complete until it stores it (CommandInv): no     *)
(* sample of a closed bucket comes any more (SampleIsNew).                 *)
(***************************************************************************)
EXTENDS HistorySink, TLAPS

Buckets == [Keys -> SUBSET Times]

LEMMA StartBounds ==
  ASSUME NEW at \in Times
  PROVE  /\ Start(1, at) \in Nat
         /\ Start(1, at) <= at
         /\ at < Start(1, at) + Width[1]
<1>1. Width[1] \in Nat \ {0}
  BY SinkAssumption DEF Tiers
<1> DEFINE w == Width[1]
<1>2. at \in Nat
  BY SinkAssumption DEF Times
<1> HIDE DEF w
<1>3. w \in Nat \ {0} => /\ (at \div w) * w \in Nat
                         /\ (at \div w) * w <= at
                         /\ at < (at \div w) * w + w
  BY <1>2, Z3
<1> QED BY <1>1, <1>3 DEF Start, w

LEMMA KeyOf ==
  ASSUME NEW n \in Nodes, NEW at \in Times
  PROVE  <<Start(1, at), n>> \in Keys
BY DEF Keys, Starts

LEMMA KeyType == \A k \in Keys : k[1] \in Nat /\ k[2] \in Nodes
BY StartBounds DEF Keys, Starts

LEMMA AccumulatedType ==
  ASSUME NEW buckets \in Buckets, NEW n \in Nodes, NEW at \in Times
  PROVE  Accumulated(buckets, n, at) \in Buckets
BY KeyOf DEF Accumulated, Buckets

LEMMA ReadType ==
  ASSUME NEW table \in [Tiers -> Buckets], NEW t \in {2, 3}, NEW now \in Int
  PROVE  Read(table, t, now) \in Buckets
<1>1. ASSUME NEW k \in Keys PROVE Finer(table, t, k) \in SUBSET Times
  <2>1. t - 1 \in Tiers
    BY DEF Tiers
  <2>2. ASSUME NEW s \in Starts PROVE table[t - 1][<<s, k[2]>>] \subseteq Times
    BY <2>1, KeyType DEF Buckets, Keys
  <2> QED BY <2>2 DEF Finer
<1> QED BY <1>1 DEF Read, Buckets

LEMMA StoredType ==
  ASSUME NEW table \in [Tiers -> Buckets], NEW t \in {2, 3}, NEW read \in Buckets
  PROVE  /\ Stored(table, t, read) \in [Tiers -> Buckets]
         /\ Stored(table, t, read)[1] = table[1]
<1> DEFINE row == [k \in Keys |-> IF read[k] = {} THEN table[t][k] ELSE read[k]]
<1>1. t \in Tiers /\ t # 1 /\ 1 \in Tiers
  BY DEF Tiers
<1>2. row \in Buckets
  BY <1>1 DEF Buckets
<1>3. Stored(table, t, read) = [table EXCEPT ![t] = row]
  BY DEF Stored
<1> HIDE DEF row
<1> QED BY <1>1, <1>2, <1>3

LEMMA RolledType ==
  ASSUME NEW table \in [Tiers -> Buckets], NEW t \in {2, 3}, NEW now \in Int
  PROVE  Rolled(table, t, now) \in [Tiers -> Buckets] /\ Rolled(table, t, now)[1] = table[1]
BY ReadType, StoredType DEF Rolled

LEMMA PrunedType ==
  ASSUME NEW table \in [Tiers -> Buckets], NEW now \in Int
  PROVE  Pruned(table, now) \in [Tiers -> Buckets]
BY DEF Pruned, Buckets

LEMMA UpsertedType ==
  ASSUME NEW table \in [Tiers -> Buckets], NEW buckets \in Buckets, NEW keys \in SUBSET Keys
  PROVE  /\ Upserted(table, buckets, keys) \in [Tiers -> Buckets]
         /\ \A k \in Keys : Upserted(table, buckets, keys)[1][k] =
                              IF k \in keys THEN buckets[k] ELSE table[1][k]
<1> DEFINE row == [k \in Keys |-> IF k \in keys THEN buckets[k] ELSE table[1][k]]
<1>1. 1 \in Tiers
  BY DEF Tiers
<1>2. row \in Buckets
  BY <1>1 DEF Buckets
<1>3. Upserted(table, buckets, keys) = [table EXCEPT ![1] = row]
  BY DEF Upserted
<1>4. \A k \in Keys : row[k] = IF k \in keys THEN buckets[k] ELSE table[1][k]
  OBVIOUS
<1> HIDE DEF row
<1> QED BY <1>1, <1>2, <1>3, <1>4

----------------------------------------------------------------------------
(* Maintenance *)

\* What a run of the worker's maintenance does to the 20s rows.
LEMMA MaintenanceEffect ==
  ASSUME NEW buckets \in Buckets, NEW now \in Int, NEW ok \in 0 .. 5,
         rows \in [Tiers -> Buckets], lost \in SUBSET Keys,
         Maintenance(buckets, now, ok)
  PROVE  /\ rows' \in [Tiers -> Buckets]
         /\ lost' \in SUBSET Keys
         /\ lost \subseteq lost'
         /\ \E ready \in SUBSET Keys :
              /\ \A k \in ready : Closed(1, k[1], now) /\ buckets[k] # {}
              /\ open' = Without(buckets, ready)
              /\ \A k \in Keys : rows'[1][k] # {} => rows[1][k] # {} \/ k \in ready
              /\ \A k \in Keys \ lost' :
                   rows'[1][k] = IF k \in ready THEN buckets[k] ELSE rows[1][k]
<1> DEFINE Due(t)  == now - done[t] >= Every[t]
           Runs(t) == Due(t) /\ t <= ok
           sweep   == now - pruned >= PruneEvery
           ready   == IF Due(1) THEN Ready(buckets, now) ELSE {}
           t1 == IF Runs(1) THEN Upserted(rows, buckets, ready) ELSE rows
           t2 == IF Runs(2) THEN Rolled(t1, 2, now) ELSE t1
           t3 == IF Runs(3) THEN Rolled(t2, 3, now) ELSE t2
<1>1. /\ ok = 0 => ready # {}
      /\ open' = Without(buckets, ready)
      /\ rows' = IF sweep /\ ok >= 4 THEN Pruned(t3, now) ELSE t3
      /\ lost' = lost \cup (IF ok = 0 THEN ready ELSE {})
                      \cup (IF sweep /\ ok >= 4 THEN PrunedKeys(t3, now) ELSE {})
  BY DEF Maintenance
<1>2. ready \in SUBSET Keys /\ \A k \in ready : Closed(1, k[1], now) /\ buckets[k] # {}
  BY DEF Ready
<1>3. t1 \in [Tiers -> Buckets]
  BY <1>2, UpsertedType
<1>4. \A k \in Keys : t1[1][k] = IF Runs(1) /\ k \in ready THEN buckets[k] ELSE rows[1][k]
  BY <1>2, UpsertedType
<1> HIDE DEF t1
<1>5. t2 \in [Tiers -> Buckets] /\ t2[1] = t1[1]
  BY <1>3, RolledType
<1> HIDE DEF t2
<1>6. t3 \in [Tiers -> Buckets] /\ t3[1] = t1[1]
  BY <1>5, RolledType
<1> HIDE DEF t3
<1>7. \A k \in Keys : Pruned(t3, now)[1][k] = IF k \in Expired(1, now) THEN {} ELSE t3[1][k]
  BY DEF Pruned, Tiers
<1>8. rows' \in [Tiers -> Buckets]
  BY <1>1, <1>6, PrunedType
<1>9. PrunedKeys(t3, now) \subseteq Keys
  BY DEF PrunedKeys, Expired
<1>10. Runs(1) <=> Due(1) /\ ok # 0
  OBVIOUS
<1>11. \A k \in Keys : rows'[1][k] # {} => rows[1][k] # {} \/ k \in ready
  BY <1>1, <1>4, <1>6, <1>7
<1>12. ASSUME NEW k \in Keys \ lost'
       PROVE  rows'[1][k] = IF k \in ready THEN buckets[k] ELSE rows[1][k]
  <2>1. ok = 0 => k \notin ready
    BY <1>1, <1>12
  <2>2. k \in ready => Due(1)
    OBVIOUS
  <2>3. t1[1][k] = IF k \in ready THEN buckets[k] ELSE rows[1][k]
    BY <1>4, <1>10, <2>1, <2>2, <1>12
  <2>4. CASE sweep /\ ok >= 4
    <3>1. k \notin PrunedKeys(t3, now)
      BY <1>1, <1>12, <2>4
    <3>2. k \in Expired(1, now) => t3[1][k] = {}
      BY <3>1 DEF PrunedKeys
    <3> QED BY <1>1, <1>6, <1>7, <1>12, <2>3, <2>4, <3>2
  <2>5. CASE ~(sweep /\ ok >= 4)
    BY <1>1, <1>6, <2>3, <2>5
  <2> QED BY <2>4, <2>5
<1> HIDE DEF ready, Due, Runs, sweep
<1> QED BY <1>1, <1>2, <1>8, <1>9, <1>11, <1>12
----------------------------------------------------------------------------
(* Types *)

LEMMA HeadType ==
  ASSUME NEW S, NEW q \in Seq(S), q # << >>
  PROVE  /\ Head(q) \in S
         /\ Tail(q) \in Seq(S)
OBVIOUS

LEMMA TailLength ==
  ASSUME NEW S, NEW q \in Seq(S), q # << >>, NEW bound \in Nat, Len(q) <= bound
  PROVE  Len(Tail(q)) <= bound
OBVIOUS

DoneType == [Tiers -> Times \cup {Unset[t] : t \in Tiers}]

LEMMA SpendType ==
  ASSUME counts \in Budget,
         NEW kind \in {"samples", "faults"}, Spend(kind)
  PROVE  counts' \in Budget
<1>1. counts[kind] \in Nat /\ counts[kind] - 1 \in Nat
  BY DEF Spend, Budget
<1>2. counts' = [counts EXCEPT ![kind] = counts[kind] - 1]
  BY DEF Spend
<1> QED BY <1>1, <1>2 DEF Budget

Jobs == [next: {"none", "store2", "read3", "store3", "prune"}, now: Times, read: Buckets]

LEMMA NoJobType == NoJob \in Jobs
<1>1. NoRows \in Buckets /\ 0 \in Times
  BY SinkAssumption DEF NoRows, Buckets, Times
<1> QED BY <1>1 DEF NoJob, Jobs

\* The statements of a maintenance command keep what they touch in its domain.
LEMMA MaintainType ==
  ASSUME TypeOK, Maintain
  PROVE  /\ rows' \in [Tiers -> Buckets]
         /\ lost' \in SUBSET Keys
         /\ job' \in Jobs
         /\ counts' \in Budget
         /\ UNCHANGED <<clock, queue, open, done, pruned, turn, written>>
<1>0. /\ rows \in [Tiers -> Buckets] /\ lost \in SUBSET Keys /\ job \in Jobs
      /\ clock \in Times /\ clock \in Int /\ job.now \in Int
  BY DEF TypeOK, Buckets, Jobs, Times
<1>1. CASE MaintainBegin
  <2>1. Read(rows, 2, clock) \in Buckets
    BY <1>0, ReadType
  <2>2. counts' \in Budget
    BY <1>1, SpendType DEF MaintainBegin, TypeOK
  <2> QED BY <1>0, <1>1, <2>1, <2>2 DEF MaintainBegin, Jobs
<1>2. ASSUME NEW t \in {2, 3}, NEW this, NEW next \in {"read3", "prune"}, MaintainStore(t, this, next)
      PROVE  /\ rows' \in [Tiers -> Buckets] /\ lost' = lost /\ job' \in Jobs /\ counts' = counts
             /\ UNCHANGED <<clock, queue, open, done, pruned, turn, written>>
  <2>1. job.read \in Buckets /\ job.now \in Times /\ NoRows \in Buckets
    BY <1>0 DEF Jobs, NoRows, Buckets
  <2>2. rows' \in [Tiers -> Buckets]
    BY <1>0, <1>2, <2>1, StoredType DEF MaintainStore
  <2> QED BY <1>2, <2>1, <2>2 DEF MaintainStore, Jobs
<1>3. CASE MaintainRead
  <2>1. Read(rows, 3, job.now) \in Buckets /\ job.now \in Times
    BY <1>0, ReadType DEF Jobs
  <2> QED BY <1>0, <1>3, <2>1 DEF MaintainRead, Jobs, TypeOK
<1>4. CASE MaintainPrune
  BY <1>0, <1>4, PrunedType, NoJobType DEF MaintainPrune, PrunedKeys, Expired, TypeOK
<1>5. CASE MaintainFails
  <2>1. counts' \in Budget
    BY <1>5, SpendType DEF MaintainFails, TypeOK
  <2> QED BY <1>0, <1>5, <2>1, NoJobType DEF MaintainFails
<1>6. counts \in Budget
  BY DEF TypeOK
<1> QED BY <1>0, <1>1, <1>2, <1>3, <1>4, <1>5, <1>6 DEF Maintain, MaintainGoesOn

LEMMA MaintenanceType ==
  ASSUME TypeOK, NEW buckets \in Buckets, NEW now \in Times, NEW ok \in 0 .. 5,
         Maintenance(buckets, now, ok)
  PROVE  /\ open' \in Buckets
         /\ done' \in DoneType
         /\ pruned' \in Times \cup {NeverPruned}
         /\ turn' \in Times
         /\ counts' \in Budget
<1>1. open' \in Buckets
  BY DEF Maintenance, Without, Buckets
<1>2. done' \in DoneType
  <2>1. done' = [t \in Tiers |-> IF now - done[t] >= Every[t] /\ t <= ok THEN now ELSE done[t]]
    BY DEF Maintenance
  <2> QED BY <2>1 DEF TypeOK, DoneType
<1>3. pruned' \in Times \cup {NeverPruned}
  BY DEF Maintenance, TypeOK
<1>4. counts' \in Budget
  <2>1. counts' = counts \/ Spend("faults")
    BY DEF Maintenance
  <2> QED BY <2>1, SpendType DEF TypeOK
<1>5. turn' \in Times
  BY DEF Maintenance, TypeOK
<1> QED BY <1>1, <1>2, <1>3, <1>4, <1>5

\* Every variable stays in its domain.
THEOREM TypeCorrect == Spec => []TypeOK
<1>1. Init => TypeOK
  <2>1. NoJob \in Jobs /\ NoRows \in Buckets
    BY NoJobType DEF NoRows, Buckets
  <2> QED BY <2>1, SinkAssumption, SMTT(30) DEF Init, TypeOK, Times, Tiers, Budget, Unset, NeverPruned, Jobs,
                                     Buckets
<1>2. TypeOK /\ [Next]_vars => TypeOK'
  <2> SUFFICES ASSUME TypeOK, [Next]_vars PROVE TypeOK'
    OBVIOUS
  <2>0. /\ open \in Buckets
        /\ rows \in [Tiers -> Buckets]
        /\ lost \in SUBSET Keys
        /\ clock \in Times
        /\ clock \in Int
        /\ 0 \in Times
    BY SinkAssumption, SMTT(30) DEF TypeOK, Buckets, Times
  <2>1. CASE \E n \in Nodes, at \in Times : Submit(n, at)
    <3> PICK n \in Nodes, at \in Times : Submit(n, at)
      BY <2>1
    <3>1. queue' \in Seq([node: Nodes, at: Times]) /\ Len(queue') <= QueueSize
      <4> DEFINE item == [node |-> n, at |-> at]
                 Item == [node: Nodes, at: Times]
      <4>1. item \in Item /\ queue \in Seq(Item)
        BY DEF TypeOK
      <4>2. queue' = IF Len(queue) < QueueSize THEN Append(queue, item) ELSE queue
        BY DEF Submit
      <4> HIDE DEF item, Item
      <4>3. queue' \in Seq(Item)
        BY <4>1, <4>2
      <4>4. Len(queue') <= QueueSize
        BY <4>1, <4>2, SinkAssumption DEF TypeOK
      <4> QED BY <4>3, <4>4 DEF Item
    <3>2. counts' \in Budget
      BY SpendType DEF Submit, TypeOK
    <3> QED BY <3>1, <3>2 DEF Submit, TypeOK
  <2>2. CASE \E ok \in 0 .. 5 : Work(ok)
    <3> PICK ok \in 0 .. 5 : Work(ok)
      BY <2>2
    <3> DEFINE m   == Head(queue)
               now == Later(clock, m.at)
               b   == Accumulated(open, m.node, m.at)
    <3>1. m \in [node: Nodes, at: Times] /\ queue' \in Seq([node: Nodes, at: Times])
      BY HeadType DEF Work, TypeOK
    <3>2. now \in Times /\ now \in Int
      BY <3>1, <2>0 DEF Later, Times
    <3>3. b \in Buckets
      BY <3>1, <2>0, AccumulatedType
    <3>4. Maintenance(b, now, ok)
      BY DEF Work
    <3>5. written' \in [Nodes -> SUBSET Times]
      BY <3>1 DEF Work, TypeOK
    <3> HIDE DEF now, b
    <3>6. rows' \in [Tiers -> Buckets] /\ lost' \in SUBSET Keys
      BY <2>0, <3>2, <3>3, <3>4, MaintenanceEffect
    <3>7. open' \in Buckets /\ done' \in DoneType /\ pruned' \in Times \cup {NeverPruned}
          /\ turn' \in Times /\ counts' \in Budget
      BY <3>2, <3>3, <3>4, MaintenanceType
    <3>8. Len(queue') <= QueueSize
      BY TailLength, SinkAssumption DEF Work, TypeOK
    <3> QED BY <3>1, <3>5, <3>6, <3>7, <3>8 DEF Work, TypeOK, Buckets, DoneType
  <2>3. CASE \E ok \in 0 .. 5 : Idle(ok)
    <3> PICK ok \in 0 .. 5 : Idle(ok)
      BY <2>3
    <3>1. Maintenance(open, clock, ok)
      BY DEF Idle
    <3>2. rows' \in [Tiers -> Buckets] /\ lost' \in SUBSET Keys
      BY <2>0, <3>1, MaintenanceEffect
    <3>3. open' \in Buckets /\ done' \in DoneType /\ pruned' \in Times \cup {NeverPruned}
          /\ turn' \in Times /\ counts' \in Budget
      BY <2>0, <3>1, MaintenanceType
    <3> QED BY <3>2, <3>3 DEF Idle, TypeOK, Buckets, DoneType
  <2>4. CASE WorkFails
    <3>1. counts' \in Budget
      BY <2>4, SpendType DEF WorkFails, TypeOK
    <3>2. queue' \in Seq([node: Nodes, at: Times])
      BY <2>4, HeadType DEF WorkFails, TypeOK
    <3>3. Len(queue') <= QueueSize
      BY <2>4, TailLength, SinkAssumption DEF WorkFails, TypeOK
    <3> QED BY <2>4, <3>1, <3>2, <3>3 DEF WorkFails, TypeOK
  <2>5. CASE \E graceful \in BOOLEAN : Restart(graceful)
    <3> PICK graceful \in BOOLEAN : Restart(graceful)
      BY <2>5
    <3> DEFINE ready == IF graceful THEN Ready(open, clock) ELSE {}
    <3>1. ready \in SUBSET Keys
      BY DEF Ready
    <3>2. rows' = Upserted(rows, open, ready) /\ lost' \in SUBSET Keys
      BY <2>0 DEF Restart
    <3> HIDE DEF ready
    <3>3. rows' \in [Tiers -> Buckets]
      BY <2>0, <3>1, <3>2, UpsertedType
    <3>4. counts' \in Budget
      BY SpendType DEF Restart, TypeOK
    <3>5. queue' \in Seq([node: Nodes, at: Times]) /\ open' \in Buckets
          /\ done' \in DoneType /\ pruned' \in Times \cup {NeverPruned} /\ turn' \in Times
      BY <2>0 DEF Restart, Buckets, DoneType, Unset, NoRows
    <3>6. Len(queue') <= QueueSize
      BY SinkAssumption DEF Restart
    <3> QED BY <3>2, <3>3, <3>4, <3>5, <3>6 DEF Restart, TypeOK, Buckets, DoneType
  <2>6. CASE Maintain
    BY <2>6, MaintainType DEF TypeOK, Buckets, Jobs
  <2>7. CASE Tick
    <3>1. clock' \in Times
      BY <2>7, SinkAssumption DEF Tick, TypeOK, Times
    <3> QED BY <2>7, <3>1 DEF Tick, TypeOK
  <2>8. CASE UNCHANGED vars
    BY <2>8 DEF vars, TypeOK
  <2> QED BY <2>1, <2>2, <2>3, <2>4, <2>5, <2>6, <2>7, <2>8 DEF Next, Worker
<1> QED BY <1>1, <1>2, PTL DEF Spec
----------------------------------------------------------------------------
(* 20s rows *)

\* A snapshot in the queue is not from the manager's future, and has not
\* waited longer than Patience.
QueueFresh ==
  \A i \in 1 .. Len(queue) :
    /\ clock <= queue[i].at - Skew[queue[i].node] + Patience
    /\ queue[i].at <= clock + Skew[queue[i].node]

\* A row that is there was flushed by some clock that was far enough.
FlushedLate ==
  \A k \in Keys : rows[1][k] # {} =>
    \/ k[1] + 2 * Width[1] <= clock
    \/ \E n \in Nodes : k[1] + 2 * Width[1] <= clock + Skew[n]

\* The samples of a bucket that lost nothing are all in memory or all in its row.
InOnePlace ==
  \A k \in Keys \ lost :
    \/ open[k] = WrittenIn(1, k) /\ rows[1][k] = {}
    \/ rows[1][k] = WrittenIn(1, k) /\ open[k] = {}

SinkInv == QueueFresh /\ FlushedLate /\ InOnePlace

LEMMA FirstIsHead ==
  ASSUME NEW S, NEW q \in Seq(S), q # << >>
  PROVE  Head(q) = q[1] /\ 1 \in 1 .. Len(q)
OBVIOUS

\* Taking the head of a sequence moves the others up by one.
LEMMA TailShifts ==
  ASSUME NEW S, NEW q \in Seq(S), q # << >>, NEW i \in 1 .. Len(Tail(q))
  PROVE  i + 1 \in 1 .. Len(q) /\ Tail(q)[i] = q[i + 1]
OBVIOUS

LEMMA InitSinkInv == Init => SinkInv
<1> SUFFICES ASSUME Init PROVE SinkInv
  OBVIOUS
<1>1. QueueFresh
  BY DEF Init, QueueFresh
<1>2. FlushedLate
  BY DEF Init, FlushedLate, Tiers, NoRows
<1>3. InOnePlace
  BY KeyType DEF Init, InOnePlace, Tiers, WrittenIn, NoRows
<1> QED BY <1>1, <1>2, <1>3 DEF SinkInv

\* Time only helps FlushedLate; Maintenance keeps it, if the clock it is given
\* is the manager's or a node's.
LEMMA MaintenanceKeepsFlushedLate ==
  ASSUME TypeOK, FlushedLate, NEW buckets \in Buckets, NEW now \in Int, NEW ok \in 0 .. 5,
         Maintenance(buckets, now, ok), clock' = clock,
         now <= clock \/ \E n \in Nodes : now <= clock + Skew[n]
  PROVE  FlushedLate'
<1>1. PICK ready \in SUBSET Keys :
        /\ \A k \in ready : Closed(1, k[1], now) /\ buckets[k] # {}
        /\ \A k \in Keys : rows'[1][k] # {} => rows[1][k] # {} \/ k \in ready
  <2>1. rows \in [Tiers -> Buckets] /\ lost \in SUBSET Keys
    BY DEF TypeOK, Buckets
  <2> QED BY <2>1, MaintenanceEffect
<1>2. ASSUME NEW k \in Keys, k \in ready
      PROVE  \/ k[1] + 2 * Width[1] <= clock
             \/ \E n \in Nodes : k[1] + 2 * Width[1] <= clock + Skew[n]
  <2>1. k[1] + Width[1] <= now - Width[1]
    BY <1>1, <1>2 DEF Closed
  <2>2. k[1] \in Int /\ Width[1] \in Int /\ clock \in Int /\ \A n \in Nodes : Skew[n] \in Int
    BY KeyType, SinkAssumption, SMTT(30) DEF TypeOK, Times, Tiers
  <2>3. k[1] + 2 * Width[1] <= now
    BY <2>1, <2>2
  <2> HIDE DEF Tiers
  <2> QED BY <2>2, <2>3
<1> QED BY <1>1, <1>2 DEF FlushedLate

\* The bucket of the snapshot at the head of the queue has no row yet.
LEMMA HeadNotFlushed ==
  ASSUME ClocksAgree, TypeOK, SinkInv, queue # << >>
  PROVE  rows[1][<<Start(1, Head(queue).at), Head(queue).node>>] = {}
<1> DEFINE m == Head(queue)
           s == Start(1, m.at)
           d == Skew[m.node]
           w == Width[1]
<1>1. m \in [node: Nodes, at: Times] /\ m = queue[1] /\ 1 \in 1 .. Len(queue)
  BY HeadType, FirstIsHead DEF TypeOK
<1>2. <<s, m.node>> \in Keys /\ s \in Int /\ m.at < s + w
  BY <1>1, KeyOf, StartBounds
<1>3. clock <= m.at - d + Patience
  BY <1>1 DEF SinkInv, QueueFresh
<1>4. Patience - d <= w /\ \A n \in Nodes : Skew[n] - d + Patience <= w
  BY <1>1 DEF ClocksAgree
<1>5. /\ clock \in Int /\ m.at \in Int /\ w \in Int /\ Patience \in Int /\ d \in Int
      /\ \A n \in Nodes : Skew[n] \in Int
  <2>1. \A n \in Nodes : Skew[n] \in Int
    BY SinkAssumption
  <2>2. w \in Int /\ Patience \in Int
    BY SinkAssumption DEF Tiers
  <2>3. clock \in Int /\ m.at \in Int /\ m.node \in Nodes
    BY <1>1 DEF TypeOK, Times
  <2> QED BY <2>1, <2>2, <2>3
<1>6. rows[1][<<s, m.node>>] # {} =>
        s + 2 * w <= clock \/ \E n \in Nodes : s + 2 * w <= clock + Skew[n]
  BY <1>2 DEF SinkInv, FlushedLate
<1> HIDE DEF s, m, d, w
<1>7. ~(s + 2 * w <= clock)
  BY <1>2, <1>3, <1>4, <1>5
<1>8. ASSUME NEW n \in Nodes PROVE ~(s + 2 * w <= clock + Skew[n])
  <2> DEFINE e == Skew[n]
  <2>1. e - d + Patience <= w /\ e \in Int
    BY <1>4, <1>5
  <2> HIDE DEF e
  <2>2. ~(s + 2 * w <= clock + e)
    BY <1>2, <1>3, <1>5, <2>1
  <2> QED BY <2>2 DEF e
<1>9. rows[1][<<s, m.node>>] = {}
  BY <1>6, <1>7, <1>8
<1> QED BY <1>9 DEF s, m

\* WrittenIn, and what a bucket in memory or in its row holds, as functions of
\* what was written and lost.
Writes == [Nodes -> SUBSET Times]
WrittenBy(w, t, k) == {at \in w[k[2]] : Start(t, at) = k[1]}
Added(w, n, at) == [w EXCEPT ![n] = @ \cup {at}]

\* The samples of a key that lost nothing are all in memory or all in its row.
Placed(w, l, buckets, row) ==
  \A k \in Keys \ l :
    \/ buckets[k] = WrittenBy(w, 1, k) /\ row[k] = {}
    \/ row[k] = WrittenBy(w, 1, k) /\ buckets[k] = {}

\* InOnePlace, of what is written and lost now.
LEMMA InOnePlaceIs ==
  SinkInv => Placed(written, lost, open, rows[1])
BY DEF SinkInv, InOnePlace, Placed, WrittenIn, WrittenBy

\* The snapshot at the head of the queue joins the others of its bucket in memory.
LEMMA HeadIsPlaced ==
  ASSUME ClocksAgree, TypeOK, SinkInv, queue # << >>,
         NEW v, v = [written EXCEPT ![Head(queue).node] = @ \cup {Head(queue).at}]
  PROVE  Placed(v, lost, Accumulated(open, Head(queue).node, Head(queue).at), rows[1])
<1> PICK m : m = Head(queue)
  OBVIOUS
<1> DEFINE b    == Accumulated(open, m.node, m.at)
           mine == <<Start(1, m.at), m.node>>
<1>1. m \in [node: Nodes, at: Times]
  BY HeadType DEF TypeOK
<1>2. open \in Buckets /\ mine \in Keys /\ written \in Writes
  BY <1>1, KeyOf DEF TypeOK, Buckets, Writes
<1>3. b[mine] = open[mine] \cup {m.at} /\ \A k \in Keys : k # mine => b[k] = open[k]
  BY <1>2 DEF Accumulated, Buckets
<1>4. rows[1][mine] = {}
  BY HeadNotFlushed
<1>5. v[m.node] = written[m.node] \cup {m.at} /\ \A n \in Nodes : n # m.node => v[n] = written[n]
  BY <1>1, <1>2 DEF Writes
<1>6. ASSUME NEW k \in Keys, k = mine PROVE WrittenBy(v, 1, k) = WrittenBy(written, 1, k) \cup {m.at}
  BY <1>5, <1>6 DEF WrittenBy
<1>7. ASSUME NEW k \in Keys, k # mine PROVE WrittenBy(v, 1, k) = WrittenBy(written, 1, k)
  <2>1. CASE k[2] = m.node
    <3>1. k[1] # Start(1, m.at)
      BY <1>7, <2>1 DEF Keys
    <3> QED BY <1>5, <2>1, <3>1 DEF WrittenBy
  <2>2. CASE k[2] # m.node
    BY <1>5, <2>2, KeyType DEF WrittenBy
  <2> QED BY <2>1, <2>2
<1>8. \A k \in Keys \ lost :
        \/ open[k] = WrittenBy(written, 1, k) /\ rows[1][k] = {}
        \/ rows[1][k] = WrittenBy(written, 1, k) /\ open[k] = {}
  BY InOnePlaceIs DEF Placed
<1> HIDE DEF b, mine
<1>9. ASSUME NEW k \in Keys, k \notin lost
      PROVE  \/ b[k] = WrittenBy(v, 1, k) /\ rows[1][k] = {}
             \/ rows[1][k] = WrittenBy(v, 1, k) /\ b[k] = {}
  <2>1. CASE k = mine
    <3>1. open[k] = WrittenBy(written, 1, k)
      BY <1>4, <1>8, <1>9, <2>1
    <3> QED BY <1>3, <1>4, <1>6, <1>9, <2>1, <3>1
  <2>2. CASE k # mine
    BY <1>3, <1>7, <1>8, <1>9, <2>2
  <2> QED BY <2>1, <2>2
<1> QED BY <1>9 DEF Placed, b

LEMMA WorkKeepsSinkInv ==
  ASSUME ClocksAgree, TypeOK, SinkInv, NEW ok \in 0 .. 5, Work(ok)
  PROVE  SinkInv'
<1> PICK m : m = Head(queue)
  OBVIOUS
<1> DEFINE now == Later(clock, m.at)
           b   == Accumulated(open, m.node, m.at)
<1>0. /\ queue # << >> /\ queue' = Tail(queue) /\ clock' = clock
      /\ written' = [written EXCEPT ![m.node] = @ \cup {m.at}]
      /\ Maintenance(b, now, ok)
  BY DEF Work
<1>1. m \in [node: Nodes, at: Times] /\ m = queue[1] /\ 1 \in 1 .. Len(queue)
  BY <1>0, HeadType, FirstIsHead DEF TypeOK
<1>2. open \in Buckets /\ rows \in [Tiers -> Buckets] /\ lost \in SUBSET Keys /\ clock \in Int
  BY DEF TypeOK, Buckets, Times
<1>3. b \in Buckets /\ now \in Int
  BY <1>1, <1>2, AccumulatedType DEF Later, Times
<1>4. QueueFresh'
  <2>1. ASSUME NEW i \in 1 .. Len(Tail(queue))
        PROVE  /\ clock <= Tail(queue)[i].at - Skew[Tail(queue)[i].node] + Patience
               /\ Tail(queue)[i].at <= clock + Skew[Tail(queue)[i].node]
    BY <1>0, TailShifts DEF TypeOK, SinkInv, QueueFresh
  <2> QED BY <1>0, <2>1 DEF QueueFresh
<1>5. FlushedLate'
  <2>1. m.at <= clock + Skew[m.node]
    BY <1>1 DEF SinkInv, QueueFresh
  <2>2. now <= clock \/ now <= clock + Skew[m.node]
    BY <1>2, <2>1 DEF Later
  <2> QED BY <1>0, <1>1, <1>3, <2>2, MaintenanceKeepsFlushedLate DEF SinkInv
<1>6. InOnePlace'
  <2>1. PICK ready \in SUBSET Keys :
          /\ \A k \in ready : Closed(1, k[1], now) /\ b[k] # {}
          /\ open' = Without(b, ready)
          /\ \A k \in Keys \ lost' :
               rows'[1][k] = IF k \in ready THEN b[k] ELSE rows[1][k]
    BY <1>0, <1>2, <1>3, MaintenanceEffect
  <2>2. lost' \in SUBSET Keys /\ lost \subseteq lost'
    BY <1>0, <1>2, <1>3, MaintenanceEffect
  <2>3. Placed(written', lost, b, rows[1])
    BY <1>0, HeadIsPlaced DEF Added
  <2>4. \A k \in Keys : WrittenIn(1, k)' = WrittenBy(written', 1, k)
    BY DEF WrittenIn, WrittenBy
  <2> HIDE DEF b, now
  <2>5. ASSUME NEW k \in Keys, k \notin lost'
        PROVE  \/ open'[k] = WrittenIn(1, k)' /\ rows'[1][k] = {}
               \/ rows'[1][k] = WrittenIn(1, k)' /\ open'[k] = {}
    <3>1. open'[k] = IF k \in ready THEN {} ELSE b[k]
      BY <2>1 DEF Without
    <3>2. \/ b[k] = WrittenIn(1, k)' /\ rows[1][k] = {}
          \/ rows[1][k] = WrittenIn(1, k)' /\ b[k] = {}
      BY <2>2, <2>3, <2>4, <2>5 DEF Placed
    <3> QED BY <2>1, <2>5, <3>1, <3>2
  <2> QED BY <2>5 DEF InOnePlace
<1> QED BY <1>4, <1>5, <1>6 DEF SinkInv

\* The other steps that can disturb SinkInv.
LEMMA IdleKeepsSinkInv ==
  ASSUME TypeOK, SinkInv, NEW ok \in 0 .. 5, Idle(ok)
  PROVE  SinkInv'
<1>0. Maintenance(open, clock, ok) /\ clock' = clock /\ queue' = queue /\ written' = written
  BY DEF Idle
<1>1. open \in Buckets /\ rows \in [Tiers -> Buckets] /\ lost \in SUBSET Keys /\ clock \in Int
  BY DEF TypeOK, Buckets, Times
<1>2. QueueFresh'
  BY <1>0 DEF SinkInv, QueueFresh
<1>3. FlushedLate'
  <2>1. clock <= clock
    BY <1>1
  <2> QED BY <1>0, <1>1, <2>1, MaintenanceKeepsFlushedLate DEF SinkInv
<1>4. InOnePlace'
  <2>1. PICK ready \in SUBSET Keys :
          /\ \A k \in ready : open[k] # {}
          /\ open' = Without(open, ready)
          /\ \A k \in Keys \ lost' :
               rows'[1][k] = IF k \in ready THEN open[k] ELSE rows[1][k]
    BY <1>0, <1>1, MaintenanceEffect
  <2>2. lost \subseteq lost'
    BY <1>0, <1>1, MaintenanceEffect
  <2>3. ASSUME NEW k \in Keys, k \notin lost'
        PROVE  \/ open'[k] = WrittenIn(1, k)' /\ rows'[1][k] = {}
               \/ rows'[1][k] = WrittenIn(1, k)' /\ open'[k] = {}
    <3>1. open'[k] = IF k \in ready THEN {} ELSE open[k]
      BY <2>1 DEF Without
    <3>2. WrittenIn(1, k)' = WrittenIn(1, k)
      BY <1>0 DEF WrittenIn
    <3> QED BY <2>1, <2>2, <2>3, <3>1, <3>2 DEF SinkInv, InOnePlace
  <2> QED BY <2>3 DEF InOnePlace
<1> QED BY <1>2, <1>3, <1>4 DEF SinkInv

LEMMA RestartKeepsSinkInv ==
  ASSUME TypeOK, SinkInv, NEW graceful \in BOOLEAN, Restart(graceful)
  PROVE  SinkInv'
<1>0. clock' = clock /\ written' = written /\ queue' = << >>
  BY DEF Restart
<1>1. open \in Buckets /\ rows \in [Tiers -> Buckets] /\ clock \in Int
  BY DEF TypeOK, Buckets, Times
<1>2. PICK ready \in SUBSET Keys :
        /\ \A k \in ready : open[k] # {} /\ Closed(1, k[1], clock)
        /\ rows' = Upserted(rows, open, ready)
        /\ open' = [k \in Keys |-> {}]
        /\ lost' = lost \cup {k \in Keys \ ready : open[k] # {}}
  <2> DEFINE ready == IF graceful THEN Ready(open, clock) ELSE {}
  <2>1. /\ ready \in SUBSET Keys
        /\ \A k \in ready : open[k] # {} /\ Closed(1, k[1], clock)
    BY DEF Ready
  <2>2. /\ rows' = Upserted(rows, open, ready)
        /\ open' = [k \in Keys |-> {}]
        /\ lost' = lost \cup {k \in Keys \ ready : open[k] # {}}
    BY DEF Restart, NoRows
  <2> HIDE DEF ready
  <2> QED BY <2>1, <2>2
<1>3. \A k \in Keys : rows'[1][k] = IF k \in ready THEN open[k] ELSE rows[1][k]
  BY <1>1, <1>2, UpsertedType
<1>4. QueueFresh'
  BY <1>0 DEF QueueFresh
<1>5. FlushedLate'
  <2>1. ASSUME NEW k \in Keys, k \in ready PROVE k[1] + 2 * Width[1] <= clock
    <3>1. k[1] + Width[1] <= clock - Width[1]
      BY <1>2, <2>1 DEF Closed
    <3>2. k[1] \in Int /\ Width[1] \in Int
      BY KeyType, SinkAssumption DEF Tiers
    <3> QED BY <1>1, <3>1, <3>2
  <2> QED BY <1>0, <1>3, <2>1 DEF SinkInv, FlushedLate
<1>6. InOnePlace'
  <2>1. ASSUME NEW k \in Keys, k \notin lost'
        PROVE  \/ open'[k] = WrittenIn(1, k)' /\ rows'[1][k] = {}
               \/ rows'[1][k] = WrittenIn(1, k)' /\ open'[k] = {}
    <3>1. WrittenIn(1, k)' = WrittenIn(1, k)
      BY <1>0 DEF WrittenIn
    <3>2. k \notin lost /\ (k \in ready \/ open[k] = {}) /\ open'[k] = {}
      BY <1>2, <2>1
    <3> QED BY <1>2, <1>3, <2>1, <3>1, <3>2 DEF SinkInv, InOnePlace
  <2> QED BY <2>1 DEF InOnePlace
<1> QED BY <1>4, <1>5, <1>6 DEF SinkInv

LEMMA MaintainKeepsSinkInv ==
  ASSUME TypeOK, SinkInv, Maintain
  PROVE  SinkInv'
<1>0. clock' = clock /\ written' = written /\ queue' = queue /\ open' = open
  BY MaintainType
<1>1. /\ lost \subseteq lost'
      /\ \A k \in Keys : \/ rows'[1][k] = rows[1][k]
                        \/ (rows'[1][k] = {} /\ k \in lost')
  <2>0. rows \in [Tiers -> Buckets] /\ job.read \in Buckets
    BY DEF TypeOK, Buckets
  <2>1. CASE MaintainBegin \/ MaintainRead \/ MaintainFails
    BY <2>1 DEF MaintainBegin, MaintainRead, MaintainFails
  <2>2. CASE MaintainStore(2, "store2", "read3") \/ MaintainStore(3, "store3", "prune")
    <3>1. PICK t \in {2, 3} : rows' = Stored(rows, t, job.read) /\ lost' = lost
      BY <2>2 DEF MaintainStore
    <3>2. rows'[1] = rows[1]
      BY <2>0, <3>1, StoredType
    <3> QED BY <3>1, <3>2
  <2>3. CASE MaintainPrune
    <3>1. rows' = Pruned(rows, job.now) /\ lost' = lost \cup PrunedKeys(rows, job.now)
      BY <2>3 DEF MaintainPrune
    <3>2. \A k \in Keys : rows'[1][k] = IF k \in Expired(1, job.now) THEN {} ELSE rows[1][k]
      BY <3>1 DEF Pruned, Tiers
    <3> QED BY <3>1, <3>2 DEF PrunedKeys
  <2> QED BY <2>1, <2>2, <2>3 DEF Maintain, MaintainGoesOn
<1>3. QueueFresh'
  BY <1>0 DEF SinkInv, QueueFresh
<1>4. FlushedLate'
  BY <1>0, <1>1 DEF SinkInv, FlushedLate
<1>5. InOnePlace'
  <2>1. ASSUME NEW k \in Keys, k \notin lost'
        PROVE  \/ open'[k] = WrittenIn(1, k)' /\ rows'[1][k] = {}
               \/ rows'[1][k] = WrittenIn(1, k)' /\ open'[k] = {}
    <3>1. WrittenIn(1, k)' = WrittenIn(1, k) /\ open'[k] = open[k]
      BY <1>0 DEF WrittenIn
    <3>2. k \notin lost /\ rows'[1][k] = rows[1][k]
      BY <1>1, <2>1
    <3> QED BY <3>1, <3>2 DEF SinkInv, InOnePlace
  <2> QED BY <2>1 DEF InOnePlace
<1> QED BY <1>3, <1>4, <1>5 DEF SinkInv

\* The invariant behind both theorems on rows.
LEMMA SinkInvHolds == ClocksAgree => (Spec => []SinkInv)
<1> SUFFICES ASSUME ClocksAgree PROVE Spec => []SinkInv
  OBVIOUS
<1>1. Init => SinkInv
  BY InitSinkInv
<1>2. TypeOK /\ SinkInv /\ [Next]_vars => SinkInv'
  <2> SUFFICES ASSUME TypeOK, SinkInv, [Next]_vars PROVE SinkInv'
    OBVIOUS
  <2>1. CASE \E n \in Nodes, at \in Times : Submit(n, at)
    <3> PICK n \in Nodes, at \in Times : Submit(n, at)
      BY <2>1
    <3>1. QueueFresh'
      <4> DEFINE Item == [node: Nodes, at: Times]
      <4>1. clock <= at - Skew[n] + Patience /\ at <= clock + Skew[n] /\ clock' = clock
        BY DEF Submit
      <4>2. queue' = queue \/ queue' = Append(queue, [node |-> n, at |-> at])
        BY DEF Submit
      <4>3. queue \in Seq(Item)
        BY DEF TypeOK
      <4> HIDE DEF Item
      <4>4. ASSUME NEW i \in 1 .. Len(queue')
            PROVE  \/ i \in 1 .. Len(queue) /\ queue'[i] = queue[i]
                   \/ queue'[i] = [node |-> n, at |-> at]
        BY <4>2, <4>3
      <4> QED BY <4>1, <4>4 DEF SinkInv, QueueFresh
    <3>2. FlushedLate' /\ InOnePlace'
      BY DEF Submit, SinkInv, FlushedLate, InOnePlace, WrittenIn
    <3> QED BY <3>1, <3>2 DEF SinkInv
  <2>2. CASE \E ok \in 0 .. 5 : Work(ok)
    BY <2>2, WorkKeepsSinkInv
  <2>3. CASE \E ok \in 0 .. 5 : Idle(ok)
    BY <2>3, IdleKeepsSinkInv
  <2>4. CASE WorkFails
    <3>1. clock' = clock /\ queue # << >> /\ queue' = Tail(queue)
      BY <2>4 DEF WorkFails
    <3>2. QueueFresh'
      <4>1. ASSUME NEW i \in 1 .. Len(Tail(queue))
            PROVE  /\ clock <= Tail(queue)[i].at - Skew[Tail(queue)[i].node] + Patience
                   /\ Tail(queue)[i].at <= clock + Skew[Tail(queue)[i].node]
        BY <3>1, TailShifts DEF TypeOK, SinkInv, QueueFresh
      <4> QED BY <3>1, <4>1 DEF QueueFresh
    <3>3. FlushedLate' /\ InOnePlace'
      BY <2>4 DEF WorkFails, SinkInv, FlushedLate, InOnePlace, WrittenIn
    <3> QED BY <3>2, <3>3 DEF SinkInv
  <2>5. CASE \E graceful \in BOOLEAN : Restart(graceful)
    BY <2>5, RestartKeepsSinkInv
  <2>6. CASE Maintain
    BY <2>6, MaintainKeepsSinkInv
  <2>7. CASE Tick
    <3>1. QueueFresh'
      <4>1. clock \in Int /\ clock' = clock + 1 /\ queue' = queue
        BY <2>7 DEF Tick, TypeOK, Times
      <4>2. ASSUME NEW i \in 1 .. Len(queue)
            PROVE  /\ clock' <= queue[i].at - Skew[queue[i].node] + Patience
                   /\ queue[i].at <= clock' + Skew[queue[i].node]
        <5>1. queue[i] \in [node: Nodes, at: Times]
          <6> DEFINE Item == [node: Nodes, at: Times]
          <6>1. queue \in Seq(Item)
            BY DEF TypeOK
          <6> HIDE DEF Item
          <6>2. queue[i] \in Item
            BY <6>1
          <6> QED BY <6>2 DEF Item
        <5>2. queue[i].at \in Int /\ Skew[queue[i].node] \in Int
          BY <5>1, SinkAssumption, SMTT(30) DEF Times
        <5>3. clock + 1 <= queue[i].at - Skew[queue[i].node] + Patience
          BY <2>7 DEF Tick
        <5>4. queue[i].at <= clock + Skew[queue[i].node]
          BY DEF SinkInv, QueueFresh
        <5> QED BY <4>1, <5>2, <5>3, <5>4
      <4> QED BY <4>1, <4>2 DEF QueueFresh
    <3>2. FlushedLate'
      <4>1. clock \in Int /\ clock' = clock + 1 /\ rows' = rows
        BY <2>7 DEF Tick, TypeOK, Times
      <4>2. Width[1] \in Int /\ \A n \in Nodes : Skew[n] \in Int
        BY SinkAssumption DEF Tiers
      <4> QED BY <4>1, <4>2, KeyType DEF SinkInv, FlushedLate
    <3>3. InOnePlace'
      BY <2>7 DEF Tick, SinkInv, InOnePlace, WrittenIn
    <3> QED BY <3>1, <3>2, <3>3 DEF SinkInv
  <2>8. CASE UNCHANGED vars
    BY <2>8 DEF vars, SinkInv, QueueFresh, FlushedLate, InOnePlace, WrittenIn
  <2> QED BY <2>1, <2>2, <2>3, <2>4, <2>5, <2>6, <2>7, <2>8 DEF Next, Worker
<1> QED BY <1>1, <1>2, TypeCorrect, PTL DEF Spec

\* For every number of nodes and any widths, periods and skews that agree:
\* whatever fails, and whenever the manager restarts, the 20s row of a bucket
\* that lost nothing sums up every sample written for it (db.py, _worker,
\* _accumulate_snapshot, flush_rollups).
THEOREM RowsAreComplete == ClocksAgree => (Spec => []RowsComplete)
<1>1. SinkInv => RowsComplete
  BY DEF SinkInv, InOnePlace, RowsComplete
<1> QED BY <1>1, SinkInvHolds, PTL
----------------------------------------------------------------------------
(* 2m and 1h rows *)

\* Products and quotients.
LEMMA MulUp ==
  ASSUME NEW v \in Nat \ {0}, NEW x \in Int, NEW y \in Int, x <= y
  PROVE  x * v <= y * v
<1>1. (y - x) * v >= 0
  BY Z3
<1>2. (y - x) * v = y * v - x * v
  BY Z3
<1>3. x * v \in Int /\ y * v \in Int
  OBVIOUS
<1> QED BY <1>1, <1>2, <1>3

LEMMA MulDown ==
  ASSUME NEW v \in Nat \ {0}, NEW x \in Int, NEW y \in Int, x * v < y * v
  PROVE  x < y
<1>1. x * v \in Int /\ y * v \in Int
  OBVIOUS
<1>2. y <= x => y * v <= x * v
  BY MulUp
<1> QED BY <1>1, <1>2

LEMMA DivIs ==
  ASSUME NEW v \in Nat \ {0}, NEW x \in Nat
  PROVE  /\ x \div v \in Nat
         /\ (x \div v) * v <= x
         /\ x < (x \div v + 1) * v
BY Z3

LEMMA DivUnique ==
  ASSUME NEW v \in Nat \ {0}, NEW x \in Nat, NEW q \in Nat, q * v <= x, x < (q + 1) * v
  PROVE  x \div v = q
<1> DEFINE p == x \div v
<1>1. p \in Nat /\ p * v <= x /\ x < (p + 1) * v
  BY DivIs
<1> HIDE DEF p
<1>2. p < q + 1
  <2>1. p * v < (q + 1) * v
    <3>1. p * v \in Int /\ (q + 1) * v \in Int
      BY <1>1
    <3> QED BY <1>1, <3>1
  <2> QED BY <1>1, <2>1, MulDown
<1>3. q < p + 1
  <2>1. q * v < (p + 1) * v
    <3>1. q * v \in Int /\ (p + 1) * v \in Int
      BY <1>1
    <3> QED BY <1>1, <3>1
  <2> QED BY <1>1, <2>1, MulDown
<1>4. p = q
  BY <1>1, <1>2, <1>3
<1> QED BY <1>4 DEF p

\* Buckets of w = c * v in those of v.
LEMMA Nested ==
  ASSUME NEW v \in Nat \ {0}, NEW c \in Nat \ {0}, NEW w \in Nat \ {0}, w = c * v, NEW x \in Nat
  PROVE  /\ (((x \div v) * v) \div w) * w = (x \div w) * w
         /\ (x \div v) * v + v <= (x \div w) * w + w
         /\ (((x \div w) * w) \div v) * v = (x \div w) * w
<1> DEFINE p == x \div v
           q == x \div w
           s == p * v
<1>1. p \in Nat /\ p * v <= x /\ x < (p + 1) * v
  BY DivIs
<1>2. q \in Nat /\ q * w <= x /\ x < (q + 1) * w
  BY DivIs
<1>3. q * w = (q * c) * v /\ (q + 1) * w = ((q + 1) * c) * v /\ q * c \in Nat /\ (q + 1) * c \in Nat
  <2>1. q \in Nat
    BY <1>2
  <2> HIDE DEF q
  <2>2. q * (c * v) = (q * c) * v /\ (q + 1) * (c * v) = ((q + 1) * c) * v
        /\ q * c \in Nat /\ (q + 1) * c \in Nat
    BY <2>1, Z3
  <2> QED BY <2>2
<1> HIDE DEF p, q
<1>4. q * c < p + 1
  <2>1. (q * c) * v < (p + 1) * v
    <3>1. (q * c) * v \in Int /\ (p + 1) * v \in Int
      BY <1>1, <1>3
    <3> QED BY <1>1, <1>2, <1>3, <3>1
  <2> QED BY <1>1, <1>3, <2>1, MulDown
<1>5. p < (q + 1) * c
  <2>1. p * v < ((q + 1) * c) * v
    <3>1. p * v \in Int /\ ((q + 1) * c) * v \in Int
      BY <1>1, <1>3
    <3> QED BY <1>1, <1>2, <1>3, <3>1
  <2> QED BY <1>1, <1>3, <2>1, MulDown
<1>6. q * w <= s
  <2>1. q * c <= p
    BY <1>1, <1>3, <1>4
  <2> QED BY <1>1, <1>3, <2>1, MulUp
<1>7. s + v <= (q + 1) * w
  <2>1. p + 1 <= (q + 1) * c
    BY <1>1, <1>3, <1>5
  <2>2. (p + 1) * v <= ((q + 1) * c) * v
    BY <1>1, <1>3, <2>1, MulUp
  <2>3. (p + 1) * v = s + v
    BY <1>1, Z3
  <2> QED BY <1>3, <2>2, <2>3
<1>8. s \in Nat /\ q * w \in Nat /\ (q + 1) * w = q * w + w /\ w \in Nat \ {0}
  BY <1>1, <1>2, Z3
<1>9. s \div w = q
  <2>1. s < (q + 1) * w
    BY <1>7, <1>8
  <2> HIDE DEF s
  <2> QED BY <1>2, <1>6, <1>8, <2>1, DivUnique
<1>10. (q * w) \div v = q * c
  <2>1. (q * c) * v <= q * w /\ q * w < (q * c + 1) * v
    <3>1. (q * c + 1) * v = (q * c) * v + v /\ (q * c) * v \in Int
      BY <1>3, Z3
    <3> QED BY <1>3, <3>1
  <2> QED BY <1>3, <1>8, <2>1, DivUnique
<1> QED BY <1>3, <1>7, <1>8, <1>9, <1>10 DEF p, q

\* Widths, and the start of a bucket.
LEMMA WidthType ==
  /\ \A t \in Tiers : Width[t] \in Nat \ {0}
  /\ Width[1] <= Width[2] /\ Width[2] <= Width[3]
<1>1. \A t \in Tiers : Width[t] \in Nat \ {0}
  BY SinkAssumption
<1>2. ASSUME NEW t \in {2, 3} PROVE Width[t - 1] <= Width[t]
  <2>1. PICK c \in 1 .. Width[t] : Width[t] = c * Width[t - 1]
    BY SinkAssumption
  <2>2. Width[t - 1] \in Nat \ {0} /\ c \in Int /\ 1 <= c /\ 1 \in Int
    BY <1>1, <2>1 DEF Tiers
  <2>3. 1 * Width[t - 1] <= c * Width[t - 1]
    BY <2>2, MulUp
  <2> QED BY <2>1, <2>2, <2>3
<1>3. Width[2 - 1] <= Width[2] /\ Width[3 - 1] <= Width[3]
  BY <1>2
<1> QED BY <1>1, <1>3

LEMMA StartOf ==
  ASSUME NEW t \in Tiers, NEW x \in Nat
  PROVE  /\ Start(t, x) \in Nat
         /\ Start(t, x) <= x
         /\ x < Start(t, x) + Width[t]
<1> DEFINE w == Width[t]
<1>1. w \in Nat \ {0}
  BY WidthType
<1> HIDE DEF w
<1>2. /\ (x \div w) * w \in Nat
      /\ (x \div w) * w <= x
      /\ x < (x \div w) * w + w
  BY <1>1, Z3
<1> QED BY <1>2 DEF Start, w

LEMMA StartStarts ==
  ASSUME NEW t \in Tiers, NEW x \in Nat
  PROVE  Start(t, Start(t, x)) = Start(t, x)
<1> PICK v \in Nat \ {0} : v = Width[t]
  BY WidthType
<1>1. (((x \div v) * v) \div v) * v = (x \div v) * v
  <2>1. v = 1 * v /\ 1 \in Nat \ {0}
    OBVIOUS
  <2> QED BY <2>1, Nested, ZenonT(40)
<1> QED BY <1>1 DEF Start

\* A bucket lies within one bucket of the next table.
LEMMA StartNests ==
  ASSUME NEW t \in {2, 3}, NEW x \in Nat
  PROVE  /\ Start(t, Start(t - 1, x)) = Start(t, x)
         /\ Start(t - 1, x) + Width[t - 1] <= Start(t, x) + Width[t]
         /\ Start(t - 1, Start(t, x)) = Start(t, x)
<1>1. PICK c \in 1 .. Width[t] : Width[t] = c * Width[t - 1]
  BY SinkAssumption
<1>2. Width[t - 1] \in Nat \ {0} /\ c \in Nat \ {0} /\ Width[t] \in Nat \ {0}
  BY <1>1, WidthType DEF Tiers
<1>3. PICK v \in Nat \ {0}, w \in Nat \ {0} : v = Width[t - 1] /\ w = Width[t]
  BY <1>2
<1>4. w = c * v /\ c \in Nat \ {0}
  BY <1>1, <1>2, <1>3
<1>5. /\ (((x \div v) * v) \div w) * w = (x \div w) * w
      /\ (x \div v) * v + v <= (x \div w) * w + w
      /\ (((x \div w) * w) \div v) * v = (x \div w) * w
  BY <1>3, <1>4, Nested, ZenonT(40)
<1> QED BY <1>3, <1>5 DEF Start

\* And so does a 20s bucket within one of any coarse table.
LEMMA FirstNests ==
  ASSUME NEW t \in {2, 3}, NEW x \in Nat
  PROVE  /\ Start(t, Start(1, x)) = Start(t, x)
         /\ Start(1, x) + Width[1] <= Start(t, x) + Width[t]
<1>1. /\ Start(2, Start(2 - 1, x)) = Start(2, x)
      /\ Start(2 - 1, x) + Width[2 - 1] <= Start(2, x) + Width[2]
  BY StartNests
<1>2. CASE t = 2
  BY <1>1, <1>2
<1>3. CASE t = 3
  <2> DEFINE y == Start(1, x)
             z == Start(2, x)
  <2>1. y \in Nat /\ z \in Nat /\ Start(3, x) \in Nat /\ Start(2, y) = z /\ y + Width[1] <= z + Width[2]
    BY <1>1, StartOf DEF Tiers
  <2>2. /\ Start(3, Start(3 - 1, x)) = Start(3, x)
        /\ Start(3 - 1, x) + Width[3 - 1] <= Start(3, x) + Width[3]
    BY StartNests
  <2>3. Start(3, Start(3 - 1, y)) = Start(3, y)
    BY <2>1, StartNests
  <2>4. Width[1] \in Nat /\ Width[2] \in Nat /\ Width[3] \in Nat
    BY WidthType DEF Tiers
  <2>5. Start(3, z) = Start(3, x) /\ z + Width[2] <= Start(3, x) + Width[3] /\ Start(3, y) = Start(3, z)
    BY <2>1, <2>2, <2>3
  <2> HIDE DEF y, z
  <2>6. Start(3, y) = Start(3, x) /\ y + Width[1] <= Start(3, x) + Width[3]
    BY <2>1, <2>4, <2>5
  <2> QED BY <1>3, <2>6 DEF y
<1> QED BY <1>2, <1>3

\* The start of a coarse bucket starts a 20s bucket, too.
LEMMA StartInStarts ==
  ASSUME NEW t \in Tiers, NEW at \in Times
  PROVE  Start(t, at) \in Starts
<1> DEFINE y == Start(t, at)
<1>1. y \in Times /\ y \in Nat /\ at \in Nat
  <2>1. MaxTime \in Nat /\ at \in Nat /\ at <= MaxTime
    BY SinkAssumption DEF Times
  <2>2. Start(t, at) \in Nat /\ Start(t, at) <= at
    BY <2>1, StartOf
  <2> QED BY <2>1, <2>2 DEF Times
<1>2. Start(1, y) = y \/ t = 1
  <2>1. CASE t = 2
    <3>1. Start(2 - 1, Start(2, at)) = Start(2, at)
      BY <1>1, StartNests
    <3> QED BY <2>1, <3>1
  <2>2. CASE t = 3
    <3>1. Start(3 - 1, y) = y
      BY <1>1, <2>2, StartNests
    <3>2. Start(2 - 1, Start(2, y)) = Start(2, y)
      BY <1>1, StartNests
    <3> QED BY <3>1, <3>2
  <2> QED BY <2>1, <2>2 DEF Tiers
<1> QED BY <1>1, <1>2 DEF Starts

\* A coarse bucket of which no 20s key is lost.
Whole(l, t, k) == \A f \in l : f[2] # k[2] \/ Start(t, f[1]) # k[1]

\* The rows of a table are complete, and there is one for all that was over by now.
Good(w, l, t, row) == \A k \in Keys : row[k] # {} /\ Whole(l, t, k) => row[k] = WrittenBy(w, t, k)
Covers(w, l, row, now) ==
  \A k \in Keys : WrittenBy(w, 2, k) # {} /\ Whole(l, 2, k) /\ k[1] + 2 * Width[2] <= now => row[k] # {}

\* What is in memory is no part of a 2m bucket that is closed.
Flushed(buckets, now) == \A k \in Keys : buckets[k] # {} => now < k[1] + Width[1] + Width[2]

\* A row is of a bucket that was closed at some time, or by some clock.
Ripe(t, row, now) == \A k \in Keys : row[k] # {} => k[1] + 2 * Width[t] <= now
Past(c, now) == now <= c \/ \E n \in Nodes : now <= c + Skew[n]
Late(c, t, row) == \A k \in Keys : row[k] # {} => Past(c, k[1] + 2 * Width[t])

\* What is closed by some time, and by all later ones.
LEMMA ClosedIs ==
  ASSUME NEW t \in Tiers, NEW k \in Keys, NEW now \in Int
  PROVE  Closed(t, k[1], now) <=> k[1] + 2 * Width[t] <= now
BY KeyType, WidthType DEF Closed

LEMMA PastBefore ==
  ASSUME TypeOK, NEW now \in Int, Past(clock, now), NEW x \in Int, x <= now
  PROVE  Past(clock, x)
<1>1. clock \in Int /\ \A n \in Nodes : clock + Skew[n] \in Int
  BY SinkAssumption DEF TypeOK, Times
<1>2. CASE now <= clock
  BY <1>1, <1>2 DEF Past
<1>3. ASSUME NEW n \in Nodes, now <= clock + Skew[n] PROVE Past(clock, x)
  <2>1. clock + Skew[n] \in Int
    BY <1>1
  <2>2. PICK y \in Int : y = clock + Skew[n]
    BY <2>1
  <2>3. x <= y
    BY <1>3, <2>2
  <2> QED BY <2>2, <2>3 DEF Past
<1> QED BY <1>2, <1>3 DEF Past

LEMMA RipeIsLate ==
  ASSUME TypeOK, NEW t \in Tiers, NEW row, NEW now \in Int, Past(clock, now), Ripe(t, row, now)
  PROVE  Late(clock, t, row)
<1>1. ASSUME NEW k \in Keys, row[k] # {} PROVE Past(clock, k[1] + 2 * Width[t])
  <2>1. k[1] + 2 * Width[t] \in Int /\ k[1] + 2 * Width[t] <= now
    BY <1>1, KeyType, WidthType DEF Ripe
  <2> QED BY <2>1, PastBefore
<1> QED BY <1>1 DEF Late

\* The rows of a finer table that are all complete make up the coarse bucket.
LEMMA FinerIsWritten ==
  ASSUME NEW w \in Writes, NEW t \in {2, 3}, NEW k \in Keys, NEW table,
         \A s \in Starts : Start(t, s) = k[1] =>
           table[t - 1][<<s, k[2]>>] = WrittenBy(w, t - 1, <<s, k[2]>>)
  PROVE  Finer(table, t, k) = WrittenBy(w, t, k)
<1>0. k[2] \in Nodes /\ w[k[2]] \subseteq Times /\ t - 1 \in Tiers
  BY KeyType DEF Writes, Tiers
<1>1. ASSUME NEW at, at \in Finer(table, t, k) PROVE at \in WrittenBy(w, t, k)
  <2>1. PICK s \in Starts : Start(t, s) = k[1] /\ at \in table[t - 1][<<s, k[2]>>]
    BY <1>1 DEF Finer
  <2>2. at \in w[k[2]] /\ Start(t - 1, at) = s
    BY <2>1 DEF WrittenBy
  <2>3. at \in Nat
    BY <1>0, <2>2, SinkAssumption DEF Times
  <2>4. Start(t, at) = k[1]
    BY <2>1, <2>2, <2>3, StartNests
  <2> QED BY <2>2, <2>4 DEF WrittenBy
<1>2. ASSUME NEW at, at \in WrittenBy(w, t, k) PROVE at \in Finer(table, t, k)
  <2>1. at \in w[k[2]] /\ Start(t, at) = k[1] /\ at \in Times
    BY <1>0, <1>2 DEF WrittenBy
  <2>2. at \in Nat
    BY <2>1, SinkAssumption DEF Times
  <2> DEFINE s == Start(t - 1, at)
  <2>3. s \in Starts /\ Start(t, s) = k[1]
    BY <1>0, <2>1, <2>2, StartInStarts, StartNests
  <2>4. at \in WrittenBy(w, t - 1, <<s, k[2]>>)
    BY <2>1 DEF WrittenBy
  <2> HIDE DEF s
  <2>5. at \in table[t - 1][<<s, k[2]>>] /\ s \in {x \in Starts : Start(t, x) = k[1]}
    BY <2>3, <2>4
  <2> QED BY <2>5 DEF Finer
<1> QED BY <1>1, <1>2

\* The SELECT of the 2m rollup, when no 20s bucket it needs is in memory.
LEMMA ReadTwo ==
  ASSUME NEW w \in Writes, NEW l \in SUBSET Keys, NEW table, NEW buckets, NEW now \in Int,
         Placed(w, l, buckets, table[1]), Flushed(buckets, now)
  PROVE  /\ Good(w, l, 2, Read(table, 2, now))
         /\ Covers(w, l, Read(table, 2, now), now)
         /\ Ripe(2, Read(table, 2, now), now)
<1>1. ASSUME NEW k \in Keys, Whole(l, 2, k), k[1] + 2 * Width[2] <= now
      PROVE  Finer(table, 2, k) = WrittenBy(w, 2, k)
  <2>1. ASSUME NEW s \in Starts, Start(2, s) = k[1]
        PROVE  table[1][<<s, k[2]>>] = WrittenBy(w, 1, <<s, k[2]>>)
    <3>1. <<s, k[2]>> \in Keys
      BY KeyType DEF Keys
    <3>2. <<s, k[2]>> \notin l
      BY <1>1, <2>1 DEF Whole
    <3>3. PICK at \in Times : s = Start(1, at)
      BY DEF Starts
    <3>4. at \in Nat
      BY SinkAssumption DEF Times
    <3>5. s + Width[1] <= k[1] + Width[2]
      <4>1. Start(2, Start(2 - 1, at)) = Start(2, at)
            /\ Start(2 - 1, at) + Width[2 - 1] <= Start(2, at) + Width[2]
        BY <3>4, StartNests
      <4> QED BY <2>1, <3>3, <4>1
    <3>6. ~(now < s + Width[1] + Width[2])
      <4>1. s \in Int /\ k[1] \in Int /\ Width[1] \in Int /\ Width[2] \in Int
        BY <3>3, <3>4, StartOf, KeyType, WidthType DEF Tiers
      <4> QED BY <1>1, <3>5, <4>1
    <3>7. buckets[<<s, k[2]>>] = {}
      BY <3>1, <3>6 DEF Flushed
    <3> QED BY <3>1, <3>2, <3>7 DEF Placed
  <2>2. 2 - 1 = 1
    OBVIOUS
  <2> QED BY <2>1, <2>2, FinerIsWritten
<1>2. ASSUME NEW k \in Keys
      PROVE  Read(table, 2, now)[k] = IF k[1] + 2 * Width[2] <= now THEN Finer(table, 2, k) ELSE {}
  BY ClosedIs DEF Read, Tiers
<1> QED BY <1>1, <1>2 DEF Good, Covers, Ripe

\* The SELECT of the 1h rollup, when the 2m rows go up to `by`.
LEMMA ReadThree ==
  ASSUME NEW w \in Writes, NEW l \in SUBSET Keys, NEW table, NEW now \in Int, NEW by \in Int,
         Good(w, l, 2, table[2]), Covers(w, l, table[2], by), now - Width[3] + Width[2] <= by
  PROVE  /\ Good(w, l, 3, Read(table, 3, now))
         /\ Ripe(3, Read(table, 3, now), now)
<1>1. ASSUME NEW k \in Keys, Whole(l, 3, k), k[1] + 2 * Width[3] <= now
      PROVE  Finer(table, 3, k) = WrittenBy(w, 3, k)
  <2>1. ASSUME NEW s \in Starts, Start(3, s) = k[1]
        PROVE  table[2][<<s, k[2]>>] = WrittenBy(w, 2, <<s, k[2]>>)
    <3> DEFINE g == <<s, k[2]>>
    <3>1. g \in Keys /\ g[1] = s /\ g[2] = k[2]
      BY KeyType DEF Keys
    <3>2. Whole(l, 2, g)
      <4>1. ASSUME NEW f \in l, f[2] = k[2], Start(2, f[1]) = s PROVE FALSE
        <5>1. f[1] \in Nat
          BY KeyType
        <5>2. Start(3, Start(3 - 1, f[1])) = Start(3, f[1])
          BY <5>1, StartNests
        <5>3. Start(3, f[1]) = k[1]
          BY <2>1, <4>1, <5>2
        <5> QED BY <1>1, <4>1, <5>3 DEF Whole
      <4> QED BY <3>1, <4>1 DEF Whole
    <3>3. CASE table[2][g] # {}
      BY <3>1, <3>2, <3>3 DEF Good
    <3>4. CASE table[2][g] = {}
      <4>1. ASSUME WrittenBy(w, 2, g) # {} PROVE FALSE
        <5>1. PICK at \in w[k[2]] : Start(2, at) = s
          BY <3>1, <4>1 DEF WrittenBy
        <5>2. at \in Nat
          BY KeyType, SinkAssumption DEF Writes, Times
        <5>3. Start(3, Start(3 - 1, at)) = Start(3, at)
              /\ Start(3 - 1, at) + Width[3 - 1] <= Start(3, at) + Width[3]
          BY <5>2, StartNests
        <5>4. s + Width[2] <= k[1] + Width[3]
          BY <2>1, <5>1, <5>3
        <5>5. s \in Int /\ k[1] \in Int /\ Width[3] \in Int /\ Width[2] \in Int
          BY <5>1, <5>2, StartOf, KeyType, WidthType DEF Tiers
        <5>6. s + 2 * Width[2] <= by
          BY <1>1, <5>4, <5>5
        <5> HIDE DEF g
        <5> QED BY <3>1, <3>2, <3>4, <4>1, <5>6 DEF Covers
      <4> QED BY <3>4, <4>1
    <3> QED BY <3>3, <3>4
  <2>2. 3 - 1 = 2
    OBVIOUS
  <2> QED BY <2>1, <2>2, FinerIsWritten
<1>2. ASSUME NEW k \in Keys
      PROVE  Read(table, 3, now)[k] = IF k[1] + 2 * Width[3] <= now THEN Finer(table, 3, k) ELSE {}
  BY ClosedIs DEF Read, Tiers
<1> QED BY <1>1, <1>2 DEF Good, Ripe

\* What a maintenance command has read is complete, by its time, and what it
\* stored covers all until then.
Reading(t) == Good(written, lost, t, job.read) /\ Ripe(t, job.read, job.now)

CommandInv ==
  /\ job.now <= clock
  /\ job.next = "store2" => Reading(2) /\ Covers(written, lost, job.read, job.now)
  /\ job.next = "read3" => Covers(written, lost, rows[2], job.now)
  /\ job.next = "store3" => Reading(3)

\* Buckets leave memory soon after they are closed.
FlushInv ==
  /\ \A k \in Keys : open[k] # {} =>
       done[1] < k[1] + 2 * Width[1] /\ turn - Every[1] < k[1] + 2 * Width[1]
  /\ turn <= clock /\ clock <= turn + Stall

CoarseInv ==
  /\ \A t \in {2, 3} : Good(written, lost, t, rows[t]) /\ Late(clock, t, rows[t])
  /\ Covers(written, lost, rows[2], done[2])
  /\ \A t \in Tiers : Past(clock, done[t])

\* The inductive invariant, beside SinkInv.
CoarseAll == CoarseInv /\ CommandInv /\ FlushInv

\* The upsert of a rollup.
LEMMA StoredRow ==
  ASSUME NEW table \in [Tiers -> Buckets], NEW t \in {2, 3}, NEW u \in {2, 3}, NEW read, NEW k \in Keys
  PROVE  Stored(table, t, read)[u][k] =
           IF u # t \/ read[k] = {} THEN table[u][k] ELSE read[k]
<1> DEFINE row == [x \in Keys |-> IF read[x] = {} THEN table[t][x] ELSE read[x]]
<1>1. t \in Tiers /\ u \in Tiers
  BY DEF Tiers
<1>2. Stored(table, t, read) = [table EXCEPT ![t] = row]
  BY DEF Stored
<1>3. row[k] = IF read[k] = {} THEN table[t][k] ELSE read[k]
  OBVIOUS
<1> HIDE DEF row
<1> QED BY <1>1, <1>2, <1>3

\* An upsert of complete rows.
LEMMA StoredIsGood ==
  ASSUME NEW w, NEW l, NEW table \in [Tiers -> Buckets], NEW t \in {2, 3}, NEW u \in {2, 3}, NEW read,
         Good(w, l, u, table[u]), Good(w, l, t, read)
  PROVE  Good(w, l, u, Stored(table, t, read)[u])
<1>1. ASSUME NEW k \in Keys PROVE \/ Stored(table, t, read)[u][k] = table[u][k]
                                  \/ Stored(table, t, read)[u][k] = read[k] /\ u = t
  BY StoredRow
<1> QED BY <1>1 DEF Good

LEMMA StoredIsLate ==
  ASSUME NEW table \in [Tiers -> Buckets], NEW t \in {2, 3}, NEW u \in {2, 3}, NEW read,
         Late(clock, u, table[u]), Late(clock, t, read)
  PROVE  Late(clock, u, Stored(table, t, read)[u])
<1>1. ASSUME NEW k \in Keys PROVE \/ Stored(table, t, read)[u][k] = table[u][k]
                                  \/ Stored(table, t, read)[u][k] = read[k] /\ u = t
  BY StoredRow
<1> QED BY <1>1 DEF Late

LEMMA StoredCovers ==
  ASSUME NEW w, NEW l, NEW table \in [Tiers -> Buckets], NEW t \in {2, 3}, NEW read, NEW now,
         Covers(w, l, table[2], now) \/ (t = 2 /\ Covers(w, l, read, now))
  PROVE  Covers(w, l, Stored(table, t, read)[2], now)
<1>1. ASSUME NEW k \in Keys, table[2][k] # {} \/ (t = 2 /\ read[k] # {})
      PROVE  Stored(table, t, read)[2][k] # {}
  BY <1>1, StoredRow
<1> QED BY <1>1 DEF Covers

\* More that is lost is less to be complete.
LEMMA LostGrows ==
  ASSUME NEW w, NEW l, NEW m, l \subseteq m, NEW t, NEW row
  PROVE  /\ Good(w, l, t, row) => Good(w, m, t, row)
         /\ \A now : Covers(w, l, row, now) => Covers(w, m, row, now)
<1>1. \A u, k : Whole(m, u, k) => Whole(l, u, k)
  BY DEF Whole
<1> QED BY <1>1 DEF Good, Covers

\* A prune of the coarse row of a key takes its 20s rows as well.
LEMMA PrunedHasLost ==
  ASSUME TablesInStep, NEW w \in Writes, NEW l \in SUBSET Keys, NEW table, NEW buckets, NEW now \in Int,
         Placed(w, l, buckets, table[1]), Flushed(buckets, now),
         NEW m, m = l \cup PrunedKeys(table, now),
         NEW t \in {2, 3}, NEW k \in Keys, WrittenBy(w, t, k) # {}, k \in Expired(t, now)
  PROVE  ~Whole(m, t, k)
<1> SUFFICES ASSUME Whole(m, t, k) PROVE FALSE
  OBVIOUS
<1>1. PICK at \in Times : at \in w[k[2]] /\ Start(t, at) = k[1]
  BY KeyType DEF WrittenBy, Writes
<1>2. at \in Nat
  BY SinkAssumption DEF Times
<1> DEFINE f == <<Start(1, at), k[2]>>
<1>3. f \in Keys /\ f[2] = k[2] /\ f[1] \in Nat /\ at \in WrittenBy(w, 1, f)
  BY <1>1, <1>2, KeyOf, KeyType, StartOf DEF WrittenBy, Tiers
<1>4. Start(t, f[1]) = k[1] /\ f[1] + Width[1] <= k[1] + Width[t]
  BY <1>1, <1>2, FirstNests
<1> HIDE DEF f
<1>5. f \notin m
  BY <1>3, <1>4 DEF Whole
<1>6. PICK v \in Nat, r \in Nat : v = Width[t] /\ r = Retention[t]
  BY WidthType, SinkAssumption DEF Tiers
<1>7. /\ k[1] \in Int /\ Width[1] \in Nat \ {0} /\ Width[2] \in Nat
      /\ Retention[1] \in Nat /\ Width[2] <= v
      /\ k[1] < now - r /\ Retention[1] + v <= r /\ 2 * v <= r
      /\ f[1] + Width[1] <= k[1] + v
  <2>1. Retention[1] \in Nat
    BY SinkAssumption DEF Tiers
  <2>2. Width[2] <= Width[t] /\ Width[1] \in Nat \ {0} /\ Width[2] \in Nat
    BY WidthType DEF Tiers
  <2> QED BY <1>4, <1>6, <2>1, <2>2, KeyType DEF Expired, TablesInStep
<1>8. ~(now < f[1] + Width[1] + Width[2]) /\ f[1] < now - Retention[1]
  BY <1>3, <1>7
<1>9. table[1][f] # {}
  BY <1>3, <1>5, <1>8 DEF Placed, Flushed
<1>10. f \in PrunedKeys(table, now)
  BY <1>3, <1>8, <1>9 DEF PrunedKeys, Expired
<1> QED BY <1>5, <1>10

LEMMA PrunedIsCovered ==
  ASSUME TablesInStep, NEW w \in Writes, NEW l \in SUBSET Keys, NEW table, NEW buckets, NEW now \in Int,
         Placed(w, l, buckets, table[1]), Flushed(buckets, now),
         NEW m, m = l \cup PrunedKeys(table, now),
         NEW by, Covers(w, l, table[2], by)
  PROVE  Covers(w, m, Pruned(table, now)[2], by)
<1> SUFFICES ASSUME NEW k \in Keys, WrittenBy(w, 2, k) # {}, Whole(m, 2, k), k[1] + 2 * Width[2] <= by,
                    Pruned(table, now)[2][k] = {}
             PROVE  FALSE
  BY DEF Covers
<1>1. table[2][k] # {}
  BY DEF Covers, Whole
<1>2. k \in Expired(2, now)
  BY <1>1 DEF Pruned, Tiers
<1> QED BY <1>2, PrunedHasLost

\* A prune only takes rows.
LEMMA PrunedIsGood ==
  ASSUME NEW w, NEW l, NEW t \in Tiers, NEW table, NEW now
  PROVE  /\ Good(w, l, t, table[t]) => Good(w, l, t, Pruned(table, now)[t])
         /\ Late(clock, t, table[t]) => Late(clock, t, Pruned(table, now)[t])
<1>1. \A k \in Keys : Pruned(table, now)[t][k] = {} \/ Pruned(table, now)[t][k] = table[t][k]
  BY DEF Pruned
<1> QED BY <1>1 DEF Good, Late

\* What only a prune takes.
HasRow(table, t, k) == table[t][k] # {}

LEMMA StoredKeepsRows ==
  ASSUME NEW table \in [Tiers -> Buckets], NEW t \in {2, 3}, NEW read,
         NEW u \in Tiers, NEW k \in Keys, HasRow(table, u, k)
  PROVE  HasRow(Stored(table, t, read), u, k)
<1> DEFINE row == [x \in Keys |-> IF read[x] = {} THEN table[t][x] ELSE read[x]]
<1>1. Stored(table, t, read) = [table EXCEPT ![t] = row] /\ t \in Tiers
  BY DEF Stored, Tiers
<1>2. row[k] = table[t][k] \/ row[k] # {}
  OBVIOUS
<1> HIDE DEF row
<1> QED BY <1>1, <1>2 DEF HasRow

LEMMA RolledKeepsRows ==
  ASSUME NEW table \in [Tiers -> Buckets], NEW t \in {2, 3}, NEW now \in Int,
         NEW u \in Tiers, NEW k \in Keys, HasRow(table, u, k)
  PROVE  HasRow(Rolled(table, t, now), u, k)
BY StoredKeepsRows DEF Rolled

LEMMA UpsertedKeepsRows ==
  ASSUME NEW table \in [Tiers -> Buckets], NEW buckets, NEW keys \in SUBSET Keys,
         \A k \in keys : buckets[k] # {},
         NEW u \in Tiers, NEW k \in Keys, HasRow(table, u, k)
  PROVE  HasRow(Upserted(table, buckets, keys), u, k)
BY DEF Upserted, HasRow, Tiers

LEMMA PrunedKeepsRows ==
  ASSUME NEW table, NEW now \in Int, NEW u \in Tiers, NEW k \in Keys, HasRow(table, u, k),
         k \notin Expired(u, now)
  PROVE  HasRow(Pruned(table, now), u, k)
BY DEF Pruned, HasRow

\* The times of the last turns are times.
LEMMA DoneIsInt ==
  ASSUME TypeOK
  PROVE  \A t \in Tiers : done[t] \in Int /\ Every[t] \in Nat /\ Unset[t] \in Int
<1>1. \A t \in Tiers : Every[t] \in Nat /\ Unset[t] \in Int
  BY SinkAssumption DEF Unset
<1>2. \A t \in Tiers : done[t] \in Times \/ \E u \in Tiers : done[t] = Unset[u]
  BY DEF TypeOK
<1>3. Times \subseteq Int
  BY DEF Times
<1> QED BY <1>1, <1>2, <1>3

\* A bucket that lost nothing keeps its row.
KeepsWhole(l, old, new, t) ==
  \A k \in Keys : HasRow(old, t, k) /\ Whole(l, t, k) => HasRow(new, t, k)

\* A 20s bucket that lost nothing is not lost itself.
LEMMA WholeIsNotLost ==
  ASSUME NEW l, NEW k \in Keys, Whole(l, 1, k)
  PROVE  k \notin l
<1>1. PICK at \in Times : k[1] = Start(1, at)
  BY DEF Keys, Starts
<1>2. at \in Nat /\ k[1] \in Nat
  BY KeyType, SinkAssumption DEF Times
<1>3. Start(1, k[1]) = k[1]
  <2>1. Start(2 - 1, Start(2 - 1, at)) = Start(2 - 1, at)
    BY <1>2, StartStarts DEF Tiers
  <2> QED BY <1>1, <2>1
<1> QED BY <1>3 DEF Whole

LEMMA PrunedKeepsWhole ==
  ASSUME TablesInStep, NEW w \in Writes, NEW l \in SUBSET Keys, NEW table, NEW buckets, NEW now \in Int,
         Placed(w, l, buckets, table[1]), Flushed(buckets, now),
         \A t \in {2, 3} : Good(w, l, t, table[t]),
         NEW m, m = l \cup PrunedKeys(table, now), NEW t \in Tiers
  PROVE  KeepsWhole(m, table, Pruned(table, now), t)
<1> SUFFICES ASSUME NEW k \in Keys, HasRow(table, t, k), Whole(m, t, k), k \in Expired(t, now)
             PROVE  FALSE
  BY PrunedKeepsRows DEF KeepsWhole
<1>1. CASE t = 1
  <2>1. k \in PrunedKeys(table, now)
    BY <1>1 DEF PrunedKeys, HasRow
  <2> QED BY <1>1, <2>1, WholeIsNotLost
<1>2. CASE t \in {2, 3}
  <2>1. Whole(l, t, k)
    BY DEF Whole
  <2>2. WrittenBy(w, t, k) # {}
    BY <1>2, <2>1 DEF Good, HasRow
  <2> QED BY <1>2, <2>2, PrunedHasLost
<1> QED BY <1>1, <1>2 DEF Tiers

\* What the worker's maintenance does: `buckets` is what it holds by then.
LEMMA MaintenanceIsCoarse ==
  ASSUME TablesInStep, TypeOK, CoarseInv, NEW w \in Writes, NEW buckets \in Buckets, NEW now \in Int,
         NEW ok \in 0 .. 5, Past(clock, now), clock' = clock,
         Maintenance(buckets, now, ok),
         Placed(w, lost, buckets, rows[1]),
         \A t \in {2, 3} : Good(w, lost, t, rows[t]),
         Covers(w, lost, rows[2], done[2]),
         \A k \in Keys : buckets[k] # {} => done[1] < k[1] + 2 * Width[1]
  PROVE  /\ \A t \in {2, 3} : Good(w, lost', t, rows'[t]) /\ Late(clock, t, rows'[t])
         /\ Covers(w, lost', rows'[2], done'[2])
         /\ \A by : Covers(w, lost, rows[2], by) => Covers(w, lost', rows'[2], by)
         /\ \A t \in Tiers : Past(clock, done'[t])
         /\ \A k \in Keys : open'[k] # {} =>
              done'[1] < k[1] + 2 * Width[1] /\ now - Every[1] < k[1] + 2 * Width[1]
         /\ \A t \in Tiers : KeepsWhole(lost', rows, rows', t)
<1> DEFINE Due(t)  == now - done[t] >= Every[t]
           Runs(t) == Due(t) /\ t <= ok
           sweep   == now - pruned >= PruneEvery
           ready   == IF Due(1) THEN Ready(buckets, now) ELSE {}
           t1 == IF Runs(1) THEN Upserted(rows, buckets, ready) ELSE rows
           t2 == IF Runs(2) THEN Rolled(t1, 2, now) ELSE t1
           t3 == IF Runs(3) THEN Rolled(t2, 3, now) ELSE t2
           l1 == lost \cup (IF ok = 0 THEN ready ELSE {})
<1>0. /\ rows \in [Tiers -> Buckets] /\ lost \in SUBSET Keys
      /\ \A t \in Tiers : done[t] \in Int /\ Every[t] \in Nat
  BY DoneIsInt DEF TypeOK, Buckets
<1>1. /\ ok \in 1 .. 4 => (IF ok < 3 THEN Due(ok + 1) ELSE sweep)
      /\ open' = Without(buckets, ready)
      /\ rows' = IF sweep /\ ok >= 4 THEN Pruned(t3, now) ELSE t3
      /\ lost' = l1 \cup (IF sweep /\ ok >= 4 THEN PrunedKeys(t3, now) ELSE {})
      /\ \A t \in Tiers : done'[t] = IF Runs(t) THEN now ELSE done[t]
  BY DEF Maintenance
<1>2. ready \in SUBSET Keys
  BY DEF Ready
<1>3. /\ t1 \in [Tiers -> Buckets] /\ t1[2] = rows[2] /\ t1[3] = rows[3]
      /\ \A t \in Tiers, k \in Keys : HasRow(rows, t, k) => HasRow(t1, t, k)
  <2>1. t1 \in [Tiers -> Buckets] /\ t1[2] = rows[2] /\ t1[3] = rows[3]
    BY <1>0, <1>2, UpsertedType DEF Upserted, Tiers
  <2>2. \A k \in ready : buckets[k] # {}
    BY DEF Ready
  <2> QED BY <1>0, <1>2, <2>1, <2>2, UpsertedKeepsRows
<1>4. \A k \in Keys : t1[1][k] = IF Runs(1) /\ k \in ready THEN buckets[k] ELSE rows[1][k]
  BY <1>0, <1>2, UpsertedType
<1>5. ASSUME NEW k \in Keys, open'[k] # {}
      PROVE  done'[1] < k[1] + 2 * Width[1] /\ now - Every[1] < k[1] + 2 * Width[1]
  <2>1. buckets[k] # {} /\ k \notin ready /\ done[1] < k[1] + 2 * Width[1]
    BY <1>1, <1>5 DEF Without
  <2>2. k[1] \in Int /\ Width[1] \in Int /\ done[1] \in Int /\ Every[1] \in Nat /\ 1 \in Tiers
    BY <1>0, KeyType, WidthType DEF Tiers
  <2>3. CASE Due(1)
    <3>1. ~(k[1] + 2 * Width[1] <= now)
      BY <2>1, <2>2, <2>3, ClosedIs DEF Ready
    <3>2. done'[1] = now \/ done'[1] = done[1]
      BY <1>1, <2>2
    <3> QED BY <2>1, <2>2, <3>1, <3>2
  <2>4. CASE ~Due(1)
    <3>1. done'[1] = done[1]
      BY <1>1, <2>2, <2>4
    <3> QED BY <2>1, <2>2, <2>4, <3>1
  <2> QED BY <2>3, <2>4
<1>6. Flushed(open', now)
  <2> SUFFICES ASSUME NEW k \in Keys, open'[k] # {} PROVE now < k[1] + Width[1] + Width[2]
    BY DEF Flushed
  <2>1. now - Every[1] < k[1] + 2 * Width[1]
    BY <1>5
  <2>2. Stall \in Nat /\ Every[1] \in Nat /\ Width[1] \in Nat /\ Width[2] \in Nat /\ k[1] \in Int
    BY <1>0, KeyType, WidthType, SinkAssumption DEF Tiers
  <2> QED BY <2>1, <2>2 DEF TablesInStep
<1>7. Placed(w, l1, open', t1[1])
  <2> SUFFICES ASSUME NEW k \in Keys, k \notin l1
               PROVE  \/ open'[k] = WrittenBy(w, 1, k) /\ t1[1][k] = {}
                      \/ t1[1][k] = WrittenBy(w, 1, k) /\ open'[k] = {}
    BY DEF Placed
  <2>1. /\ k \in ready => Runs(1)
        /\ k \notin lost
    BY DEF Tiers
  <2>2. open'[k] = IF k \in ready THEN {} ELSE buckets[k]
    BY <1>1 DEF Without
  <2>3. t1[1][k] = IF k \in ready THEN buckets[k] ELSE rows[1][k]
    BY <1>4, <2>1
  <2>4. \/ buckets[k] = WrittenBy(w, 1, k) /\ rows[1][k] = {}
        \/ rows[1][k] = WrittenBy(w, 1, k) /\ buckets[k] = {}
    BY <2>1 DEF Placed
  <2>5. k \in ready => buckets[k] # {}
    BY DEF Ready
  <2> HIDE DEF t1, ready
  <2> QED BY <2>2, <2>3, <2>4, <2>5
<1>8. l1 \in SUBSET Keys /\ lost \subseteq l1
  BY <1>0, <1>2
<1>9. \A t \in {2, 3} : Good(w, l1, t, t1[t]) /\ Late(clock, t, t1[t])
  BY <1>3, <1>8, LostGrows DEF CoarseInv
<1>10. \A by : Covers(w, lost, rows[2], by) => Covers(w, l1, t1[2], by)
  BY <1>3, <1>8, LostGrows
<1> HIDE DEF t1, l1
<1>11. /\ t2 \in [Tiers -> Buckets] /\ t2[1] = t1[1]
       /\ \A t \in Tiers, k \in Keys : HasRow(rows, t, k) => HasRow(t2, t, k)
       /\ \A t \in {2, 3} : Good(w, l1, t, t2[t]) /\ Late(clock, t, t2[t])
       /\ \A by : Covers(w, lost, rows[2], by) => Covers(w, l1, t2[2], by)
       /\ Covers(w, l1, t2[2], done'[2])
  <2>1. CASE Runs(2)
    <3> DEFINE read == Read(t1, 2, now)
    <3>1. t2 = Stored(t1, 2, read)
      BY <2>1 DEF Rolled
    <3>2. Good(w, l1, 2, read) /\ Covers(w, l1, read, now) /\ Ripe(2, read, now)
      BY <1>6, <1>7, <1>8, ReadTwo
    <3>3. read \in Buckets
      BY <1>3, ReadType
    <3> HIDE DEF read
    <3>4. Late(clock, 2, read)
      BY <3>2, RipeIsLate DEF Tiers
    <3>5. done'[2] = now
      BY <1>1, <2>1 DEF Tiers
    <3>6. t2 \in [Tiers -> Buckets] /\ t2[1] = t1[1]
      <4>1. /\ Stored(t1, 2, read) \in [Tiers -> Buckets]
            /\ Stored(t1, 2, read)[1] = t1[1]
        BY <1>3, <3>3, StoredType
      <4> HIDE DEF t2
      <4> QED BY <3>1, <4>1
    <3>7. ASSUME NEW t \in {2, 3} PROVE Good(w, l1, t, t2[t]) /\ Late(clock, t, t2[t])
      BY <1>3, <1>9, <3>1, <3>2, <3>4, StoredIsGood, StoredIsLate
    <3>8. ASSUME NEW by, Covers(w, lost, rows[2], by) PROVE Covers(w, l1, t2[2], by)
      BY <1>3, <1>10, <3>1, <3>8, StoredCovers
    <3>9. Covers(w, l1, t2[2], now)
      BY <1>3, <3>1, <3>2, StoredCovers
    <3>10. \A t \in Tiers, k \in Keys : HasRow(rows, t, k) => HasRow(t2, t, k)
      BY <1>3, <3>1, StoredKeepsRows
    <3> HIDE DEF t2
    <3> QED BY <3>5, <3>6, <3>7, <3>8, <3>9, <3>10
  <2>2. CASE ~Runs(2)
    <3>1. t2 = t1 /\ done'[2] = done[2]
      BY <1>1, <2>2 DEF Tiers
    <3> QED BY <1>3, <1>9, <1>10, <3>1
  <2> QED BY <2>1, <2>2
<1> HIDE DEF t2
<1>12. /\ t3 \in [Tiers -> Buckets] /\ t3[1] = t1[1]
       /\ \A t \in Tiers, k \in Keys : HasRow(rows, t, k) => HasRow(t3, t, k)
       /\ \A t \in {2, 3} : Good(w, l1, t, t3[t]) /\ Late(clock, t, t3[t])
       /\ \A by : Covers(w, lost, rows[2], by) => Covers(w, l1, t3[2], by)
       /\ Covers(w, l1, t3[2], done'[2])
  <2>1. CASE Runs(3)
    <3> DEFINE read == Read(t2, 3, now)
    <3>1. t3 = Stored(t2, 3, read)
      BY <2>1 DEF Rolled
    <3>2. done'[2] \in Int /\ now - Width[3] + Width[2] <= done'[2]
      <4>1. Runs(2) \/ now - done[2] < Every[2]
        BY <1>0, <2>1 DEF Tiers
      <4>2. done'[2] = now \/ (done'[2] = done[2] /\ now - done[2] < Every[2])
        BY <1>1, <4>1 DEF Tiers
      <4>3. Every[2] + Width[2] <= Width[3]
        BY DEF TablesInStep
      <4>4. Width[2] \in Int /\ Width[3] \in Int /\ Width[2] <= Width[3] /\ Every[2] \in Nat /\ done[2] \in Int
        BY <1>0, WidthType DEF Tiers
      <4> QED BY <4>2, <4>3, <4>4
    <3>3. Good(w, l1, 3, read) /\ Ripe(3, read, now)
      BY <1>8, <1>11, <3>2, ReadThree
    <3>4. read \in Buckets
      BY <1>11, ReadType
    <3> HIDE DEF read
    <3>5. Late(clock, 3, read)
      BY <3>3, RipeIsLate DEF Tiers
    <3>6. t3 \in [Tiers -> Buckets] /\ t3[1] = t1[1]
      <4>1. /\ Stored(t2, 3, read) \in [Tiers -> Buckets]
            /\ Stored(t2, 3, read)[1] = t2[1]
        BY <1>11, <3>4, StoredType
      <4> HIDE DEF t3
      <4> QED BY <1>11, <3>1, <4>1
    <3>7. ASSUME NEW t \in {2, 3} PROVE Good(w, l1, t, t3[t]) /\ Late(clock, t, t3[t])
      BY <1>11, <3>1, <3>3, <3>5, StoredIsGood, StoredIsLate
    <3>8. ASSUME NEW by, Covers(w, l1, t2[2], by) PROVE Covers(w, l1, t3[2], by)
      BY <1>11, <3>1, <3>8, StoredCovers
    <3>9. \A t \in Tiers, k \in Keys : HasRow(rows, t, k) => HasRow(t3, t, k)
      BY <1>11, <3>1, StoredKeepsRows
    <3> HIDE DEF t3
    <3> QED BY <1>11, <3>6, <3>7, <3>8, <3>9
  <2>2. CASE ~Runs(3)
    <3>1. t3 = t2
      BY <2>2
    <3> QED BY <1>11, <3>1
  <2> QED BY <2>1, <2>2
<1> HIDE DEF t3
<1>13. ASSUME NEW t \in Tiers PROVE Past(clock, done'[t])
  BY <1>1 DEF CoarseInv
<1>14. CASE sweep /\ ok >= 4
  <2>1. rows' = Pruned(t3, now) /\ lost' = l1 \cup PrunedKeys(t3, now) /\ l1 \subseteq lost'
    BY <1>1, <1>14
  <2>2. ASSUME NEW t \in {2, 3} PROVE Good(w, lost', t, rows'[t]) /\ Late(clock, t, rows'[t])
    <3>1. t \in Tiers /\ Good(w, l1, t, t3[t]) /\ Late(clock, t, t3[t])
      BY <1>12 DEF Tiers
    <3>2. Good(w, l1, t, rows'[t]) /\ Late(clock, t, rows'[t])
      BY <2>1, <3>1, PrunedIsGood
    <3> QED BY <2>1, <3>2, LostGrows
  <2>3. ASSUME NEW by, Covers(w, l1, t3[2], by) PROVE Covers(w, lost', rows'[2], by)
    BY <1>6, <1>7, <1>8, <1>12, <2>1, <2>3, PrunedIsCovered
  <2>4. ASSUME NEW t \in Tiers PROVE KeepsWhole(lost', rows, rows', t)
    <3>1. KeepsWhole(lost', t3, rows', t)
      BY <1>6, <1>7, <1>8, <1>12, <2>1, PrunedKeepsWhole
    <3> QED BY <1>12, <3>1 DEF KeepsWhole
  <2> QED BY <1>5, <1>12, <1>13, <2>2, <2>3, <2>4
<1>15. CASE ~(sweep /\ ok >= 4)
  <2>1. rows' = t3 /\ lost' = l1
    BY <1>1, <1>15
  <2>2. \A t \in Tiers : KeepsWhole(lost', rows, rows', t)
    BY <1>12, <2>1 DEF KeepsWhole
  <2> QED BY <1>5, <1>12, <1>13, <2>1, <2>2
<1> QED BY <1>14, <1>15

\* The snapshot the worker takes is newer than anything that is closed.
LEMMA HeadIsFresh ==
  ASSUME ClocksAgree, TypeOK, SinkInv, queue # << >>, NEW now \in Int, Past(clock, now)
  PROVE  now <= Head(queue).at + Width[1]
<1> DEFINE m == Head(queue)
           d == Skew[m.node]
<1>1. m \in [node: Nodes, at: Times] /\ m = queue[1] /\ 1 \in 1 .. Len(queue)
  BY HeadType, FirstIsHead DEF TypeOK
<1>2. clock <= m.at - d + Patience
  BY <1>1 DEF SinkInv, QueueFresh
<1>3. Patience - d <= Width[1] /\ \A n \in Nodes : Skew[n] - d + Patience <= Width[1]
  BY <1>1 DEF ClocksAgree
<1>4. /\ clock \in Int /\ m.at \in Int /\ Width[1] \in Int /\ Patience \in Int /\ d \in Int
      /\ \A n \in Nodes : Skew[n] \in Int
  <2>1. \A n \in Nodes : Skew[n] \in Int
    BY SinkAssumption
  <2>2. Width[1] \in Int /\ Patience \in Int
    BY WidthType, SinkAssumption DEF Tiers
  <2>3. clock \in Int /\ m.at \in Int /\ m.node \in Nodes
    BY <1>1 DEF TypeOK, Times
  <2> QED BY <2>1, <2>2, <2>3
<1> HIDE DEF m, d
<1>5. CASE now <= clock
  BY <1>2, <1>3, <1>4, <1>5 DEF m
<1>6. ASSUME NEW n \in Nodes, now <= clock + Skew[n] PROVE now <= m.at + Width[1]
  <2>1. PICK e \in Int : e = Skew[n]
    BY <1>4
  <2>2. e - d + Patience <= Width[1] /\ now <= clock + e
    BY <1>3, <1>6, <2>1
  <2> QED BY <1>2, <1>4, <2>1, <2>2, SMTT(30)
<1> QED BY <1>5, <1>6 DEF Past, m

\* A new sample belongs to no bucket that is closed by any clock.
LEMMA ClosedGetsNone ==
  ASSUME NEW n \in Nodes, NEW at \in Times, NEW w \in Writes,
         \A now \in Int : Past(clock, now) => now <= at + Width[1],
         NEW t \in Tiers, NEW k \in Keys, Past(clock, k[1] + 2 * Width[t])
  PROVE  WrittenBy(Added(w, n, at), t, k) = WrittenBy(w, t, k)
<1>1. at \in Nat
  BY SinkAssumption DEF Times
<1>2. /\ k[1] \in Int /\ Width[t] \in Nat \ {0} /\ Width[1] \in Nat \ {0} /\ Width[1] <= Width[t]
      /\ at \in Int /\ at < Start(t, at) + Width[t] /\ Start(t, at) \in Int
  <2>1. Width[2] \in Nat /\ Width[3] \in Nat /\ Width[1] \in Nat /\ Width[t] \in Nat \ {0}
    BY WidthType DEF Tiers
  <2>2. Width[1] <= Width[t]
    BY <2>1, WidthType DEF Tiers
  <2> QED BY <1>1, <2>1, <2>2, KeyType, WidthType, StartOf DEF Tiers
<1>3. k[1] + 2 * Width[t] \in Int
  BY <1>2
<1>4. k[1] + 2 * Width[t] <= at + Width[1]
  BY <1>3
<1>5. Start(t, at) # k[1]
  BY <1>2, <1>4
<1> DEFINE v == Added(w, n, at)
<1>6. v[k[2]] = w[k[2]] \/ v[k[2]] = w[k[2]] \cup {at}
  BY KeyType DEF Writes, Added
<1> HIDE DEF v
<1>7. WrittenBy(v, t, k) = WrittenBy(w, t, k)
  BY <1>5, <1>6 DEF WrittenBy
<1> QED BY <1>7 DEF v

\* So it belongs to no row that is there.
LEMMA SampleIsNew ==
  ASSUME TypeOK, NEW n \in Nodes, NEW at \in Times, NEW w \in Writes,
         \A now \in Int : Past(clock, now) => now <= at + Width[1],
         NEW v, v = Added(w, n, at)
  PROVE  /\ v \in Writes
         /\ \A t \in Tiers : \A l, row : Good(w, l, t, row) /\ Late(clock, t, row) => Good(v, l, t, row)
         /\ \A now \in Int : \A l, row : Past(clock, now) /\ Covers(w, l, row, now) => Covers(v, l, row, now)
<1>1. v \in Writes
  BY DEF Writes, Added
<1>2. ASSUME NEW t \in Tiers, NEW k \in Keys, Past(clock, k[1] + 2 * Width[t])
      PROVE  WrittenBy(v, t, k) = WrittenBy(w, t, k)
  BY <1>2, ClosedGetsNone
<1>3. ASSUME NEW t \in Tiers, NEW l, NEW row, Good(w, l, t, row), Late(clock, t, row) PROVE Good(v, l, t, row)
  BY <1>2, <1>3 DEF Good, Late
<1>4. ASSUME NEW now \in Int, NEW l, NEW row, Past(clock, now), Covers(w, l, row, now) PROVE Covers(v, l, row, now)
  <2>1. ASSUME NEW k \in Keys, k[1] + 2 * Width[2] <= now PROVE Past(clock, k[1] + 2 * Width[2])
    <3>1. k[1] + 2 * Width[2] \in Int
      BY KeyType, WidthType DEF Tiers
    <3> QED BY <1>4, <2>1, <3>1, PastBefore
  <2>2. ASSUME NEW k \in Keys, k[1] + 2 * Width[2] <= now PROVE WrittenBy(v, 2, k) = WrittenBy(w, 2, k)
    <3>1. 2 \in Tiers /\ Past(clock, k[1] + 2 * Width[2])
      BY <2>1, <2>2 DEF Tiers
    <3> QED BY <1>2, <3>1
  <2> QED BY <1>4, <2>2 DEF Covers
<1> QED BY <1>1, <1>3, <1>4

\* Time goes on.
LEMMA PastStays ==
  ASSUME TypeOK, clock' = clock \/ clock' = clock + 1, NEW x \in Int, Past(clock, x)
  PROVE  Past(clock', x)
<1>1. clock \in Int /\ clock' \in Int /\ clock <= clock'
  BY DEF TypeOK, Times
<1>2. CASE x <= clock
  BY <1>1, <1>2 DEF Past
<1>3. ASSUME NEW n \in Nodes, x <= clock + Skew[n] PROVE Past(clock', x)
  <2>1. PICK e \in Int : e = Skew[n]
    BY SinkAssumption
  <2>2. x <= clock' + e
    BY <1>1, <1>3, <2>1
  <2> QED BY <2>1, <2>2 DEF Past
<1> QED BY <1>2, <1>3 DEF Past

\* Any step beside those of the command.
LEMMA CommandStays ==
  ASSUME TypeOK, CommandInv, job' = job, clock' = clock \/ clock' = clock + 1,
         lost \subseteq lost',
         \A t \in {2, 3} : \A row : Good(written, lost, t, row) /\ Ripe(t, row, job.now) => Good(written', lost, t, row),
         \A row : Covers(written, lost, row, job.now) => Covers(written', lost, row, job.now),
         Covers(written, lost, rows[2], job.now) => Covers(written', lost', rows'[2], job.now)
  PROVE  CommandInv'
<1>1. job'.now <= clock'
  BY DEF CommandInv, TypeOK, Times
<1>2. ASSUME NEW t \in {2, 3}, Reading(t) PROVE Good(written', lost', t, job.read) /\ Ripe(t, job.read, job.now)
  <2>1. Good(written', lost, t, job.read)
    BY <1>2 DEF Reading
  <2> QED BY <1>2, <2>1, LostGrows DEF Reading
<1>3. Covers(written, lost, job.read, job.now) => Covers(written', lost', job.read, job.now)
  BY LostGrows
<1>4. Reading(2) => Good(written', lost', 2, job.read) /\ Ripe(2, job.read, job.now)
  BY <1>2
<1>5. Reading(3) => Good(written', lost', 3, job.read) /\ Ripe(3, job.read, job.now)
  BY <1>2
<1> QED BY <1>1, <1>3, <1>4, <1>5 DEF CommandInv, Reading

\* Steps that leave the coarse tables and what was written alone.
LEMMA CoarseStays ==
  ASSUME TypeOK, CoarseInv, clock' = clock \/ clock' = clock + 1, written' = written,
         lost \subseteq lost', rows'[2] = rows[2], rows'[3] = rows[3],
         done' = done \/ done' = Unset
  PROVE  /\ CoarseInv'
         /\ CommandInv /\ job' = job => CommandInv'
<1>1. ASSUME NEW t \in {2, 3} PROVE Good(written', lost', t, rows'[t]) /\ Late(clock', t, rows'[t])
  <2>1. rows'[t] = rows[t] /\ Good(written, lost, t, rows[t]) /\ Late(clock, t, rows[t])
    BY DEF CoarseInv
  <2>2. Good(written', lost', t, rows'[t])
    BY <2>1, LostGrows
  <2>3. ASSUME NEW k \in Keys, rows[t][k] # {} PROVE Past(clock', k[1] + 2 * Width[t])
    <3>1. k[1] + 2 * Width[t] \in Int
      BY KeyType, WidthType DEF Tiers
    <3> QED BY <2>1, <2>3, <3>1, PastStays DEF Late
  <2> QED BY <2>1, <2>2, <2>3 DEF Late
<1>2. /\ \A t \in Tiers : Every[t] \in Nat
      /\ \A t \in Tiers : done[t] \in Int /\ Unset[t] \in Int
      /\ clock' \in Int /\ 0 <= clock'
  <2>1. clock \in Int /\ 0 <= clock
    BY DEF TypeOK, Times
  <2>2. clock' \in Int /\ 0 <= clock'
    BY <2>1
  <2> QED BY <2>2, DoneIsInt
<1>3. ASSUME NEW t \in Tiers PROVE Past(clock', done[t])
  BY <1>2, PastStays DEF CoarseInv
<1>4. ASSUME NEW t \in Tiers PROVE Past(clock', Unset[t])
  BY <1>2 DEF Past, Unset
<1>5. Covers(written', lost', rows'[2], done[2])
  BY LostGrows DEF CoarseInv
<1>6. Covers(written', lost', rows'[2], Unset[2])
  <2>1. ASSUME NEW k \in Keys PROVE ~(k[1] + 2 * Width[2] <= Unset[2])
    <3>1. k[1] \in Nat /\ Width[2] \in Nat \ {0} /\ Every[2] \in Nat /\ Unset[2] = 0 - Every[2]
      BY <1>2, KeyType, WidthType DEF Tiers, Unset
    <3> QED BY <3>1
  <2> QED BY <2>1 DEF Covers
<1>7. CoarseInv'
  <2>1. CASE done' = done
    <3>1. \A t \in Tiers : Past(clock', done'[t])
      BY <1>3, <2>1 DEF Past
    <3> QED BY <1>1, <1>5, <2>1, <3>1 DEF CoarseInv
  <2>2. CASE done' = Unset
    <3>1. \A t \in Tiers : Past(clock', done'[t])
      BY <1>4, <2>2 DEF Past
    <3> QED BY <1>1, <1>6, <2>2, <3>1 DEF CoarseInv
  <2> QED BY <2>1, <2>2
<1>8. ASSUME CommandInv, job' = job PROVE CommandInv'
  <2>1. Covers(written, lost, rows[2], job.now) => Covers(written', lost', rows'[2], job.now)
    BY LostGrows
  <2> QED BY <1>8, <2>1, CommandStays
<1> QED BY <1>7, <1>8

\* Every bucket in memory is one that could still be open at the last turn.
LEMMA OpenIsFlushed ==
  ASSUME TypeOK, FlushInv, TablesInStep, NEW now \in Int, now <= clock
  PROVE  Flushed(open, now)
<1> SUFFICES ASSUME NEW k \in Keys, open[k] # {} PROVE now < k[1] + Width[1] + Width[2]
  BY DEF Flushed
<1>1. turn - Every[1] < k[1] + 2 * Width[1] /\ clock <= turn + Stall
  BY DEF FlushInv
<1>2. /\ Stall \in Nat /\ Every[1] \in Nat /\ Width[1] \in Nat /\ Width[2] \in Nat
      /\ k[1] \in Int /\ clock \in Int /\ turn \in Int
  <2>1. Stall \in Nat /\ Every[1] \in Nat
    BY SinkAssumption DEF Tiers
  <2>2. Width[1] \in Nat /\ Width[2] \in Nat /\ k[1] \in Int
    BY KeyType, WidthType DEF Tiers
  <2>3. clock \in Int /\ turn \in Int
    BY DEF TypeOK, Times
  <2> QED BY <2>1, <2>2, <2>3
<1> QED BY <1>1, <1>2 DEF TablesInStep

\* What both turns of the worker leave for FlushInv.
LEMMA TurnIsFlushed ==
  ASSUME TypeOK, NEW now \in Int, clock <= now, clock' = clock, turn' = clock,
         \A k \in Keys : open'[k] # {} =>
           done'[1] < k[1] + 2 * Width[1] /\ now - Every[1] < k[1] + 2 * Width[1]
  PROVE  FlushInv'
<1>1. clock \in Int /\ Every[1] \in Int /\ Stall \in Nat
  BY SinkAssumption DEF TypeOK, Times, Tiers
<1>2. ASSUME NEW k \in Keys, open'[k] # {} PROVE turn' - Every[1] < k[1] + 2 * Width[1]
  <2>1. now - Every[1] < k[1] + 2 * Width[1]
    BY <1>2
  <2>2. k[1] + 2 * Width[1] \in Int
    BY KeyType, WidthType DEF Tiers
  <2> QED BY <1>1, <2>1, <2>2
<1>3. turn' <= clock' /\ clock' <= turn' + Stall
  BY <1>1
<1> QED BY <1>2, <1>3 DEF FlushInv

\* The steps that can disturb CoarseAll, one by one.
LEMMA WorkKeepsCoarse ==
  ASSUME ClocksAgree, TablesInStep, TypeOK, SinkInv, CoarseAll, NEW ok \in 0 .. 5, Work(ok)
  PROVE  CoarseAll' /\ \A t \in Tiers : KeepsWhole(lost', rows, rows', t)
<1> PICK m : m = Head(queue)
  OBVIOUS
<1> PICK now : now = Later(clock, m.at)
  OBVIOUS
<1> PICK b : b = Accumulated(open, m.node, m.at)
  OBVIOUS
<1>0. /\ queue # << >> /\ clock' = clock /\ job' = job /\ turn' = clock
      /\ written' = [written EXCEPT ![m.node] = @ \cup {m.at}]
      /\ Maintenance(b, now, ok)
  BY DEF Work, Maintenance
<1>1. m \in [node: Nodes, at: Times] /\ m = queue[1] /\ 1 \in 1 .. Len(queue)
  BY <1>0, HeadType, FirstIsHead DEF TypeOK
<1>2. /\ open \in Buckets /\ rows \in [Tiers -> Buckets] /\ lost \in SUBSET Keys
      /\ clock \in Int /\ job.now \in Int /\ written \in Writes
  BY DEF TypeOK, Buckets, Times, Writes
<1>3. b \in Buckets /\ now \in Int /\ clock <= now
  BY <1>1, <1>2, AccumulatedType DEF Later, Times
<1>4. Past(clock, now)
  <2>1. m.at <= clock + Skew[m.node]
    BY <1>1 DEF SinkInv, QueueFresh
  <2>2. now <= clock \/ now <= clock + Skew[m.node]
    BY <1>2, <2>1 DEF Later
  <2> QED BY <1>1, <2>2 DEF Past
<1>5. \A x \in Int : Past(clock, x) => x <= m.at + Width[1]
  BY <1>0, HeadIsFresh
<1>6. /\ written' \in Writes
      /\ \A t \in Tiers : \A l, row : Good(written, l, t, row) /\ Late(clock, t, row) => Good(written', l, t, row)
      /\ \A x \in Int : \A l, row : Past(clock, x) /\ Covers(written, l, row, x) => Covers(written', l, row, x)
  <2>1. PICK n \in Nodes, at \in Times : n = m.node /\ at = m.at
    BY <1>1
  <2>2. PICK v : v = written'
    OBVIOUS
  <2>3. v = Added(written, n, at)
    BY <1>0, <2>1, <2>2 DEF Added
  <2>4. \A x \in Int : Past(clock, x) => x <= at + Width[1]
    BY <1>5, <2>1
  <2>5. /\ v \in Writes
        /\ \A t \in Tiers : \A l, row : Good(written, l, t, row) /\ Late(clock, t, row) => Good(v, l, t, row)
        /\ \A x \in Int : \A l, row : Past(clock, x) /\ Covers(written, l, row, x) => Covers(v, l, row, x)
    BY <1>2, <2>3, <2>4, SampleIsNew
  <2> QED BY <2>2, <2>5
<1>7. Placed(written', lost, b, rows[1])
  BY <1>0, HeadIsPlaced
<1>8. \A t \in Tiers : done[t] \in Int /\ Past(clock, done[t])
  BY DoneIsInt DEF CoarseAll, CoarseInv
<1>9. \A k \in Keys : b[k] # {} => done[1] < k[1] + 2 * Width[1]
  <2> SUFFICES ASSUME NEW k \in Keys, b[k] # {} PROVE done[1] < k[1] + 2 * Width[1]
    OBVIOUS
  <2>1. k = <<Start(1, m.at), m.node>> \/ b[k] = open[k]
    BY <1>1, <1>2 DEF Accumulated, Buckets
  <2>2. CASE k = <<Start(1, m.at), m.node>>
    <3>1. done[1] \in Int /\ done[1] <= m.at + Width[1] /\ 1 \in Tiers
      BY <1>5, <1>8 DEF Tiers
    <3>2. m.at < Start(1, m.at) + Width[1] /\ Start(1, m.at) \in Int
      BY <1>1, StartBounds
    <3>3. m.at \in Int /\ Width[1] \in Int /\ k[1] = Start(1, m.at)
      BY <1>1, <2>2, <3>1, WidthType DEF Times
    <3> QED BY <3>1, <3>2, <3>3
  <2>3. CASE b[k] = open[k]
    BY <2>3 DEF CoarseAll, FlushInv
  <2> QED BY <2>1, <2>2, <2>3
<1>10. \A t \in {2, 3} : Good(written', lost, t, rows[t])
  BY <1>6 DEF CoarseAll, CoarseInv, Tiers
<1>11. Covers(written', lost, rows[2], done[2])
  BY <1>6, <1>8 DEF CoarseAll, CoarseInv, Tiers
<1>12. /\ \A t \in {2, 3} : Good(written', lost', t, rows'[t]) /\ Late(clock, t, rows'[t])
       /\ Covers(written', lost', rows'[2], done'[2])
       /\ \A by : Covers(written', lost, rows[2], by) => Covers(written', lost', rows'[2], by)
       /\ \A t \in Tiers : Past(clock, done'[t])
       /\ \A k \in Keys : open'[k] # {} =>
            done'[1] < k[1] + 2 * Width[1] /\ now - Every[1] < k[1] + 2 * Width[1]
       /\ \A t \in Tiers : KeepsWhole(lost', rows, rows', t)
  <2>1. CoarseInv
    BY DEF CoarseAll
  <2> QED BY <1>0, <1>3, <1>4, <1>6, <1>7, <1>9, <1>10, <1>11, <2>1, MaintenanceIsCoarse
<1>13. CoarseInv'
  BY <1>0, <1>12 DEF CoarseInv
<1>14. FlushInv'
  BY <1>0, <1>3, <1>12, TurnIsFlushed
<1>15. CommandInv'
  <2>1. Past(clock, job.now)
    BY DEF CoarseAll, CommandInv, Past
  <2>2. ASSUME NEW t \in {2, 3}, NEW row, Good(written, lost, t, row), Ripe(t, row, job.now)
        PROVE  Good(written', lost, t, row)
    <3>1. t \in Tiers /\ Late(clock, t, row)
      BY <1>2, <2>1, <2>2, RipeIsLate DEF Tiers
    <3> QED BY <1>6, <2>2, <3>1
  <2>3. \A row : Covers(written, lost, row, job.now) => Covers(written', lost, row, job.now)
    BY <1>2, <1>6, <2>1
  <2>4. lost \subseteq lost'
    BY <1>0, <1>2, <1>3, MaintenanceEffect
  <2>5. Covers(written, lost, rows[2], job.now) => Covers(written', lost', rows'[2], job.now)
    BY <1>12, <2>3
  <2> QED BY <1>0, <2>2, <2>3, <2>4, <2>5, CommandStays DEF CoarseAll
<1> QED BY <1>12, <1>13, <1>14, <1>15 DEF CoarseAll

LEMMA IdleKeepsCoarse ==
  ASSUME TablesInStep, TypeOK, SinkInv, CoarseAll, NEW ok \in 0 .. 5, Idle(ok)
  PROVE  CoarseAll' /\ \A t \in Tiers : KeepsWhole(lost', rows, rows', t)
<1>0. /\ Maintenance(open, clock, ok) /\ clock' = clock /\ job' = job /\ turn' = clock
      /\ written' = written
  BY DEF Idle, Maintenance
<1>1. /\ open \in Buckets /\ rows \in [Tiers -> Buckets] /\ lost \in SUBSET Keys
      /\ clock \in Int /\ written \in Writes
  BY DEF TypeOK, Buckets, Times, Writes
<1>2. CoarseInv /\ CommandInv /\ FlushInv /\ Past(clock, clock)
  BY <1>1 DEF CoarseAll, Past
<1>3. /\ \A t \in {2, 3} : Good(written, lost', t, rows'[t]) /\ Late(clock, t, rows'[t])
      /\ Covers(written, lost', rows'[2], done'[2])
      /\ \A by : Covers(written, lost, rows[2], by) => Covers(written, lost', rows'[2], by)
      /\ \A t \in Tiers : Past(clock, done'[t])
      /\ \A k \in Keys : open'[k] # {} =>
           done'[1] < k[1] + 2 * Width[1] /\ clock - Every[1] < k[1] + 2 * Width[1]
      /\ \A t \in Tiers : KeepsWhole(lost', rows, rows', t)
  <2>1. Placed(written, lost, open, rows[1])
    BY InOnePlaceIs
  <2>2. \A t \in {2, 3} : Good(written, lost, t, rows[t])
    BY <1>2 DEF CoarseInv
  <2>3. Covers(written, lost, rows[2], done[2])
    BY <1>2 DEF CoarseInv
  <2>4. \A k \in Keys : open[k] # {} => done[1] < k[1] + 2 * Width[1]
    BY <1>2 DEF FlushInv
  <2> QED BY <1>0, <1>1, <1>2, <2>1, <2>2, <2>3, <2>4, MaintenanceIsCoarse
<1>4. CoarseInv'
  BY <1>0, <1>3 DEF CoarseInv
<1>5. FlushInv'
  <2>1. clock <= clock
    BY <1>1
  <2> QED BY <1>0, <1>1, <1>3, <2>1, TurnIsFlushed
<1>6. CommandInv'
  <2>1. lost \subseteq lost'
    BY <1>0, <1>1, MaintenanceEffect
  <2> QED BY <1>0, <1>2, <1>3, <2>1, CommandStays
<1> QED BY <1>3, <1>4, <1>5, <1>6 DEF CoarseAll

\* It holds at the start.
LEMMA InitIsCoarse == Init => CoarseAll
<1> SUFFICES ASSUME Init PROVE CoarseAll
  OBVIOUS
<1>1. \A t \in Tiers : \A k \in Keys : rows[t][k] = {} /\ open[k] = {}
  BY DEF Init, NoRows
<1>2. /\ \A t \in {2, 3} : Good(written, lost, t, rows[t]) /\ Late(clock, t, rows[t])
      /\ clock = 0 /\ turn = 0 /\ done = Unset
  BY <1>1 DEF Init, Good, Late, Tiers
<1>3. \A t \in Tiers : Past(clock, done[t])
  <2>1. \A t \in Tiers : Every[t] \in Nat /\ Unset[t] = 0 - Every[t]
    BY SinkAssumption DEF Unset
  <2> QED BY <1>2, <2>1 DEF Past
<1>4. Covers(written, lost, rows[2], done[2])
  <2>1. \A k \in Keys : WrittenBy(written, 2, k) = {}
    BY KeyType DEF Init, WrittenBy
  <2> QED BY <2>1 DEF Covers
<1>5. CommandInv
  <2>1. job.now = 0 /\ job.next = "none"
    BY DEF Init, NoJob
  <2> QED BY <1>2, <2>1 DEF CommandInv
<1>6. FlushInv
  <2>1. Stall \in Nat /\ \A k \in Keys : open[k] = {}
    BY <1>1, SinkAssumption DEF Tiers
  <2> QED BY <1>2, <2>1 DEF FlushInv
<1> QED BY <1>2, <1>3, <1>4, <1>5, <1>6 DEF CoarseAll, CoarseInv

\* A submitted or failed snapshot and the passage of time.
LEMMA OthersKeepCoarse ==
  ASSUME TypeOK, CoarseAll, (\E n \in Nodes, at \in Times : Submit(n, at)) \/ WorkFails \/ Tick \/ UNCHANGED vars
  PROVE  CoarseAll'
<1>1. /\ open' = open /\ rows' = rows /\ done' = done /\ turn' = turn
      /\ written' = written /\ lost' = lost /\ job' = job
  BY DEF Submit, WorkFails, Tick, vars
<1>2. clock' = clock \/ (clock' = clock + 1 /\ clock + 1 <= turn + Stall)
  BY DEF Submit, WorkFails, Tick, vars
<1>3. CoarseInv' /\ CommandInv'
  BY <1>1, <1>2, CoarseStays DEF CoarseAll
<1>4. FlushInv'
  <2>1. clock \in Int /\ turn \in Int /\ Stall \in Int
    BY SinkAssumption DEF TypeOK, Times
  <2>2. turn <= clock /\ clock <= turn + Stall
    BY DEF CoarseAll, FlushInv
  <2>3. turn' <= clock' /\ clock' <= turn' + Stall
    BY <1>1, <1>2, <2>1, <2>2
  <2>4. \A k \in Keys : open[k] # {} =>
          done[1] < k[1] + 2 * Width[1] /\ turn - Every[1] < k[1] + 2 * Width[1]
    BY DEF CoarseAll, FlushInv
  <2> QED BY <1>1, <2>3, <2>4 DEF FlushInv
<1> QED BY <1>3, <1>4 DEF CoarseAll

LEMMA RestartKeepsCoarse ==
  ASSUME TypeOK, CoarseAll, NEW graceful \in BOOLEAN, Restart(graceful)
  PROVE  CoarseAll'
<1> DEFINE ready == IF graceful THEN Ready(open, clock) ELSE {}
<1>1. /\ rows' = Upserted(rows, open, ready) /\ open' = NoRows /\ lost \subseteq lost'
      /\ done' = Unset /\ turn' = clock /\ clock' = clock /\ written' = written /\ job' = job
  BY DEF Restart
<1> HIDE DEF ready
<1>2. rows'[2] = rows[2] /\ rows'[3] = rows[3]
  BY <1>1 DEF Upserted, TypeOK, Tiers
<1>3. CoarseInv' /\ CommandInv'
  BY <1>1, <1>2, CoarseStays DEF CoarseAll
<1>4. FlushInv'
  <2>1. clock \in Int /\ Stall \in Nat
    BY SinkAssumption DEF TypeOK, Times
  <2>2. turn' <= clock' /\ clock' <= turn' + Stall
    BY <1>1, <2>1
  <2>3. \A k \in Keys : open'[k] = {}
    BY <1>1 DEF NoRows
  <2> QED BY <2>2, <2>3 DEF FlushInv
<1> QED BY <1>3, <1>4 DEF CoarseAll

\* A command that is over has read nothing.
LEMMA NoJobIsFine ==
  ASSUME TypeOK, job' = NoJob, clock' = clock
  PROVE  CommandInv'
<1>1. job'.now = 0 /\ job'.next = "none" /\ 0 <= clock'
  BY DEF NoJob, TypeOK, Times
<1> QED BY <1>1 DEF CommandInv

LEMMA MaintainKeepsCoarse ==
  ASSUME TablesInStep, TypeOK, SinkInv, CoarseAll, Maintain
  PROVE  CoarseAll'
<1>0. /\ rows \in [Tiers -> Buckets] /\ lost \in SUBSET Keys /\ written \in Writes
      /\ clock \in Int /\ job.now \in Int
  BY DEF TypeOK, Buckets, Times, Writes
<1>1. UNCHANGED <<clock, open, done, turn, written>>
  BY MaintainType
<1>2. CoarseInv /\ CommandInv /\ FlushInv /\ job.now <= clock /\ Past(clock, job.now)
  BY DEF CoarseAll, CommandInv, Past
<1>3. FlushInv'
  BY <1>1, <1>2 DEF FlushInv
<1>4. Placed(written, lost, open, rows[1])
  BY InOnePlaceIs
<1>5. CASE MaintainBegin
  <2>1. rows' = rows /\ lost' = lost
    BY <1>5 DEF MaintainBegin
  <2>2. job'.next = "store2" /\ job'.now = clock /\ job'.read = Read(rows, 2, clock)
    BY <1>5 DEF MaintainBegin
  <2>3. clock <= clock
    BY <1>0
  <2>4. Flushed(open, clock)
    BY <1>0, <1>2, <2>3, OpenIsFlushed
  <2>5. /\ Good(written, lost, 2, Read(rows, 2, clock))
        /\ Covers(written, lost, Read(rows, 2, clock), clock)
        /\ Ripe(2, Read(rows, 2, clock), clock)
    BY <1>0, <1>4, <2>4, ReadTwo
  <2>6. CommandInv'
    BY <1>1, <2>1, <2>2, <2>3, <2>5 DEF CommandInv, Reading
  <2>7. CoarseInv'
    BY <1>1, <1>2, <2>1, CoarseStays
  <2> QED BY <1>3, <2>6, <2>7 DEF CoarseAll
<1>6. ASSUME NEW t \in {2, 3}, NEW this, NEW next, MaintainStore(t, this, next), Reading(t),
             t = 2 => Covers(written, lost, job.read, job.now)
      PROVE  /\ CoarseInv'
             /\ t = 2 => Covers(written', lost', rows'[2], job'.now)
             /\ job'.next = next /\ job'.now <= clock'
  <2>1. rows' = Stored(rows, t, job.read) /\ lost' = lost /\ job'.next = next /\ job'.now = job.now
    BY <1>6 DEF MaintainStore
  <2>2. Good(written, lost, t, job.read) /\ Late(clock, t, job.read)
    <3>1. t \in Tiers
      BY DEF Tiers
    <3> QED BY <1>0, <1>2, <1>6, <3>1, RipeIsLate DEF Reading
  <2>3. ASSUME NEW u \in {2, 3} PROVE Good(written, lost, u, rows'[u]) /\ Late(clock, u, rows'[u])
    <3>1. Good(written, lost, u, rows[u]) /\ Late(clock, u, rows[u])
      BY <1>2 DEF CoarseInv
    <3> QED BY <1>0, <2>1, <2>2, <3>1, StoredIsGood, StoredIsLate
  <2>4. Covers(written, lost, rows'[2], done[2])
    <3>1. Covers(written, lost, rows[2], done[2])
      BY <1>2 DEF CoarseInv
    <3> QED BY <1>0, <2>1, <3>1, StoredCovers
  <2>5. t = 2 => Covers(written, lost, rows'[2], job.now)
    BY <1>0, <1>6, <2>1, StoredCovers
  <2>6. \A u \in Tiers : Past(clock, done[u])
    BY <1>2 DEF CoarseInv
  <2>7. CoarseInv'
    BY <1>1, <2>1, <2>3, <2>4, <2>6 DEF CoarseInv
  <2> QED BY <1>1, <1>2, <2>1, <2>5, <2>7
<1>7. CASE MaintainStore(2, "store2", "read3")
  <2>1. Reading(2) /\ Covers(written, lost, job.read, job.now)
    BY <1>2, <1>7 DEF CommandInv, MaintainStore
  <2>2. /\ CoarseInv' /\ Covers(written', lost', rows'[2], job'.now)
        /\ job'.next = "read3" /\ job'.now <= clock'
    BY <1>6, <1>7, <2>1
  <2>3. CommandInv'
    BY <2>2 DEF CommandInv
  <2> QED BY <1>3, <2>2, <2>3 DEF CoarseAll
<1>8. CASE MaintainStore(3, "store3", "prune")
  <2>1. Reading(3)
    BY <1>2, <1>8 DEF CommandInv, MaintainStore
  <2>2. CoarseInv' /\ job'.next = "prune" /\ job'.now <= clock'
    BY <1>6, <1>8, <2>1
  <2>3. CommandInv'
    BY <2>2 DEF CommandInv
  <2> QED BY <1>3, <2>2, <2>3 DEF CoarseAll
<1>9. CASE MaintainRead
  <2>1. /\ rows' = rows /\ lost' = lost /\ job.next = "read3"
        /\ job'.next = "store3" /\ job'.now = job.now /\ job'.read = Read(rows, 3, job.now)
    BY <1>9 DEF MaintainRead
  <2>2. job.now - Width[3] + Width[2] <= job.now
    <3>1. Width[2] \in Int /\ Width[3] \in Int /\ Width[2] <= Width[3]
      BY WidthType DEF Tiers
    <3> QED BY <1>0, <3>1
  <2>3. Good(written, lost, 2, rows[2]) /\ Covers(written, lost, rows[2], job.now)
    BY <1>2, <2>1 DEF CoarseInv, CommandInv
  <2>4. Good(written, lost, 3, Read(rows, 3, job.now)) /\ Ripe(3, Read(rows, 3, job.now), job.now)
    BY <1>0, <2>2, <2>3, ReadThree
  <2>5. CommandInv'
    BY <1>1, <1>2, <2>1, <2>4 DEF CommandInv, Reading
  <2>6. CoarseInv'
    BY <1>1, <1>2, <2>1, CoarseStays
  <2> QED BY <1>3, <2>5, <2>6 DEF CoarseAll
<1>10. CASE MaintainPrune
  <2>1. /\ rows' = Pruned(rows, job.now) /\ lost' = lost \cup PrunedKeys(rows, job.now)
        /\ lost \subseteq lost' /\ job' = NoJob
    BY <1>10 DEF MaintainPrune
  <2>2. ASSUME NEW t \in {2, 3} PROVE Good(written, lost', t, rows'[t]) /\ Late(clock, t, rows'[t])
    <3>1. t \in Tiers /\ Good(written, lost, t, rows[t]) /\ Late(clock, t, rows[t])
      BY <1>2 DEF CoarseInv, Tiers
    <3>2. Good(written, lost, t, rows'[t]) /\ Late(clock, t, rows'[t])
      BY <2>1, <3>1, PrunedIsGood
    <3> QED BY <2>1, <3>2, LostGrows
  <2>3. Covers(written, lost', rows'[2], done[2])
    <3>1. Flushed(open, job.now)
      BY <1>0, <1>2, OpenIsFlushed
    <3>2. Covers(written, lost, rows[2], done[2])
      BY <1>2 DEF CoarseInv
    <3> QED BY <1>0, <1>4, <2>1, <3>1, <3>2, PrunedIsCovered
  <2>4. \A t \in Tiers : Past(clock, done[t])
    BY <1>2 DEF CoarseInv
  <2>5. CoarseInv'
    BY <1>1, <2>2, <2>3, <2>4 DEF CoarseInv
  <2>6. CommandInv'
    BY <1>1, <2>1, NoJobIsFine
  <2> QED BY <1>3, <2>5, <2>6 DEF CoarseAll
<1>11. CASE MaintainFails
  <2>1. rows' = rows /\ lost' = lost /\ job' = NoJob
    BY <1>11 DEF MaintainFails
  <2>2. CoarseInv'
    BY <1>1, <1>2, <2>1, CoarseStays
  <2>3. CommandInv'
    BY <1>1, <2>1, NoJobIsFine
  <2> QED BY <1>3, <2>2, <2>3 DEF CoarseAll
<1> QED BY <1>5, <1>7, <1>8, <1>9, <1>10, <1>11 DEF Maintain, MaintainGoesOn

\* The invariant behind both theorems on the coarse tables.
LEMMA CoarseAllHolds == ClocksAgree /\ TablesInStep => (Spec => []CoarseAll)
<1> SUFFICES ASSUME ClocksAgree, TablesInStep PROVE Spec => []CoarseAll
  OBVIOUS
<1>1. Init => CoarseAll
  BY InitIsCoarse
<1>2. TypeOK /\ SinkInv /\ CoarseAll /\ [Next]_vars => CoarseAll'
  <2> SUFFICES ASSUME TypeOK, SinkInv, CoarseAll, [Next]_vars PROVE CoarseAll'
    OBVIOUS
  <2>1. CASE \E ok \in 0 .. 5 : Work(ok)
    BY <2>1, WorkKeepsCoarse
  <2>2. CASE \E ok \in 0 .. 5 : Idle(ok)
    BY <2>2, IdleKeepsCoarse
  <2>3. CASE \E graceful \in BOOLEAN : Restart(graceful)
    BY <2>3, RestartKeepsCoarse
  <2>4. CASE Maintain
    BY <2>4, MaintainKeepsCoarse
  <2>5. CASE (\E n \in Nodes, at \in Times : Submit(n, at)) \/ WorkFails \/ Tick \/ UNCHANGED vars
    BY <2>5, OthersKeepCoarse
  <2> QED BY <2>1, <2>2, <2>3, <2>4, <2>5 DEF Next, Worker
<1>3. Spec => []SinkInv
  BY SinkInvHolds
<1> QED BY <1>1, <1>2, <1>3, TypeCorrect, PTL DEF Spec

\* For every number of nodes, skews that agree and tables that are in step:
\* whatever fails, whenever the manager restarts, and wherever a maintenance
\* command's statements come between its own, a 2m or 1h row none of whose 20s
\* buckets was lost sums up every sample written for it (db.py,
\* rollup_gpu_metric_rollups, maintain).
THEOREM CoarseRowsAreComplete ==
  ClocksAgree /\ TablesInStep => (Spec => []CoarseRowsComplete)
<1>1. CoarseAll => CoarseRowsComplete
  BY DEF CoarseAll, CoarseInv, Good, Whole, CoarseRowsComplete, WrittenIn, WrittenBy
<1> QED BY <1>1, CoarseAllHolds, PTL

\* Under the same conditions: by the time a bucket is closed and the worker had
\* its next flush, what was written for it has its row, or was lost; also when
\* its node falls silent (db.py, _worker, which maintains on a timeout too).
THEOREM WrittenInTimeHolds ==
  ClocksAgree /\ TablesInStep => (Spec => []WrittenInTime)
<1> SUFFICES ASSUME ClocksAgree, TablesInStep PROVE Spec => []WrittenInTime
  OBVIOUS
<1>1. TypeOK /\ SinkInv /\ CoarseAll => WrittenInTime
  <2> SUFFICES ASSUME TypeOK, SinkInv, CoarseAll, NEW k \in Keys, k \notin lost, WrittenIn(1, k) # {},
                      k[1] + 2 * Width[1] + Every[1] + Stall <= clock, rows[1][k] = {}
               PROVE  FALSE
    BY DEF WrittenInTime
  <2>1. open[k] # {}
    BY DEF SinkInv, InOnePlace
  <2>2. turn - Every[1] < k[1] + 2 * Width[1] /\ clock <= turn + Stall
    BY <2>1 DEF CoarseAll, FlushInv
  <2>3. /\ Stall \in Int /\ Every[1] \in Int /\ Width[1] \in Int
        /\ k[1] \in Int /\ clock \in Int /\ turn \in Int
    <3>1. Stall \in Int /\ Every[1] \in Int
      BY SinkAssumption DEF Tiers
    <3>2. Width[1] \in Int /\ k[1] \in Int
      BY KeyType, WidthType DEF Tiers
    <3> QED BY <3>1, <3>2 DEF TypeOK, Times
  <2> QED BY <2>2, <2>3
<1>2. Spec => []SinkInv
  BY SinkInvHolds
<1>3. Spec => []CoarseAll
  BY CoarseAllHolds
<1> QED BY <1>1, <1>2, <1>3, TypeCorrect, PTL
----------------------------------------------------------------------------
(* What the tables promise *)

\* The rows there are sum up their buckets, and their buckets are closed.
Held == \A t \in Tiers : Good(written, lost, t, rows[t]) /\ Late(clock, t, rows[t])

LEMMA HeldHolds == SinkInv /\ CoarseAll => Held
<1> SUFFICES ASSUME SinkInv, CoarseAll PROVE Held
  OBVIOUS
<1>1. Good(written, lost, 1, rows[1])
  <2>1. Placed(written, lost, open, rows[1])
    BY InOnePlaceIs
  <2> QED BY <2>1, WholeIsNotLost DEF Good, Placed
<1>2. Late(clock, 1, rows[1])
  BY DEF SinkInv, FlushedLate, Late, Past
<1> QED BY <1>1, <1>2 DEF CoarseAll, CoarseInv, Held, Tiers

\* No new sample is of a row that is there.
Steady(w, v, table) ==
  \A t \in Tiers, k \in Keys : HasRow(table, t, k) => WrittenBy(v, t, k) = WrittenBy(w, t, k)

\* What every step does to what readers of the tables see.
StoreKept ==
  /\ \A n \in Nodes : written[n] \subseteq written'[n]
  /\ lost \subseteq lost'
  /\ \A f \in lost' \ lost : Store!Old(f) \/ counts'.faults < counts.faults
  /\ \A t \in Tiers : KeepsWhole(lost', rows, rows', t)
  /\ Steady(written, written', rows)

LEMMA FaultIsSpent ==
  ASSUME TypeOK, Spend("faults")
  PROVE  counts'.faults < counts.faults
<1>1. counts.faults \in Nat /\ counts' = [counts EXCEPT !["faults"] = @ - 1]
  BY DEF TypeOK, Budget, Spend
<1> QED BY <1>1 DEF TypeOK, Budget

\* What some clock is far enough past is old.
LEMMA PastIsOld ==
  ASSUME TypeOK, NEW now \in Int, Past(clock, now), NEW f \in Keys, f[1] < now - Retention[1]
  PROVE  Store!Old(f)
<1>1. clock \in Int /\ Retention[1] \in Int /\ f[1] \in Int /\ \A n \in Nodes : Skew[n] \in Int
  <2>1. Retention[1] \in Int /\ \A n \in Nodes : Skew[n] \in Int
    BY SinkAssumption DEF Tiers
  <2> QED BY <2>1, KeyType DEF TypeOK, Times
<1>2. CASE now <= clock
  <2>1. f[1] < clock + 0 - Retention[1]
    BY <1>1, <1>2
  <2> QED BY <2>1 DEF Store!Old
<1>3. ASSUME NEW n \in Nodes, now <= clock + Skew[n] PROVE Store!Old(f)
  <2>1. PICK e \in Int : e = Skew[n]
    BY <1>1
  <2>2. f[1] < clock + e - Retention[1]
    BY <1>1, <1>3, <2>1
  <2> QED BY <2>1, <2>2 DEF Store!Old
<1> QED BY <1>2, <1>3 DEF Past

LEMMA MaintenanceLoses ==
  ASSUME TypeOK, NEW buckets \in Buckets, NEW now \in Int, NEW ok \in 0 .. 5, Past(clock, now),
         Maintenance(buckets, now, ok)
  PROVE  \A f \in lost' \ lost : Store!Old(f) \/ counts'.faults < counts.faults
<1>1. PICK table : \/ lost' \subseteq lost \cup PrunedKeys(table, now)
                   \/ Spend("faults")
  BY DEF Maintenance
<1>2. ASSUME NEW f \in PrunedKeys(table, now) PROVE Store!Old(f)
  BY PastIsOld DEF PrunedKeys, Expired
<1> QED BY <1>1, <1>2, FaultIsSpent

LEMMA WorkKeeps ==
  ASSUME ClocksAgree, TablesInStep, TypeOK, SinkInv, CoarseAll, Held, NEW ok \in 0 .. 5, Work(ok)
  PROVE  StoreKept
<1> PICK m : m = Head(queue)
  OBVIOUS
<1> PICK now : now = Later(clock, m.at)
  OBVIOUS
<1> PICK b : b = Accumulated(open, m.node, m.at)
  OBVIOUS
<1>0. /\ queue # << >>
      /\ written' = Added(written, m.node, m.at)
      /\ Maintenance(b, now, ok)
  BY DEF Work, Added
<1>1. m \in [node: Nodes, at: Times] /\ m = queue[1] /\ 1 \in 1 .. Len(queue)
  BY <1>0, HeadType, FirstIsHead DEF TypeOK
<1>2. /\ open \in Buckets /\ rows \in [Tiers -> Buckets] /\ lost \in SUBSET Keys
      /\ clock \in Int /\ written \in Writes
  BY DEF TypeOK, Buckets, Times, Writes
<1>3. b \in Buckets /\ now \in Int
  BY <1>1, <1>2, AccumulatedType DEF Later, Times
<1>4. Past(clock, now)
  <2>1. m.at <= clock + Skew[m.node]
    BY <1>1 DEF SinkInv, QueueFresh
  <2>2. now <= clock \/ now <= clock + Skew[m.node]
    BY <1>2, <2>1 DEF Later
  <2> QED BY <1>1, <2>2 DEF Past
<1>5. Steady(written, written', rows)
  <2>1. \A x \in Int : Past(clock, x) => x <= m.at + Width[1]
    BY <1>0, HeadIsFresh
  <2>2. PICK n \in Nodes, at \in Times : n = m.node /\ at = m.at
    BY <1>1
  <2>3. \A x \in Int : Past(clock, x) => x <= at + Width[1]
    BY <2>1, <2>2
  <2>4. ASSUME NEW t \in Tiers, NEW k \in Keys, HasRow(rows, t, k)
        PROVE  WrittenBy(Added(written, n, at), t, k) = WrittenBy(written, t, k)
    <3>1. Past(clock, k[1] + 2 * Width[t])
      BY <2>4 DEF Held, Late, HasRow
    <3> QED BY <1>2, <2>3, <3>1, ClosedGetsNone
  <2> QED BY <1>0, <2>2, <2>4 DEF Steady
<1>6. \A n \in Nodes : written[n] \subseteq written'[n]
  BY <1>0, <1>2 DEF Added, Writes
<1>7. lost \subseteq lost' /\ \A f \in lost' \ lost : Store!Old(f) \/ counts'.faults < counts.faults
  BY <1>0, <1>2, <1>3, <1>4, MaintenanceEffect, MaintenanceLoses
<1>8. \A t \in Tiers : KeepsWhole(lost', rows, rows', t)
  BY WorkKeepsCoarse
<1> QED BY <1>5, <1>6, <1>7, <1>8 DEF StoreKept

LEMMA IdleKeeps ==
  ASSUME TablesInStep, TypeOK, SinkInv, CoarseAll, NEW ok \in 0 .. 5, Idle(ok)
  PROVE  StoreKept
<1>0. Maintenance(open, clock, ok) /\ written' = written
  BY DEF Idle
<1>1. /\ open \in Buckets /\ rows \in [Tiers -> Buckets] /\ lost \in SUBSET Keys /\ clock \in Int
      /\ Past(clock, clock)
  BY DEF TypeOK, Buckets, Times, Past
<1>2. lost \subseteq lost' /\ \A f \in lost' \ lost : Store!Old(f) \/ counts'.faults < counts.faults
  BY <1>0, <1>1, MaintenanceEffect, MaintenanceLoses
<1>3. \A t \in Tiers : KeepsWhole(lost', rows, rows', t)
  BY IdleKeepsCoarse
<1> QED BY <1>0, <1>2, <1>3 DEF StoreKept, Steady

LEMMA RestartKeeps ==
  ASSUME TypeOK, NEW graceful \in BOOLEAN, Restart(graceful)
  PROVE  StoreKept
<1> DEFINE ready == IF graceful THEN Ready(open, clock) ELSE {}
<1>1. /\ rows' = Upserted(rows, open, ready) /\ lost \subseteq lost' /\ written' = written
      /\ counts'.faults < counts.faults
  BY FaultIsSpent DEF Restart
<1>2. ready \in SUBSET Keys /\ \A k \in ready : open[k] # {}
  BY DEF Ready
<1>3. rows \in [Tiers -> Buckets]
  BY DEF TypeOK, Buckets
<1> HIDE DEF ready
<1>4. \A t \in Tiers : KeepsWhole(lost', rows, rows', t)
  BY <1>1, <1>2, <1>3, UpsertedKeepsRows DEF KeepsWhole
<1> QED BY <1>1, <1>4 DEF StoreKept, Steady

LEMMA MaintainKeeps ==
  ASSUME TablesInStep, TypeOK, SinkInv, CoarseAll, Maintain
  PROVE  StoreKept
<1>0. /\ rows \in [Tiers -> Buckets] /\ lost \in SUBSET Keys /\ written \in Writes
      /\ job.now \in Int /\ written' = written
  BY MaintainType DEF TypeOK, Buckets, Times, Writes
<1>1. CASE MaintainBegin \/ MaintainRead \/ MaintainFails
  <2>1. rows' = rows /\ lost' = lost
    BY <1>1 DEF MaintainBegin, MaintainRead, MaintainFails
  <2> QED BY <1>0, <2>1 DEF StoreKept, Steady, KeepsWhole
<1>2. CASE MaintainStore(2, "store2", "read3") \/ MaintainStore(3, "store3", "prune")
  <2>1. PICK u \in {2, 3} : rows' = Stored(rows, u, job.read) /\ lost' = lost
    BY <1>2 DEF MaintainStore
  <2>2. \A t \in Tiers : KeepsWhole(lost', rows, rows', t)
    BY <1>0, <2>1, StoredKeepsRows DEF KeepsWhole
  <2> QED BY <1>0, <2>1, <2>2 DEF StoreKept, Steady
<1>3. CASE MaintainPrune
  <2>1. rows' = Pruned(rows, job.now) /\ lost' = lost \cup PrunedKeys(rows, job.now)
    BY <1>3 DEF MaintainPrune
  <2>2. job.now <= clock /\ Past(clock, job.now) /\ CoarseInv /\ FlushInv
    BY DEF CoarseAll, CommandInv, Past
  <2>3. Placed(written, lost, open, rows[1]) /\ Flushed(open, job.now)
    BY <1>0, <2>2, InOnePlaceIs, OpenIsFlushed
  <2>4. \A t \in Tiers : KeepsWhole(lost', rows, rows', t)
    <3>1. \A t \in {2, 3} : Good(written, lost, t, rows[t])
      BY <2>2 DEF CoarseInv
    <3> QED BY <1>0, <2>1, <2>3, <3>1, PrunedKeepsWhole
  <2>5. \A f \in lost' \ lost : Store!Old(f)
    <3>1. ASSUME NEW f \in PrunedKeys(rows, job.now) PROVE Store!Old(f)
      BY <1>0, <2>2, PastIsOld DEF PrunedKeys, Expired
    <3> QED BY <2>1, <3>1
  <2> QED BY <1>0, <2>1, <2>4, <2>5 DEF StoreKept, Steady
<1> QED BY <1>1, <1>2, <1>3 DEF Maintain, MaintainGoesOn

LEMMA OthersKeep ==
  ASSUME (\E n \in Nodes, at \in Times : Submit(n, at)) \/ WorkFails \/ Tick \/ UNCHANGED vars
  PROVE  StoreKept
<1>1. rows' = rows /\ written' = written /\ lost' = lost
  BY DEF Submit, WorkFails, Tick, vars
<1> QED BY <1>1 DEF StoreKept, Steady, KeepsWhole

\* A step that keeps what is there can only have published what is new.
LEMMA KeptIsPublished ==
  ASSUME StoreKept, Held, Held'
  PROVE  Store!Next
<1> SUFFICES ASSUME NEW t \in Tiers, NEW k \in Keys, Store!Whole(t, k)'
             PROVE  Store!Keep(t, k) \/ Store!Publish(t, k)
  BY DEF StoreKept, Store!Next
<1>1. Whole(lost', t, k) /\ Whole(lost, t, k)
  BY DEF StoreKept, Whole, Store!Whole, Store!Bucket, Start
<1>2. Good(written, lost, t, rows[t]) /\ Good(written', lost', t, rows'[t])
  BY DEF Held
<1>3. Store!Samples(t, k)' = WrittenBy(written', t, k) /\ Store!Samples(t, k) = WrittenBy(written, t, k)
  BY DEF Store!Samples, Store!Bucket, WrittenBy, Start
<1>4. CASE rows[t][k] = {}
  BY <1>1, <1>2, <1>3, <1>4 DEF Good, Store!Keep, Store!Publish
<1>5. CASE rows[t][k] # {}
  <2>1. rows'[t][k] # {} /\ WrittenBy(written', t, k) = WrittenBy(written, t, k)
    BY <1>1, <1>5 DEF StoreKept, KeepsWhole, Steady, HasRow
  <2>2. rows[t][k] = WrittenBy(written, t, k) /\ rows'[t][k] = WrittenBy(written', t, k)
    BY <1>1, <1>2, <1>5, <2>1 DEF Good
  <2> QED BY <1>3, <2>1, <2>2 DEF Store!Keep
<1> QED BY <1>4, <1>5

\* For every number of nodes, skews that agree and tables that are in step,
\* whatever fails, restarts or runs beside the manager: to its readers the
\* history database is the abstract store, whose rows are published once,
\* complete, and are final, and which loses nothing but to faults and to the
\* retention (db.py, _run_scheduled_maintenance, maintain, stop).
THEOREM StoreImplemented ==
  ClocksAgree /\ TablesInStep => (Spec => ImplementsStore)
<1> SUFFICES ASSUME ClocksAgree, TablesInStep PROVE Spec => ImplementsStore
  OBVIOUS
<1>1. Init => Store!Init
  BY KeyType DEF Init, NoRows, Tiers, Store!Init
<1>2. TypeOK /\ SinkInv /\ CoarseAll /\ Held /\ Held' /\ [Next]_vars => [Store!Next]_Store!vars
  <2> SUFFICES ASSUME TypeOK, SinkInv, CoarseAll, Held, Held', [Next]_vars PROVE Store!Next
    OBVIOUS
  <2>1. CASE \E ok \in 0 .. 5 : Work(ok)
    BY <2>1, WorkKeeps, KeptIsPublished
  <2>2. CASE \E ok \in 0 .. 5 : Idle(ok)
    BY <2>2, IdleKeeps, KeptIsPublished
  <2>3. CASE \E graceful \in BOOLEAN : Restart(graceful)
    BY <2>3, RestartKeeps, KeptIsPublished
  <2>4. CASE Maintain
    BY <2>4, MaintainKeeps, KeptIsPublished
  <2>5. CASE (\E n \in Nodes, at \in Times : Submit(n, at)) \/ WorkFails \/ Tick \/ UNCHANGED vars
    BY <2>5, OthersKeep, KeptIsPublished
  <2> QED BY <2>1, <2>2, <2>3, <2>4, <2>5 DEF Next, Worker
<1>3. Spec => []SinkInv
  BY SinkInvHolds
<1>4. Spec => []CoarseAll
  BY CoarseAllHolds
<1>5. SinkInv /\ CoarseAll => Held
  BY HeldHolds
<1> QED BY <1>1, <1>2, <1>3, <1>4, <1>5, TypeCorrect, PTL DEF Spec, ImplementsStore, Store!Spec
----------------------------------------------------------------------------
(* Queries *)

LEMMA MaintenanceKeepsRows ==
  ASSUME NEW buckets \in Buckets, NEW now \in Int, NEW ok \in 0 .. 5, rows \in [Tiers -> Buckets],
         Maintenance(buckets, now, ok),
         NEW u \in Tiers, NEW k \in Keys, HasRow(rows, u, k), k \notin Expired(u, now)
  PROVE  HasRow(rows', u, k)
<1> DEFINE Due(t)  == now - done[t] >= Every[t]
           Runs(t) == Due(t) /\ t <= ok
           sweep   == now - pruned >= PruneEvery
           ready   == IF Due(1) THEN Ready(buckets, now) ELSE {}
           t1 == IF Runs(1) THEN Upserted(rows, buckets, ready) ELSE rows
           t2 == IF Runs(2) THEN Rolled(t1, 2, now) ELSE t1
           t3 == IF Runs(3) THEN Rolled(t2, 3, now) ELSE t2
<1>1. rows' = IF sweep /\ ok >= 4 THEN Pruned(t3, now) ELSE t3
  BY DEF Maintenance
<1>2. ready \in SUBSET Keys /\ \A x \in ready : buckets[x] # {}
  BY DEF Ready
<1> HIDE DEF ready, sweep
<1>3. t1 \in [Tiers -> Buckets] /\ HasRow(t1, u, k)
  BY <1>2, UpsertedType, UpsertedKeepsRows
<1> HIDE DEF t1
<1>4. t2 \in [Tiers -> Buckets] /\ HasRow(t2, u, k)
  BY <1>3, RolledType, RolledKeepsRows
<1> HIDE DEF t2
<1>5. t3 \in [Tiers -> Buckets] /\ HasRow(t3, u, k)
  BY <1>4, RolledType, RolledKeepsRows
<1> HIDE DEF t3
<1> QED BY <1>1, <1>5, PrunedKeepsRows

\* The table a query goes to keeps its rows for as long as the query asks for.
LEMMA AnswerIsInReach ==
  ASSUME TypeOK, NEW since \in Times, clock - since <= Retention[3], NEW k \in Answer(since),
         NEW now \in Int, now <= clock
  PROVE  /\ Table(since) \in Tiers /\ k \in Keys /\ HasRow(rows, Table(since), k)
         /\ k \notin Expired(Table(since), now)
<1>1. k \in Keys /\ k[1] >= since /\ k[1] \in Int /\ HasRow(rows, Table(since), k)
  BY KeyType DEF Answer, HasRow
<1>2. clock \in Int /\ since \in Int /\ \A t \in Tiers : Retention[t] \in Int
  BY SinkAssumption DEF TypeOK, Times
<1>3. Table(since) \in Tiers /\ clock - since <= Retention[Table(since)]
  BY DEF Table, Tiers
<1>4. PICK r \in Int : r = Retention[Table(since)]
  BY <1>2, <1>3
<1>5. k[1] >= now - r
  <2>1. clock - since <= r
    BY <1>3, <1>4
  <2> QED BY <1>1, <1>2, <2>1
<1> QED BY <1>1, <1>2, <1>3, <1>4, <1>5 DEF Expired

\* What keeps an answer: the tables keep every row that is not past its
\* retention by a clock that is not ahead of the manager's.
LEMMA AnswerKept ==
  ASSUME TypeOK, clock' = clock, NEW now \in Int, now <= clock,
         \A u \in Tiers, k \in Keys : HasRow(rows, u, k) /\ k \notin Expired(u, now) => HasRow(rows', u, k)
  PROVE  \A since \in Times : clock - since <= Retention[3] => Answer(since) \subseteq Answer(since)'
<1> SUFFICES ASSUME NEW since \in Times, clock - since <= Retention[3], NEW k \in Answer(since)
             PROVE  k \in Answer(since)'
  OBVIOUS
<1>1. HasRow(rows', Table(since), k)
  BY AnswerIsInReach
<1>2. Table(since)' = Table(since)
  BY DEF Table
<1> QED BY <1>1, <1>2 DEF Answer, HasRow

\* A snapshot in the queue was stamped by its node's clock.
QueuePast == \A i \in 1 .. Len(queue) : queue[i].at <= clock + Skew[queue[i].node]

LEMMA QueuePastKept ==
  ASSUME TypeOK, QueuePast, [Next]_vars
  PROVE  QueuePast'
<1> DEFINE Item == [node: Nodes, at: Times]
<1>0. queue \in Seq(Item) /\ clock \in Int /\ \A n \in Nodes : Skew[n] \in Int
  BY SinkAssumption DEF TypeOK, Times
<1>1. \A i \in 1 .. Len(queue) : queue[i] \in Item
  <2> HIDE DEF Item
  <2> QED BY <1>0
<1>2. ASSUME queue' = Tail(queue), queue # << >>, clock' = clock PROVE QueuePast'
  <2>1. \A i \in 1 .. Len(Tail(queue)) : Tail(queue)[i].at <= clock + Skew[Tail(queue)[i].node]
    BY <1>0, <1>2, TailShifts DEF QueuePast
  <2> QED BY <1>2, <2>1 DEF QueuePast
<1>3. ASSUME queue' = queue, clock' = clock PROVE QueuePast'
  BY <1>3 DEF QueuePast
<1>4. ASSUME NEW n \in Nodes, NEW at \in Times, Submit(n, at) PROVE QueuePast'
  <2> DEFINE item == [node |-> n, at |-> at]
  <2>1. clock' = clock /\ (queue' = queue \/ queue' = Append(queue, item))
    BY <1>4 DEF Submit
  <2>2. item.at <= clock + Skew[item.node]
    BY <1>4 DEF Submit
  <2> HIDE DEF item, Item
  <2>3. ASSUME NEW i \in 1 .. Len(queue')
        PROVE  (i \in 1 .. Len(queue) /\ queue'[i] = queue[i]) \/ queue'[i] = item
    BY <1>0, <2>1
  <2> QED BY <2>1, <2>2, <2>3 DEF QueuePast
<1>5. CASE Tick
  <2>1. queue' = queue /\ clock' = clock + 1
    BY <1>5 DEF Tick
  <2>2. ASSUME NEW i \in 1 .. Len(queue) PROVE queue[i].at <= clock + 1 + Skew[queue[i].node]
    <3>1. queue[i].at \in Int /\ Skew[queue[i].node] \in Int
      BY <1>0, <1>1 DEF Times
    <3> QED BY <1>0, <3>1 DEF QueuePast
  <2> QED BY <2>1, <2>2 DEF QueuePast
<1>6. CASE \E ok \in 0 .. 5 : Work(ok)
  BY <1>2, <1>6 DEF Work
<1>7. CASE WorkFails
  BY <1>2, <1>7 DEF WorkFails
<1>8. CASE \E graceful \in BOOLEAN : Restart(graceful)
  <2>1. queue' = << >>
    BY <1>8 DEF Restart
  <2> QED BY <2>1 DEF QueuePast
<1>9. CASE (\E ok \in 0 .. 5 : Idle(ok)) \/ Maintain \/ UNCHANGED vars
  BY <1>3, <1>9, MaintainType DEF Idle, vars
<1> QED BY <1>4, <1>5, <1>6, <1>7, <1>8, <1>9 DEF Next, Worker

\* A maintenance command was started in the past.
JobPast == job.now <= clock

LEMMA JobPastKept ==
  ASSUME TypeOK, JobPast, [Next]_vars
  PROVE  JobPast'
<1>0. clock \in Int /\ clock >= 0 /\ job.now \in Int
  BY SinkAssumption DEF TypeOK, Times
<1>1. CASE job' = job /\ (clock' = clock \/ clock' = clock + 1)
  BY <1>0, <1>1 DEF JobPast
<1>2. CASE Maintain
  <2>1. clock' = clock
    BY <1>2, MaintainType
  <2>2. job'.now = clock \/ job'.now = job.now \/ job'.now = 0
    BY <1>2 DEF Maintain, MaintainBegin, MaintainGoesOn, MaintainStore, MaintainRead,
                MaintainPrune, MaintainFails, NoJob
  <2> QED BY <1>0, <2>1, <2>2 DEF JobPast
<1>3. ASSUME Next, ~Maintain PROVE job' = job /\ (clock' = clock \/ clock' = clock + 1)
  BY <1>3 DEF Next, Submit, Worker, Work, Idle, WorkFails, Restart, Tick
<1>4. CASE UNCHANGED vars
  BY <1>1, <1>4 DEF vars
<1> QED BY <1>1, <1>2, <1>3, <1>4

\* As long as no node's clock is ahead, the answer to a query loses rows by the
\* passage of time alone (AnswersKeepRows): what is pruned is out of reach of
\* the table each query goes to (db.py, _select_history_bucket, prune_rollups).
THEOREM AnswersAreKept == Spec => AnswersKeepRows
<1> DEFINE Kept == NoClockAhead /\ clock' = clock =>
              \A since \in Times : clock - since <= Retention[3] => Answer(since) \subseteq Answer(since)'
<1>1. Init => QueuePast /\ JobPast
  BY DEF Init, QueuePast, JobPast, NoJob
<1>2. TypeOK /\ QueuePast /\ JobPast /\ [Next]_vars => (QueuePast /\ JobPast)'
  BY QueuePastKept, JobPastKept
<1>3. TypeOK /\ QueuePast /\ JobPast /\ [Next]_vars => Kept
  <2> SUFFICES ASSUME TypeOK, QueuePast, JobPast, [Next]_vars, NoClockAhead, clock' = clock
               PROVE  \A since \in Times : clock - since <= Retention[3] => Answer(since) \subseteq Answer(since)'
    OBVIOUS
  <2>0. clock \in Int /\ clock <= clock /\ rows \in [Tiers -> Buckets] /\ open \in Buckets
    BY DEF TypeOK, Buckets, Times
  <2>1. ASSUME rows' = rows PROVE \A u \in Tiers, k \in Keys : HasRow(rows, u, k) => HasRow(rows', u, k)
    BY <2>1 DEF HasRow
  <2>2. CASE (\E n \in Nodes, at \in Times : Submit(n, at)) \/ WorkFails \/ Tick \/ UNCHANGED vars
    <3>1. rows' = rows
      BY <2>2 DEF Submit, WorkFails, Tick, vars
    <3> QED BY <2>0, <2>1, <3>1, AnswerKept
  <2>3. ASSUME NEW ok \in 0 .. 5, Work(ok)
        PROVE  \A since \in Times : clock - since <= Retention[3] => Answer(since) \subseteq Answer(since)'
    <3> PICK m : m = Head(queue)
      OBVIOUS
    <3>1. m \in [node: Nodes, at: Times] /\ m = queue[1] /\ 1 \in 1 .. Len(queue)
      BY <2>3, HeadType, FirstIsHead DEF Work, TypeOK
    <3>2. m.at <= clock
      <4>1. m.at <= clock + Skew[m.node] /\ Skew[m.node] <= 0 /\ Skew[m.node] \in Int /\ m.at \in Int
        BY <3>1, SinkAssumption, SMTT(30) DEF QueuePast, NoClockAhead, Times
      <4> QED BY <2>0, <4>1
    <3>3. Later(clock, m.at) = clock
      BY <2>0, <3>1, <3>2 DEF Later, Times
    <3>4. Maintenance(Accumulated(open, m.node, m.at), clock, ok)
      BY <2>3, <3>3 DEF Work
    <3>5. Accumulated(open, m.node, m.at) \in Buckets
      BY <2>0, <3>1, AccumulatedType
    <3> QED BY <2>0, <3>4, <3>5, MaintenanceKeepsRows, AnswerKept
  <2>4. ASSUME NEW ok \in 0 .. 5, Idle(ok)
        PROVE  \A since \in Times : clock - since <= Retention[3] => Answer(since) \subseteq Answer(since)'
    <3>1. Maintenance(open, clock, ok)
      BY <2>4 DEF Idle
    <3> QED BY <2>0, <3>1, MaintenanceKeepsRows, AnswerKept
  <2>5. ASSUME NEW graceful \in BOOLEAN, Restart(graceful)
        PROVE  \A since \in Times : clock - since <= Retention[3] => Answer(since) \subseteq Answer(since)'
    <3> DEFINE ready == IF graceful THEN Ready(open, clock) ELSE {}
    <3>1. ready \in SUBSET Keys /\ \A k \in ready : open[k] # {}
      BY DEF Ready
    <3>2. rows' = Upserted(rows, open, ready)
      BY <2>5 DEF Restart
    <3> HIDE DEF ready
    <3> QED BY <2>0, <3>1, <3>2, UpsertedKeepsRows, AnswerKept
  <2>6. CASE Maintain
    <3>1. CASE MaintainBegin \/ MaintainRead \/ MaintainFails
      <4>1. rows' = rows
        BY <3>1 DEF MaintainBegin, MaintainRead, MaintainFails
      <4> QED BY <2>0, <2>1, <4>1, AnswerKept
    <3>2. ASSUME NEW t \in {2, 3}, rows' = Stored(rows, t, job.read)
          PROVE  \A u \in Tiers, k \in Keys : HasRow(rows, u, k) => HasRow(rows', u, k)
      BY <2>0, <3>2, StoredKeepsRows
    <3>3. CASE MaintainStore(2, "store2", "read3") \/ MaintainStore(3, "store3", "prune")
      <4>1. \A u \in Tiers, k \in Keys : HasRow(rows, u, k) => HasRow(rows', u, k)
        BY <3>2, <3>3 DEF MaintainStore
      <4> QED BY <2>0, <4>1, AnswerKept
    <3>4. CASE MaintainPrune
      <4>1. rows' = Pruned(rows, job.now)
        BY <3>4 DEF MaintainPrune
      <4>2. job.now \in Int /\ job.now <= clock
        BY DEF TypeOK, Times, JobPast
      <4> QED BY <4>1, <4>2, PrunedKeepsRows, AnswerKept
    <3> QED BY <2>6, <3>1, <3>3, <3>4 DEF Maintain, MaintainGoesOn
  <2> QED BY <2>2, <2>3, <2>4, <2>5, <2>6 DEF Next, Worker
<1>4. Spec => []TypeOK
  BY TypeCorrect
<1> QED BY <1>1, <1>2, <1>3, <1>4, PTL DEF Spec, AnswersKeepRows
=============================================================================
