---------------------------- MODULE RollupStore ----------------------------
(***************************************************************************)
(* What the rollup tables promise whoever reads them, without queue,       *)
(* worker, buckets in memory, rollups or the order of any statements: a    *)
(* row is published once, with every sample of its bucket, and is final;   *)
(* what is lost was lost to a fault, or is past its retention.             *)
(* HistorySink implements this as long as the clocks agree.                *)
(***************************************************************************)
EXTENDS Integers

CONSTANTS Nodes, Tiers, Keys, Width, Retention, Skew

VARIABLES
  clock,     \* the manager's
  written,   \* the samples of a node that were written
  rows,      \* the tables: of every tier, of a key the samples in its row
  lost,      \* 20s keys some of whose samples are gone
  faults     \* how many faults may still happen

vars == <<clock, written, rows, lost, faults>>

Init ==
  /\ \A n \in Nodes : written[n] = {}
  /\ \A t \in Tiers, k \in Keys : rows[t][k] = {}
  /\ lost = {}

Bucket(t, at) == (at \div Width[t]) * Width[t]

Samples(t, k) == {at \in written[k[2]] : Bucket(t, at) = k[1]}

\* Nothing of the bucket was lost.
Whole(t, k) == \A f \in lost : f[2] # k[2] \/ Bucket(t, f[1]) # k[1]

\* Past the retention of the finest table, by some clock.
Old(f) == \E ahead \in {0} \cup {Skew[n] : n \in Nodes} : f[1] < clock + ahead - Retention[1]

\* A row that is there stays as it is, and no sample comes for it any more.
Keep(t, k) ==
  /\ rows'[t][k] = rows[t][k]
  /\ rows[t][k] # {} => Samples(t, k)' = Samples(t, k)

Publish(t, k) ==
  /\ rows[t][k] = {}
  /\ rows'[t][k] = Samples(t, k)'

\* Samples are recorded, rows published and keys lost at any time, together or
\* one by one.
Next ==
  /\ \A n \in Nodes : written[n] \subseteq written'[n]
  /\ lost \subseteq lost'
  /\ \A f \in lost' \ lost : Old(f) \/ faults' < faults
  /\ \A t \in Tiers, k \in Keys : Whole(t, k)' => Keep(t, k) \/ Publish(t, k)

Spec == Init /\ [][Next]_vars
=============================================================================
