---------------------------- MODULE MCCollector ----------------------------
(* TLC instance of Collector. *)
EXTENDS Collector, TLC

\* A tick of half a second.
RefreshTicks == {1, 2, 4}
ProcessTicks == {1, 3}
=============================================================================
