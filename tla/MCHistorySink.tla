--------------------------- MODULE MCHistorySink ---------------------------
(* TLC instances of HistorySink.  A tick stands for ten seconds where the *)
(* first table is concerned; the coarser tables are scaled down.            *)
EXTENDS HistorySink, TLC

CONSTANTS n1, n2

\* Buckets of two ticks: several samples make a row.
RowWidths  == <<2, 4, 8>>
RowPeriods == <<1, 4, 8>>

\* Small enough that all three tables get rows, and that two are pruned.
TableWidths  == <<1, 2, 4>>
TablePeriods == <<1, 2, 4>>

\* Both at once: rows of several samples, and all three tables.
MidWidths  == <<2, 2, 4>>
MidPeriods == <<1, 2, 4>>

\* Short enough that the first rows of both finer tables are pruned; a
\* multiple of the next width, as in db.py.
Retentions == <<6, 8, 20>>

OneClock  == n1 :> 0
SlowClock == n1 :> -1
FastClock == (n1 :> 0) @@ (n2 :> 4)
=============================================================================
