--------------------------- MODULE MCBenchmarkPool ---------------------------
(* Bounded instances of BenchmarkPool. *)
EXTENDS BenchmarkPool

JobsOfRun == (1 .. D) \X (1 .. F)
RowsOfRun == JobsOfRun \X (1 .. C)
=============================================================================
