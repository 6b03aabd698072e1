--------------------------- MODULE MCMetricsFeed ---------------------------
(* MetricsFeed with interchangeable requests and viewers. *)
EXTENDS MetricsFeed, TLC

Interchangeable == Permutations(Requests) \cup Permutations(Viewers)
=============================================================================
