------------------------- MODULE MCLatencyHistogram -------------------------
(* LatencyHistogram with five slots and three durations; with five samples *)
(* the 50th percentile is the middle one, the 95th and 99th the greatest.  *)
EXTENDS LatencyHistogram
=============================================================================
