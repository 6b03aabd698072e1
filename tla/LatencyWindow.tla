--------------------------- MODULE LatencyWindow ---------------------------
(***************************************************************************)
(* What the latency histogram promises: it keeps the durations of the Size *)
(* most recent requests, oldest first, and forgets the older ones.         *)
(***************************************************************************)
EXTENDS Naturals, Sequences

CONSTANTS Size,     \* how many durations are kept
          Micros    \* the durations a request can take

VARIABLE window

Init == window = <<>>

Add(micros) ==
    window' = IF Len(window) < Size
              THEN Append(window, micros)
              ELSE Append(Tail(window), micros)

Next == \E micros \in Micros : Add(micros)

Spec == Init /\ [][Next]_window
=============================================================================
