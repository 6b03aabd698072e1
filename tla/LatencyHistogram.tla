-------------------------- MODULE LatencyHistogram --------------------------
(***************************************************************************)
(* LatencyHistogram of metrics.rs: a vector that grows to HISTOGRAM_SIZE   *)
(* samples and is then overwritten in a circle, and the percentiles the    *)
(* snapshots take of it.                                                   *)
(***************************************************************************)
EXTENDS Integers, Sequences, FiniteSets, Functions

CONSTANTS Size,         \* HISTOGRAM_SIZE
          Micros,       \* the durations a request can take
          Percentiles   \* the percentiles a snapshot asks for

ASSUME HistogramAssumption ==
    /\ Size \in Nat \ {0}
    /\ Micros \subseteq Nat
    /\ Percentiles \subseteq 0 .. 100

VARIABLES samples, write_idx

vars == <<samples, write_idx>>

Init ==
    /\ samples = <<>>
    /\ write_idx = 0

(* Faulty: one sample too many is pushed; *)
AddSampleOneMore(micros) ==
    \/ /\ Len(samples) <= Size
       /\ samples' = Append(samples, micros)
       /\ UNCHANGED write_idx
    \/ /\ Len(samples) > Size
       /\ samples' = [samples EXCEPT ![write_idx + 1] = micros]
       /\ write_idx' = (write_idx + 1) % Size

(* the index is moved before it is used. *)
AddSampleAhead(micros) ==
    \/ /\ Len(samples) < Size
       /\ samples' = Append(samples, micros)
       /\ UNCHANGED write_idx
    \/ /\ Len(samples) >= Size
       /\ write_idx' = (write_idx + 1) % Size
       /\ samples' = [samples EXCEPT ![write_idx' + 1] = micros]

(* add_sample. A Rust index i is index i + 1 here. *)
AddSample(micros) ==
    \/ /\ Len(samples) < Size
       /\ samples' = Append(samples, micros)
       /\ UNCHANGED write_idx
    \/ /\ Len(samples) >= Size
       /\ samples' = [samples EXCEPT ![write_idx + 1] = micros]
       /\ write_idx' = (write_idx + 1) % Size

Next == \E micros \in Micros : AddSample(micros)

Spec == Init /\ [][Next]_vars

(* The orders that up to Size samples can be put in. *)
Orders == [n \in 0 .. Size |-> Bijection(1 .. n, 1 .. n)]

(* sort_unstable. *)
Sorted(s) ==
    LET indices == 1 .. Len(s)
        order == CHOOSE p \in Orders[Len(s)] :
                     \A i, j \in indices : i < j => s[p[i]] <= s[p[j]]
    IN  [i \in indices |-> s[order[i]]]

(* Faulty: the samples are not sorted. *)
PercentileUnsorted(p) ==
    IF samples = <<>>
    THEN 0
    ELSE LET idx == (p * Len(samples)) \div 100
             last == Len(samples) - 1
         IN  samples[(IF idx < last THEN idx ELSE last) + 1]

(* percentile: the sample at rank p/100 of the sorted copy, at most the    *)
(* last. For the percentiles and lengths that occur, the product in f64,   *)
(* truncated, is the integer quotient.                                     *)
Percentile(p) ==
    IF samples = <<>>
    THEN 0
    ELSE LET sorted == Sorted(samples)
             idx == (p * Len(sorted)) \div 100
             last == Len(sorted) - 1
         IN  sorted[(IF idx < last THEN idx ELSE last) + 1]

----------------------------------------------------------------------------
TypeOK ==
    /\ samples \in Seq(Micros)
    /\ Len(samples) <= Size
    /\ write_idx \in 0 .. Size - 1
    /\ Len(samples) < Size => write_idx = 0

(* The vector, read from the slot the next sample overwrites, is the       *)
(* window of the most recent samples: the circle never overwrites a sample *)
(* younger than the oldest it has, across the end of growing and every     *)
(* wrap of the index.                                                      *)
Window ==
    [i \in 1 .. Len(samples) |->
        IF write_idx + i <= Len(samples)
        THEN samples[write_idx + i]
        ELSE samples[write_idx + i - Len(samples)]]

Abstract == INSTANCE LatencyWindow WITH window <- Window
ImplementsWindow == Abstract!Spec

(* What a reader of the dashboard takes a percentile to be, stated without *)
(* sorting or storage order: a recorded sample, that at most p percent of  *)
(* the samples are below and more than p percent are at or below (for p    *)
(* under 100).                                                             *)
PercentileIsRank ==
    samples # <<>> =>
        \A p \in Percentiles :
            LET n == Len(samples)
                value == Percentile(p)
                below == {i \in 1 .. n : samples[i] < value}
                upto  == {i \in 1 .. n : samples[i] <= value}
            IN  /\ \E i \in 1 .. n : samples[i] = value
                /\ 100 * Cardinality(below) <= p * n
                /\ p < 100 => 100 * Cardinality(upto) > p * n
=============================================================================
