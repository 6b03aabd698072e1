---------------------------- MODULE MCMemoryGame ----------------------------
(* MemoryGame with two pairs, and 500 ms to the tick. Four timers are       *)
(* enough for two reveals beside the timers of a won game.                 *)
EXTENDS MemoryGame
=============================================================================
