------------------------------ MODULE SlotPool ------------------------------
(***************************************************************************)
(* What a bounded pool of slots promises, whoever implements it: a slot is *)
(* handed out only while fewer than Capacity are held, a client holds at   *)
(* most one, and only its holder gives a slot back.                        *)
(*                                                                         *)
(* Three mechanisms of the server implement it: the Gemini semaphore, the  *)
(* per-IP connection table (one pool per address), and the semaphore of    *)
(* the WebSocket feed.                                                     *)
(***************************************************************************)
EXTENDS Naturals, FiniteSets

CONSTANTS Clients,  \* who may hold a slot
          Capacity  \* how many slots there are

VARIABLE holders    \* the clients that hold a slot now

Init == holders = {}

Acquire(c) ==
    /\ c \notin holders
    /\ Cardinality(holders) < Capacity
    /\ holders' = holders \cup {c}

Release(c) ==
    /\ c \in holders
    /\ holders' = holders \ {c}

Next == \E c \in Clients : Acquire(c) \/ Release(c)

Spec == Init /\ [][Next]_holders
=============================================================================
