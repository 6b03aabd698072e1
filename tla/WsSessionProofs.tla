-------------------------- MODULE WsSessionProofs --------------------------
(***************************************************************************)
(* Proofs about WsSession, for any intervals, deadlines and buffers in the *)
(* order that its assumptions give: type correctness, that a peer that has *)
(* gone silent is noticed in time, if it keeps up until it reads no more,  *)
(* and that an attentive one is kept.                                      *)
(***************************************************************************)
EXTENDS WsSession, FiniteSetTheorems, TLAPS

Messages == {"ping", "pong", "close"}

LEMMA InitTypes == Init => TypeOK
<1>1. /\ PingInterval \in Nat /\ SendTimeout \in Nat /\ Room \in Nat /\ PeerLag \in Nat
      /\ PeerPings \in Nat /\ MaxSilence \in Nat /\ MaxOverdue \in Nat
  BY SessionAssumption
<1>2. Init => slowed \in BOOLEAN
  BY DEF Init
<1>3. Init => /\ pc = "select" /\ peer = "attentive" /\ Len(out) = 0
              /\ out \in Seq(Sends) /\ in \in Seq({"ping", "pong", "close"})
  BY DEF Init
<1> QED
  BY <1>1, <1>2, <1>3 DEF Init, TypeOK, Reads

LEMMA TypeInductive == TypeOK /\ [Next]_vars => TypeOK'
<1> SUFFICES ASSUME TypeOK, [Next]_vars PROVE TypeOK'
  OBVIOUS
<1> USE DEF TypeOK
<1>0. /\ PingInterval \in Nat /\ PeerLag \in Nat /\ SendTimeout \in Nat /\ Room \in Nat \ {0}
      /\ MaxSilence \in Nat /\ MaxOverdue \in Nat /\ PeerPings \in Nat /\ Len(out) \in Nat
  BY SessionAssumption
<1>1. CASE Broadcast
  BY <1>0, <1>1 DEF Broadcast, Sends
<1>2. CASE PingTick
  BY <1>0, <1>2 DEF PingTick, Sends
<1>3. CASE Receive
  <2>1. Head(in) \in Messages /\ Tail(in) \in Seq(Messages)
    BY <1>3 DEF Receive, Messages
  <2> QED
    BY <1>0, <1>3, <2>1 DEF Receive, Sends, Messages
<1>4. CASE Sent
  <2>1. Append(out, pc) \in Seq(Sends) /\ Len(Append(out, pc)) = Len(out) + 1
    BY <1>4 DEF Sent
  <2> QED
    BY <1>0, <1>4, <2>1 DEF Sent
<1>5. CASE SendTimesOut \/ Reset
  BY <1>0, <1>5 DEF SendTimesOut, Reset
<1>6. CASE PeerReads
  <2>1. Tail(out) \in Seq(Sends) /\ Len(Tail(out)) = Len(out) - 1
    BY <1>6 DEF PeerReads
  <2>2. in' \in Seq(Messages)
    <3>1. in' = in \/ in' = Append(in, "pong")
      BY <1>6 DEF PeerReads, Answers, KeepsQuiet
    <3> QED
      BY <3>1 DEF Messages
  <2>3. slowed' \in BOOLEAN
    BY <1>6 DEF PeerReads
  <2> QED
    BY <1>0, <1>6, <2>1, <2>2, <2>3 DEF PeerReads, Messages
<1>7. CASE PeerSendsPing
  BY <1>0, <1>7 DEF PeerSendsPing, timers
<1>8. CASE PeerCloses
  BY <1>0, <1>8 DEF PeerCloses, timers, Reads
<1>9. CASE PeerChanges
  BY <1>9 DEF PeerChanges, timers, Reads
<1>10. CASE Tick
  <2>1. waited' \in 0 .. SendTimeout /\ lag' \in 0 .. PeerLag
    BY <1>0, <1>10 DEF Tick
  <2>2. broadcast' \in -MaxOverdue .. 1 /\ ping' \in -MaxOverdue .. PingInterval
    BY <1>0, <1>10 DEF Tick
  <2>3. silence' \in 0 .. MaxSilence
    BY <1>0, <1>10 DEF Tick
  <2> QED
    BY <1>10, <2>1, <2>2, <2>3 DEF Tick
<1>11. CASE UNCHANGED vars
  BY <1>11 DEF vars
<1> QED
  BY <1>1, <1>2, <1>3, <1>4, <1>5, <1>6, <1>7, <1>8, <1>9, <1>10, <1>11 DEF Next, Loop, Peer

(* Messages, timers and delays keep their types; the buffers never hold    *)
(* more than there is room for.                                            *)
THEOREM TypeCorrect == Spec => []TypeOK
BY InitTypes, TypeInductive, PTL DEF Spec

----------------------------------------------------------------------------
(* How many of a sequence's messages are m, and whether one is. *)
Count(s, m) == Cardinality({i \in 1 .. Len(s) : s[i] = m})
Has(s, m) == \E i \in 1 .. Len(s) : s[i] = m

LEMMA CountType ==
    ASSUME NEW S, NEW s \in Seq(S), NEW m
    PROVE  /\ IsFiniteSet({i \in 1 .. Len(s) : s[i] = m})
           /\ Count(s, m) \in Nat
<1>1. IsFiniteSet(1 .. Len(s))
  BY FS_Interval
<1> QED
  BY <1>1, FS_Subset, FS_CardinalityType DEF Count

LEMMA Appended ==
    ASSUME NEW S, NEW s \in Seq(S), NEW e \in S, NEW m
    PROVE  /\ Count(Append(s, e), m) = Count(s, m) + (IF e = m THEN 1 ELSE 0)
           /\ Has(Append(s, e), m) <=> Has(s, m) \/ e = m
<1> DEFINE old == {i \in 1 .. Len(s) : s[i] = m}
           all == {i \in 1 .. Len(Append(s, e)) : Append(s, e)[i] = m}
<1>1. /\ Len(s) \in Nat /\ Len(Append(s, e)) = Len(s) + 1
      /\ \A i \in 1 .. Len(s) : Append(s, e)[i] = s[i]
      /\ Append(s, e)[Len(s) + 1] = e
  OBVIOUS
<1>2. all = old \cup (IF e = m THEN {Len(s) + 1} ELSE {})
  BY <1>1
<1>3. Len(s) + 1 \notin old
  BY <1>1
<1>4. IsFiniteSet(old) /\ Cardinality(old) \in Nat
  BY CountType, Zenon DEF Count
<1>5. Count(Append(s, e), m) = Cardinality(all) /\ Count(s, m) = Cardinality(old)
  BY DEF Count
<1> HIDE DEF old, all
<1>6. Count(Append(s, e), m) = Count(s, m) + (IF e = m THEN 1 ELSE 0)
  <2>1. CASE e = m
    BY <2>1, <1>2, <1>3, <1>4, <1>5, FS_AddElement
  <2>2. CASE e # m
    BY <2>2, <1>2, <1>4, <1>5
  <2> QED
    BY <2>1, <2>2
<1>7. Has(Append(s, e), m) <=> Has(s, m) \/ e = m
  BY <1>1 DEF Has
<1> QED
  BY <1>6, <1>7

LEMMA Taken ==
    ASSUME NEW S, NEW s \in Seq(S), s # << >>, NEW m
    PROVE  /\ Count(Tail(s), m) = Count(s, m) - (IF Head(s) = m THEN 1 ELSE 0)
           /\ Has(s, m) <=> Has(Tail(s), m) \/ Head(s) = m
<1> DEFINE old == {i \in 1 .. Len(s) : s[i] = m}
           rest == {i \in 1 .. Len(Tail(s)) : Tail(s)[i] = m}
           kept == old \ {1}
<1>1. /\ Len(s) \in Nat \ {0} /\ Len(Tail(s)) = Len(s) - 1 /\ Tail(s) \in Seq(S)
      /\ \A i \in 1 .. Len(s) - 1 : Tail(s)[i] = s[i + 1]
      /\ s[1] = Head(s)
  OBVIOUS
<1>2. IsFiniteSet(old) /\ Cardinality(old) \in Nat /\ IsFiniteSet(rest)
  BY <1>1, CountType, Zenon DEF Count
<1>3. ExistsBijection(rest, kept)
  <2> DEFINE f == [i \in rest |-> i + 1]
  <2>1. f \in Bijection(rest, kept)
    <3>1. \A i \in rest : i \in Int /\ i + 1 \in kept
      BY <1>1
    <3>2. \A j \in kept : j - 1 \in rest /\ (j - 1) + 1 = j
      BY <1>1
    <3>3. \A i, j \in rest : i + 1 = j + 1 => i = j
      BY <3>1
    <3> QED
      BY <3>1, <3>2, <3>3 DEF Bijection, Injection, IsInjective, Surjection
  <2> QED
    BY <2>1 DEF ExistsBijection
<1>4. Cardinality(rest) = Cardinality(kept)
  BY <1>2, <1>3, FS_Bijection
<1>5. Cardinality(kept) = Cardinality(old) - (IF Head(s) = m THEN 1 ELSE 0)
  <2>1. 1 \in old <=> Head(s) = m
    BY <1>1
  <2>2. Cardinality(kept) = IF 1 \in old THEN Cardinality(old) - 1 ELSE Cardinality(old)
    BY <1>2, FS_RemoveElement, Zenon
  <2> HIDE DEF old, kept
  <2> QED
    BY <1>2, <2>1, <2>2
<1>6. \A i \in 1 .. Len(s) : i = 1 \/ (i - 1 \in 1 .. Len(s) - 1 /\ (i - 1) + 1 = i)
  BY <1>1
<1>7. \A i \in 1 .. Len(s) - 1 : i + 1 \in 1 .. Len(s)
  BY <1>1
<1>8. 1 \in 1 .. Len(s)
  BY <1>1
<1>9. Has(s, m) <=> Has(Tail(s), m) \/ Head(s) = m
  BY <1>1, <1>6, <1>7, <1>8 DEF Has
<1> QED
  BY <1>4, <1>5, <1>9 DEF Count

----------------------------------------------------------------------------
(* How long n sends can wait for room, one after the other.                *)
Waits(n) == PeerLag * (IF n > 0 THEN n ELSE 0)

LEMMA WaitsGrow ==
    /\ \A n \in Int : /\ Waits(n) \in Nat
                      /\ n <= 0 => Waits(n) = 0
                      /\ Waits(n + 1) <= Waits(n) + PeerLag
                      /\ n >= 0 => Waits(n + 1) = Waits(n) + PeerLag
    /\ \A m, n \in Int : m <= n => Waits(m) <= Waits(n)
<1>0. PeerLag \in Nat
  BY SessionAssumption
<1>1. ASSUME NEW n \in Nat PROVE PeerLag * n \in Nat /\ PeerLag * (n + 1) = PeerLag * n + PeerLag
  BY <1>0
<1>2. PeerLag * 0 = 0
  BY <1>0
<1>3. ASSUME NEW n \in Int
      PROVE  /\ Waits(n) \in Nat
             /\ n <= 0 => Waits(n) = 0
             /\ Waits(n + 1) <= Waits(n) + PeerLag
             /\ n >= 0 => Waits(n + 1) = Waits(n) + PeerLag
  <2>1. CASE n > 0
    <3>1. n \in Nat /\ Waits(n) = PeerLag * n /\ Waits(n + 1) = PeerLag * (n + 1)
      BY <2>1 DEF Waits
    <3> QED
      BY <3>1, <2>1, <1>0, <1>1
  <2>2. CASE n = 0
    <3>1. Waits(n) = PeerLag * 0 /\ Waits(n + 1) = PeerLag * (0 + 1)
      BY <2>2 DEF Waits
    <3>2. PeerLag * (0 + 1) = PeerLag * 0 + PeerLag
      BY <1>1
    <3> QED
      BY <2>2, <3>1, <3>2, <1>0, <1>2
  <2>3. CASE n < 0
    <3>1. Waits(n) = PeerLag * 0 /\ Waits(n + 1) = PeerLag * 0
      BY <2>3 DEF Waits
    <3> QED
      BY <2>3, <3>1, <1>0, <1>2
  <2> QED
    BY <2>1, <2>2, <2>3
<1>4. ASSUME NEW m \in Int, NEW n \in Int, m <= n PROVE Waits(m) <= Waits(n)
  <2>1. CASE m <= 0
    BY <2>1, <1>3
  <2>2. CASE m > 0
    <3>1. /\ m \in Nat /\ n \in Nat /\ n - m \in Nat
          /\ Waits(m) = PeerLag * m /\ Waits(n) = PeerLag * n
      BY <2>2, <1>4 DEF Waits
    <3>2. PeerLag * n = PeerLag * m + PeerLag * (n - m) /\ PeerLag * m \in Nat
      BY <3>1, <1>0, <1>1
    <3>3. PeerLag * (n - m) \in Nat
      BY <3>1, <1>1
    <3> QED
      BY <3>1, <3>2, <3>3
  <2> QED
    BY <2>1, <2>2
<1> QED
  BY <1>3, <1>4

LEMMA Delays ==
    /\ PeerLag \in Nat /\ PeerPings \in Nat /\ PeerDelay \in Nat
    /\ PeerLag <= PeerDelay
    /\ PeerDelay = Waits(IF PeerPings = 0 THEN 1 ELSE PeerPings)
<1>1. PeerLag \in Nat /\ PeerPings \in Nat
  BY SessionAssumption
<1>2. PeerDelay = Waits(IF PeerPings = 0 THEN 1 ELSE PeerPings)
  BY <1>1 DEF PeerDelay, Waits
<1>3. Waits(0) = 0 /\ Waits(0 + 1) = Waits(0) + PeerLag
  BY WaitsGrow
<1>4. \A n \in Int : 1 <= n => Waits(1) <= Waits(n)
  BY WaitsGrow
<1>5. PeerDelay \in Nat
  BY <1>1, <1>2, WaitsGrow
<1> QED
  BY <1>1, <1>2, <1>3, <1>4, <1>5

(* The time that may pass while the loop has x sends to make, for z of     *)
(* which there is no room, and before which the peer has left messages     *)
(* unread for l ticks. A tick adds a message to x and to z, and ends one   *)
(* wait.                                                                   *)
Blocked(z, l) == IF z >= 1 THEN (PeerLag - l) + Waits(z - l - 1) ELSE 0
Backlog(x, z, l) ==
    IF Waits(x - PeerLag - 1) >= Blocked(z, l) THEN Waits(x - PeerLag - 1) ELSE Blocked(z, l)

LEMMA BacklogType ==
    ASSUME NEW x \in Int, NEW z \in Int, NEW l \in 0 .. PeerLag
    PROVE  /\ Backlog(x, z, l) \in Nat /\ Blocked(z, l) \in Nat
           /\ Waits(x - PeerLag - 1) \in Nat
           /\ Waits(x - PeerLag - 1) <= Backlog(x, z, l) /\ Blocked(z, l) <= Backlog(x, z, l)
<1>1. PeerLag \in Nat
  BY Delays
<1>2. Waits(x - PeerLag - 1) \in Nat /\ Waits(z - l - 1) \in Nat
  BY <1>1, WaitsGrow
<1> QED
  BY <1>1, <1>2 DEF Backlog, Blocked

(* Fewer sends take no longer, and one more takes PeerLag more at most. *)
LEMMA BacklogMonotone ==
    ASSUME NEW x \in Int, NEW z \in Int, NEW l \in 0 .. PeerLag,
           NEW x2 \in Int, NEW z2 \in Int, x2 <= x, z2 <= z
    PROVE  Backlog(x2, z2, l) <= Backlog(x, z, l)
<1> DEFINE a == Waits(x - PeerLag - 1)
           b == Waits(z - l - 1)
           a2 == Waits(x2 - PeerLag - 1)
           b2 == Waits(z2 - l - 1)
<1>1. PeerLag \in Nat /\ l \in Nat /\ l <= PeerLag
  BY Delays
<1>2. /\ a \in Nat /\ b \in Nat /\ a2 \in Nat /\ b2 \in Nat
      /\ a2 <= a /\ b2 <= b
  <2>1. /\ x - PeerLag - 1 \in Int /\ x2 - PeerLag - 1 \in Int
        /\ x2 - PeerLag - 1 <= x - PeerLag - 1
        /\ z - l - 1 \in Int /\ z2 - l - 1 \in Int
        /\ z2 - l - 1 <= z - l - 1
    BY <1>1
  <2> QED
    BY <2>1, WaitsGrow
<1>3. /\ Blocked(z, l) = IF z >= 1 THEN (PeerLag - l) + b ELSE 0
      /\ Blocked(z2, l) = IF z2 >= 1 THEN (PeerLag - l) + b2 ELSE 0
      /\ Backlog(x, z, l) = IF a >= Blocked(z, l) THEN a ELSE Blocked(z, l)
      /\ Backlog(x2, z2, l) = IF a2 >= Blocked(z2, l) THEN a2 ELSE Blocked(z2, l)
  BY DEF Blocked, Backlog
<1> HIDE DEF a, b, a2, b2
<1>4. Blocked(z2, l) <= Blocked(z, l) /\ Blocked(z, l) \in Nat /\ Blocked(z2, l) \in Nat
  BY <1>1, <1>2, <1>3
<1> QED
  BY <1>2, <1>3, <1>4

LEMMA BacklogOneMore ==
    ASSUME NEW x \in Int, NEW z \in Int, NEW l \in 0 .. PeerLag
    PROVE  Backlog(x + 1, z + 1, l) <= Backlog(x, z, l) + PeerLag
<1> DEFINE a == Waits(x - PeerLag - 1)
           b == Waits(z - l - 1)
           a2 == Waits((x + 1) - PeerLag - 1)
           b2 == Waits((z + 1) - l - 1)
<1>1. PeerLag \in Nat /\ l \in Nat /\ l <= PeerLag
  BY Delays
<1>2. a \in Nat /\ b \in Nat /\ a2 \in Nat /\ b2 \in Nat
  BY <1>1, WaitsGrow
<1>3. a2 <= a + PeerLag /\ b2 <= b + PeerLag
  <2>1. /\ Waits((x - PeerLag - 1) + 1) <= a + PeerLag
        /\ Waits((z - l - 1) + 1) <= b + PeerLag
    BY <1>1, WaitsGrow
  <2>2. /\ (x + 1) - PeerLag - 1 = (x - PeerLag - 1) + 1
        /\ (z + 1) - l - 1 = (z - l - 1) + 1
    BY <1>1
  <2> QED
    BY <2>1, <2>2
<1>4. z <= 0 => b2 = 0
  <2>1. ASSUME z <= 0 PROVE (z + 1) - l - 1 \in Int /\ (z + 1) - l - 1 <= 0
    BY <2>1, <1>1
  <2> QED
    BY <2>1, WaitsGrow
<1>5. /\ Blocked(z, l) = IF z >= 1 THEN (PeerLag - l) + b ELSE 0
      /\ Blocked(z + 1, l) = IF z + 1 >= 1 THEN (PeerLag - l) + b2 ELSE 0
      /\ Backlog(x, z, l) = IF a >= Blocked(z, l) THEN a ELSE Blocked(z, l)
      /\ Backlog(x + 1, z + 1, l) = IF a2 >= Blocked(z + 1, l) THEN a2 ELSE Blocked(z + 1, l)
  BY DEF Blocked, Backlog
<1> HIDE DEF a, b, a2, b2
<1>6. /\ Blocked(z + 1, l) <= Blocked(z, l) + PeerLag
      /\ Blocked(z, l) \in Nat /\ Blocked(z + 1, l) \in Nat
  BY <1>1, <1>2, <1>3, <1>4, <1>5
<1> QED
  BY <1>1, <1>2, <1>3, <1>5, <1>6

(* A tick during a wait: a message more, and a tick less of waiting. *)
LEMMA BacklogWaited ==
    ASSUME NEW x \in Int, x >= 1, NEW l \in 0 .. PeerLag, l < PeerLag
    PROVE  Backlog(x + 1, x + 1, l + 1) <= Backlog(x, x, l) - 1
<1> DEFINE a == Waits(x - PeerLag - 1)
           b == Waits(x - l - 1)
           a2 == Waits((x + 1) - PeerLag - 1)
           b2 == Waits((x + 1) - (l + 1) - 1)
<1>1. PeerLag \in Nat /\ l \in Nat
  BY Delays
<1>2. a \in Nat /\ b \in Nat /\ a2 \in Nat
  BY <1>1, WaitsGrow
<1>3. b2 = b
  <2>1. (x + 1) - (l + 1) - 1 = x - l - 1
    BY <1>1
  <2> QED
    BY <2>1
<1>4. a2 <= b
  <2>1. /\ (x + 1) - PeerLag - 1 \in Int /\ x - l - 1 \in Int
        /\ (x + 1) - PeerLag - 1 <= x - l - 1
    BY <1>1
  <2> QED
    BY <2>1, WaitsGrow
<1>5. /\ Blocked(x, l) = IF x >= 1 THEN (PeerLag - l) + b ELSE 0
      /\ Blocked(x + 1, l + 1) = IF x + 1 >= 1 THEN (PeerLag - (l + 1)) + b2 ELSE 0
      /\ Backlog(x, x, l) = IF a >= Blocked(x, l) THEN a ELSE Blocked(x, l)
      /\ Backlog(x + 1, x + 1, l + 1) =
             IF a2 >= Blocked(x + 1, l + 1) THEN a2 ELSE Blocked(x + 1, l + 1)
  BY DEF Blocked, Backlog
<1> HIDE DEF a, b, a2, b2
<1>6. /\ Blocked(x, l) = (PeerLag - l) + b
      /\ Blocked(x + 1, l + 1) = (PeerLag - l) + b - 1
  BY <1>1, <1>2, <1>3, <1>5
<1> QED
  BY <1>1, <1>2, <1>4, <1>5, <1>6

(* The peer takes the last message there is. *)
LEMMA BacklogDrained ==
    ASSUME NEW x \in Int, NEW z \in Int, NEW l \in 0 .. PeerLag
    PROVE  Backlog(x, x - Room, 0) <= Backlog(x, z, l)
<1>1. PeerLag \in Nat /\ Room \in Nat /\ PeerLag < Room
  BY Delays, SessionAssumption, AttentiveAssumption
<1>2. CASE x - Room >= 1
  <2>1. Blocked(x - Room, 0) = PeerLag + Waits(x - Room - 1)
    BY <1>1, <1>2 DEF Blocked
  <2>2. Waits((x - Room - 1) + 1) = Waits(x - Room - 1) + PeerLag
    BY <1>1, <1>2, WaitsGrow
  <2>3. (x - Room - 1) + 1 = x - Room /\ x - Room <= x - PeerLag - 1
    BY <1>1
  <2>4. Waits(x - Room) <= Waits(x - PeerLag - 1) /\ Waits(x - Room) \in Nat
    BY <1>1, <2>3, WaitsGrow
  <2>5. Blocked(x - Room, 0) <= Waits(x - PeerLag - 1)
    BY <1>1, <2>1, <2>2, <2>3, <2>4, WaitsGrow
  <2> QED
    BY <1>1, <2>5, BacklogType DEF Backlog
<1>3. CASE ~(x - Room >= 1)
  <2>1. Blocked(x - Room, 0) = 0
    BY <1>1, <1>3 DEF Blocked
  <2>2. Waits(x - PeerLag - 1) \in Nat /\ Waits(x - PeerLag - 1) <= Backlog(x, z, l)
    BY BacklogType
  <2>3. Backlog(x, x - Room, 0) = Waits(x - PeerLag - 1)
    BY <2>1, <2>2 DEF Backlog
  <2> QED
    BY <2>2, <2>3
<1> QED
  BY <1>2, <1>3

(* After a tick in which the loop had nothing to do, what is due is one    *)
(* message and the peer's Pings.                                           *)
LEMMA BacklogIdle ==
    ASSUME NEW n \in 0 .. PeerPings, NEW o \in 0 .. Room, NEW l \in 0 .. PeerLag,
           NEW l2 \in 0 .. PeerLag, l2 = IF o = 0 THEN 0 ELSE l + 1
    PROVE  Backlog(n + 1, (n + 1) - (Room - o), l2) <= PeerDelay
<1> DEFINE z == (n + 1) - (Room - o)
<1>1. /\ PeerLag \in Nat /\ PeerPings \in Nat /\ PeerDelay \in Nat
      /\ PeerLag <= PeerDelay /\ Room \in Nat \ {0}
  BY Delays, SessionAssumption
<1>2. PeerPings >= 1 => PeerDelay = Waits(PeerPings)
  BY <1>1, Delays
<1>3. Waits((n + 1) - PeerLag - 1) <= PeerDelay
  <2>1. CASE PeerPings = 0
    BY <2>1, <1>1, WaitsGrow
  <2>2. CASE PeerPings >= 1
    BY <2>2, <1>1, <1>2, WaitsGrow
  <2> QED
    BY <2>1, <2>2, <1>1
<1>4. Blocked(z, l2) <= PeerDelay
  <2>1. CASE z < 1
    BY <2>1, <1>1 DEF Blocked
  <2>2. CASE z >= 1 /\ PeerPings = 0
    <3>1. z - l2 - 1 <= 0 /\ z \in Int
      BY <2>2, <1>1
    <3> HIDE DEF z
    <3>2. Waits(z - l2 - 1) = 0
      <4>1. z - l2 - 1 \in Int
        BY <3>1, <1>1
      <4> QED
        BY <3>1, <4>1, WaitsGrow
    <3> QED
      BY <2>2, <3>2, <1>1 DEF Blocked
  <2>3. CASE z >= 1 /\ PeerPings >= 1
    <3>1. z - l2 - 1 <= PeerPings - 1 /\ z \in Int
      BY <2>3, <1>1
    <3>2. Waits(z - l2 - 1) <= Waits(PeerPings - 1)
      <4> HIDE DEF z
      <4>1. z - l2 - 1 \in Int /\ PeerPings - 1 \in Int
        BY <3>1, <1>1
      <4> QED
        BY <3>1, <4>1, WaitsGrow
    <3>3. Waits((PeerPings - 1) + 1) = Waits(PeerPings - 1) + PeerLag
      BY <2>3, <1>1, WaitsGrow
    <3>4. (PeerPings - 1) + 1 = PeerPings
      BY <1>1
    <3>5. Waits(PeerPings - 1) \in Nat /\ Waits(z - l2 - 1) \in Nat
      BY <3>1, <1>1, WaitsGrow
    <3> HIDE DEF z
    <3> QED
      BY <2>3, <3>2, <3>3, <3>4, <3>5, <1>1, <1>2 DEF Blocked
  <2> QED
    BY <2>1, <2>2, <2>3, <1>1
<1> QED
  BY <1>3, <1>4 DEF Backlog

----------------------------------------------------------------------------
(* How late the loop may become before it next has nothing to do: by the   *)
(* sends that are due, of which some are short of room.                    *)
Live == pc # "ended"
DueSends == (1 - broadcast) + pings + Count(in, "ping") + (IF pc \in Sends THEN 1 ELSE 0)
Short == DueSends - (Room - Len(out))
Late == Backlog(DueSends, Short, lag)

LEMMA Numbers ==
    ASSUME TypeOK
    PROVE  /\ Room \in Nat \ {0} /\ Len(out) \in 0 .. Room /\ Len(out) \in Nat
           /\ PeerLag \in Nat /\ lag \in 0 .. PeerLag
           /\ MaxOverdue \in Nat /\ broadcast \in -MaxOverdue .. 1 /\ broadcast \in Int
           /\ pings \in 0 .. PeerPings /\ pings \in Nat /\ Count(in, "ping") \in Nat
           /\ DueSends \in Nat /\ DueSends \in Int /\ (pc \in Sends => DueSends >= 1)
           /\ Short \in Int /\ Late \in Nat
<1>1. Count(in, "ping") \in Nat
  <2>1. in \in Seq({"ping", "pong", "close"})
    BY DEF TypeOK
  <2> QED
    BY <2>1, CountType
<1>2. Len(out) \in Nat
  BY DEF TypeOK
<1>3. /\ Room \in Nat \ {0} /\ Len(out) \in 0 .. Room /\ PeerLag \in Nat
      /\ MaxOverdue \in Nat /\ PeerPings \in Nat
      /\ broadcast \in -MaxOverdue .. 1 /\ pings \in 0 .. PeerPings /\ lag \in 0 .. PeerLag
  BY <1>2, SessionAssumption DEF TypeOK
<1>4. DueSends \in Nat /\ (pc \in Sends => DueSends >= 1)
  BY <1>1, <1>3 DEF DueSends
<1>5. Short \in Int
  BY <1>2, <1>3, <1>4 DEF Short
<1>6. Late \in Nat
  <2>1. DueSends \in Int
    BY <1>4
  <2> QED
    BY <1>3, <1>5, <2>1, BacklogType DEF Late
<1> QED
  BY <1>1, <1>2, <1>3, <1>4, <1>5, <1>6

LEMMA LateType == TypeOK => Late \in Nat
BY Numbers

LEMMA LateSteady ==
    ASSUME TypeOK, TypeOK', pc' # "ended",
           \/ Broadcast \/ Receive \/ Sent
           \/ PeerReads \/ PeerSendsPing \/ PeerChanges \/ UNCHANGED vars
    PROVE  Late' <= Late
<1>0. /\ DueSends \in Int /\ Short \in Int /\ lag \in 0 .. PeerLag /\ Late \in Nat
      /\ Room \in Nat /\ Len(out) \in Nat /\ PeerLag \in Nat
      /\ Count(in, "ping") \in Nat /\ broadcast \in Int /\ pings \in Nat
  BY Numbers
<1>1. CASE Broadcast \/ UNCHANGED vars
  <2>1. DueSends' = DueSends /\ out' = out /\ lag' = lag
    BY <1>0, <1>1 DEF Broadcast, vars, DueSends, Sends
  <2> QED
    BY <1>0, <2>1 DEF Late, Short
<1>2. CASE Receive
  <2>1. in' = Tail(in) /\ out' = out /\ lag' = lag /\ broadcast' = broadcast /\ pings' = pings
        /\ pc = "select" /\ in # <<>>
        /\ pc' = CASE Head(in) = "ping"  -> "pong"
                   [] Head(in) = "pong"  -> "select"
                   [] Head(in) = "close" -> "ended"
    BY <1>2 DEF Receive
  <2>2. Head(in) \in {"ping", "pong", "close"}
    BY <2>1 DEF TypeOK
  <2>3. Count(in', "ping") = Count(in, "ping") - (IF Head(in) = "ping" THEN 1 ELSE 0)
    BY <2>1, Taken DEF TypeOK
  <2>4. DueSends' = DueSends
    BY <1>0, <2>1, <2>2, <2>3 DEF DueSends, Sends
  <2> QED
    BY <1>0, <2>1, <2>4 DEF Late, Short
<1>3. CASE Sent
  <2>1. /\ pc \in Sends /\ pc' = "select" /\ Len(out') = Len(out) + 1 /\ lag' = lag
        /\ in' = in /\ broadcast' = broadcast /\ pings' = pings
    BY <1>3 DEF Sent, TypeOK
  <2>2. DueSends' = DueSends - 1
    BY <1>0, <2>1 DEF DueSends, Sends
  <2>3. Short' = Short
    BY <1>0, <2>1, <2>2 DEF Short
  <2> QED
    <3>1. DueSends - 1 \in Int /\ DueSends - 1 <= DueSends /\ Short <= Short
      BY <1>0
    <3>2. Backlog(DueSends - 1, Short, lag) <= Backlog(DueSends, Short, lag)
      BY <1>0, <3>1, BacklogMonotone
    <3> QED
      BY <2>1, <2>2, <2>3, <3>2 DEF Late
<1>4. CASE PeerReads
  <2>1. /\ Len(out') = Len(out) - 1 /\ pc' = pc /\ broadcast' = broadcast /\ pings' = pings
        /\ lag' = IF Len(out) = 1 THEN 0 ELSE lag
    BY <1>4 DEF PeerReads, TypeOK
  <2>2. Count(in', "ping") = Count(in, "ping")
    <3>1. CASE in' = in
      BY <3>1
    <3>2. CASE in' = Append(in, "pong")
      <4>1. in \in Seq({"ping", "pong", "close"})
        BY DEF TypeOK
      <4>2. Count(Append(in, "pong"), "ping") = Count(in, "ping") + 0
        BY <4>1, Appended
      <4> QED
        BY <1>0, <3>2, <4>2
    <3> QED
      BY <1>4, <3>1, <3>2 DEF PeerReads, Answers, KeepsQuiet
  <2>3. DueSends' = DueSends
    BY <2>1, <2>2 DEF DueSends
  <2>4. Short' = Short - 1
    BY <1>0, <2>1, <2>3 DEF Short
  <2>5. CASE Len(out) = 1
    <3>1. lag' = 0 /\ Short' = DueSends - Room
      BY <1>0, <2>1, <2>3, <2>5 DEF Short
    <3> QED
      BY <1>0, <2>3, <3>1, BacklogDrained DEF Late
  <2>6. CASE Len(out) # 1
    <3>1. Short - 1 \in Int /\ Short - 1 <= Short /\ DueSends <= DueSends
      BY <1>0
    <3>2. Backlog(DueSends, Short - 1, lag) <= Backlog(DueSends, Short, lag)
      BY <1>0, <3>1, BacklogMonotone
    <3> QED
      BY <2>1, <2>3, <2>4, <2>6, <3>2 DEF Late
  <2> QED
    BY <2>5, <2>6
<1>5. CASE PeerSendsPing
  <2>1. /\ in' = Append(in, "ping") /\ pings' = pings - 1 /\ pc' = pc /\ out' = out
        /\ broadcast' = broadcast /\ lag' = lag
    BY <1>5 DEF PeerSendsPing, timers
  <2>2. Count(in', "ping") = Count(in, "ping") + 1
    <3>1. in \in Seq({"ping", "pong", "close"})
      BY DEF TypeOK
    <3> QED
      BY <2>1, <3>1, Appended
  <2>3. DueSends' = DueSends
    BY <1>0, <2>1, <2>2 DEF DueSends
  <2> QED
    BY <1>0, <2>1, <2>3 DEF Late, Short
<1>6. CASE PeerChanges
  <2>1. DueSends' = DueSends /\ out' = out /\ lag' = lag
    BY <1>6 DEF PeerChanges, timers, DueSends
  <2> QED
    BY <1>0, <2>1 DEF Late, Short
<1> QED
  BY <1>1, <1>2, <1>3, <1>4, <1>5, <1>6

LEMMA LatePing ==
    ASSUME TypeOK, PingTick, pc' = "ping"
    PROVE  Late' <= Late + PeerLag
<1>0. /\ DueSends \in Int /\ Short \in Int /\ lag \in 0 .. PeerLag
      /\ Room \in Nat /\ Len(out) \in Nat
      /\ Count(in, "ping") \in Nat /\ broadcast \in Int /\ pings \in Nat
  BY Numbers
<1>1. DueSends' = DueSends + 1 /\ out' = out /\ lag' = lag
  BY <1>0 DEF PingTick, DueSends, Sends
<1>2. Short' = Short + 1
  BY <1>0, <1>1 DEF Short
<1> QED
  BY <1>0, <1>1, <1>2, BacklogOneMore DEF Late

LEMMA LateWaited ==
    ASSUME TypeOK, TypeOK', Tick, pc \in Sends, peer \in Reads
    PROVE  Late' <= Late - 1
<1>0. /\ DueSends \in Int /\ DueSends >= 1 /\ Short \in Int /\ lag \in 0 .. PeerLag
      /\ Room \in Nat \ {0} /\ Len(out) \in Nat /\ PeerLag \in Nat
      /\ Count(in, "ping") \in Nat /\ broadcast \in Int /\ pings \in Nat
  BY Numbers
<1>1. /\ Len(out) = Room /\ out # <<>> /\ lag < PeerLag /\ lag' = lag + 1
      /\ out' = out /\ in' = in /\ pc' = pc /\ pings' = pings
      /\ broadcast' \in {broadcast, broadcast - 1}
  <2>1. Len(out) = Room
    BY DEF Tick, Waiting, Sends
  <2>2. out # <<>>
    BY <1>0, <2>1
  <2> QED
    BY <2>1, <2>2 DEF Tick
<1>2. DueSends' \in {DueSends, DueSends + 1} /\ DueSends' \in Int /\ DueSends + 1 \in Int
  <2>1. DueSends' = (1 - broadcast') + pings + Count(in, "ping") + (IF pc \in Sends THEN 1 ELSE 0)
    BY <1>1 DEF DueSends
  <2>2. DueSends = (1 - broadcast) + pings + Count(in, "ping") + (IF pc \in Sends THEN 1 ELSE 0)
    BY DEF DueSends
  <2>3. DueSends' \in {DueSends, DueSends + 1}
    <3> DEFINE n == IF pc \in Sends THEN 1 ELSE 0
    <3>1. n \in Nat
      OBVIOUS
    <3> HIDE DEF n
    <3> QED
      BY <1>0, <1>1, <2>1, <2>2, <3>1
  <2> QED
    BY <1>0, <2>3
<1>3. Short = DueSends /\ Short' = DueSends'
  BY <1>0, <1>1, <1>2 DEF Short
<1>4. Backlog(DueSends + 1, DueSends + 1, lag + 1) <= Backlog(DueSends, DueSends, lag) - 1
  BY <1>0, <1>1, BacklogWaited
<1>5. lag + 1 \in 0 .. PeerLag
  BY <1>0, <1>1
<1>6. Backlog(DueSends', DueSends', lag + 1) <= Backlog(DueSends + 1, DueSends + 1, lag + 1)
  <2>1. DueSends' <= DueSends + 1
    BY <1>0, <1>2
  <2> QED
    BY <1>2, <1>5, <2>1, BacklogMonotone
<1>7. /\ Backlog(DueSends', DueSends', lag + 1) \in Nat
      /\ Backlog(DueSends + 1, DueSends + 1, lag + 1) \in Nat
      /\ Backlog(DueSends, DueSends, lag) \in Nat
  BY <1>0, <1>2, <1>5, BacklogType
<1> QED
  BY <1>1, <1>3, <1>4, <1>6, <1>7 DEF Late

LEMMA LateIdle ==
    ASSUME TypeOK, TypeOK', Tick, pc = "select", peer \in Reads
    PROVE  Late' <= PeerDelay
<1>0. /\ Room \in Nat \ {0} /\ Len(out) \in 0 .. Room /\ PeerLag \in Nat
      /\ broadcast \in -MaxOverdue .. 1 /\ pings \in 0 .. PeerPings /\ MaxOverdue \in Nat
      /\ lag \in 0 .. PeerLag /\ lag' \in 0 .. PeerLag
  BY Numbers DEF TypeOK
<1>1. /\ in = <<>> /\ broadcast > 0 /\ in' = in /\ out' = out /\ pc' = pc /\ pings' = pings
  BY DEF Tick, Waiting, Sends
<1>2. broadcast = 1 /\ broadcast' = 0
  BY <1>0, <1>1 DEF Tick
<1>3. Count(in, "ping") = 0
  <2>1. {i \in 1 .. Len(in) : in[i] = "ping"} = {}
    BY <1>1
  <2> QED
    BY <2>1, FS_EmptySet DEF Count
<1>4. DueSends' = pings + 1
  BY <1>0, <1>1, <1>2, <1>3 DEF DueSends, Sends
<1>5. Short' = (pings + 1) - (Room - Len(out))
  BY <1>1, <1>4 DEF Short
<1>6. lag' = IF Len(out) = 0 THEN 0 ELSE lag + 1
  BY DEF Tick, TypeOK
<1> QED
  BY <1>0, <1>4, <1>5, <1>6, BacklogIdle DEF Late

----------------------------------------------------------------------------
(* The inductive invariant. Of a peer that keeps up: the ping interval is  *)
(* overdue by no more than PeerDelay, and what the loop may still be late  *)
(* is counted in;                                                          *)
InTime ==
    Live /\ peer \in Reads => ping >= Late - PeerDelay /\ Late <= PeerDelay + PeerLag

(* no send waits for longer than the peer has left messages unread.        *)
SendsEnd ==
    Live /\ peer \in Reads =>
        /\ out = <<>> => lag = 0
        /\ pc \in Sends => waited <= lag \/ Len(out) < Room

(* Of one that has stopped reading: the last send that can wait is all     *)
(* that is added.                                                          *)
Overdue ==
    Live /\ peer \notin Reads /\ ~slowed =>
        /\ pc = "select" \/ Len(out) < Room => ping >= -PeerDelay
        /\ pc \in {"text", "ping"} => ping >= -PeerDelay - waited

(* The wait is that of a send. *)
NothingSent == pc \notin Sends => waited = 0

(* A Ping is sent when the silence has not reached the deadline.           *)
Checked == Live => silence + ping <= PongDeadline + PingInterval

ClosesLast == Live /\ Has(in, "close") => peer # "attentive"

(* An attentive peer has answered the last Ping, or the Ping or its Pong   *)
(* is on its way and will be there before the next is sent.                *)
BeforePing == (IF out = <<>> THEN 0 ELSE PeerLag - lag) + 2 * PeerLag + PeerDelay
BeforeRead == (PeerLag - lag) + PeerLag + PeerDelay
Answered ==
    Live /\ peer = "attentive" =>
        \/ silence + ping <= PingInterval
        \/ pc = "ping" /\ ping > BeforePing
        \/ Has(out, "ping") /\ ping > BeforeRead
        \/ Has(in, "pong") /\ ping > Late

IInv == /\ TypeOK /\ InTime /\ SendsEnd /\ Overdue /\ NothingSent /\ Checked /\ ClosesLast
        /\ Answered /\ AttentiveIsKept

LEMMA InitInv == Init => IInv
<1> SUFFICES ASSUME Init PROVE IInv
  OBVIOUS
<1>1. TypeOK
  BY InitTypes
<1>2. /\ Room \in Nat \ {0} /\ PeerLag \in Nat /\ PeerPings \in Nat /\ PeerDelay \in Nat
      /\ PingInterval \in Nat /\ PongDeadline \in Nat
      /\ 2 * PeerDelay + 3 * PeerLag < PingInterval
  BY SessionAssumption, AttentiveAssumption, Delays
<1>3. {i \in 1 .. Len(in) : in[i] = "ping"} = {} /\ Len(out) = 0 /\ ~Has(in, "close")
  BY DEF Init, Has
<1>4. Count(in, "ping") = 0
  BY <1>3, FS_EmptySet DEF Count
<1>5. DueSends = PeerPings + 1 /\ Short = (PeerPings + 1) - (Room - 0) /\ lag = 0
  BY <1>2, <1>3, <1>4 DEF Init, DueSends, Short, Sends
<1>6. Late <= PeerDelay /\ Late \in Nat
  <2>1. PeerPings \in 0 .. PeerPings /\ 0 \in 0 .. Room /\ 0 \in 0 .. PeerLag
    BY <1>2
  <2>2. Backlog(PeerPings + 1, (PeerPings + 1) - (Room - 0), 0) <= PeerDelay
    BY <2>1, BacklogIdle
  <2> QED
    BY <1>1, <1>5, <2>2, Numbers DEF Late
<1>7. InTime /\ SendsEnd /\ Overdue /\ NothingSent /\ Checked /\ Answered
  BY <1>2, <1>6 DEF Init, InTime, SendsEnd, Overdue, NothingSent, Checked, Answered, Reads, Sends
<1> QED
  BY <1>1, <1>3, <1>7 DEF IInv, ClosesLast, AttentiveIsKept, Init

LEMMA Constants ==
    /\ PingInterval \in Nat \ {0} /\ PongDeadline \in Nat /\ SendTimeout \in Nat
    /\ Room \in Nat \ {0} /\ PeerLag \in Nat /\ PeerDelay \in Nat
    /\ MaxSilence \in Nat /\ MaxOverdue \in Nat /\ PeerDelay < MaxOverdue
    /\ MaxSilence <= PongDeadline + PingInterval + MaxOverdue
    /\ PeerLag <= PeerDelay /\ PeerLag < SendTimeout /\ SendTimeout < PingInterval
    /\ 2 * PeerDelay + 3 * PeerLag < PingInterval
    /\ PingInterval + PeerDelay < PongDeadline
BY SessionAssumption, AttentiveAssumption, BoundAssumption, Delays

(* What TypeOK says of the numbers. *)
LEMMA Ranges ==
    ASSUME TypeOK
    PROVE  /\ ping \in Int /\ -MaxOverdue <= ping /\ ping <= PingInterval
           /\ silence \in Nat /\ silence <= MaxSilence
           /\ waited \in Nat /\ waited <= SendTimeout
           /\ lag \in Nat /\ lag <= PeerLag
BY Constants DEF TypeOK

(* A session that has ended stays so, and no peer takes to keeping up. *)
LEMMA OneWay ==
    ASSUME [Next]_vars
    PROVE  /\ pc' # "ended" => pc # "ended"
           /\ peer' \in Reads => peer \in Reads
           /\ peer' = "attentive" => peer = "attentive"
           /\ pc = "ended" => UNCHANGED <<pc, peer>>
BY DEF Next, Loop, Peer, Broadcast, PingTick, Receive, Sent, SendTimesOut, Reset,
   PeerReads, PeerSendsPing, PeerCloses, PeerChanges, Tick, Waiting, vars, Sends, Reads

LEMMA InTimeStep == IInv /\ TypeOK' /\ [Next]_vars => InTime'
<1> SUFFICES ASSUME IInv, TypeOK', [Next]_vars, Live', peer' \in Reads
             PROVE  ping' >= Late' - PeerDelay /\ Late' <= PeerDelay + PeerLag
  BY DEF InTime
<1> USE DEF IInv, Live
<1>0. /\ Live /\ peer \in Reads /\ ping >= Late - PeerDelay /\ Late <= PeerDelay + PeerLag
  BY OneWay DEF InTime
<1>1. /\ ping \in Int /\ Late \in Nat /\ Late' \in Nat /\ PeerDelay \in Nat /\ PeerLag \in Nat
      /\ PingInterval \in Nat /\ MaxOverdue \in Nat /\ PeerLag <= PeerDelay
      /\ PeerLag < PingInterval
  <2>1. (TypeOK => Late \in Nat)'
    BY LateType, PTL
  <2> QED
    BY <2>1, Numbers, Ranges, Constants
<1>2. CASE \/ Broadcast \/ Receive \/ Sent
           \/ PeerReads \/ PeerSendsPing \/ PeerChanges \/ UNCHANGED vars
  <2>1. ping' = ping
    BY <1>2 DEF Broadcast, Receive, Sent, PeerReads, PeerSendsPing, PeerChanges, timers, vars
  <2>2. Late' <= Late
    BY <1>2, LateSteady
  <2> QED
    BY <1>0, <1>1, <2>1, <2>2 DEF Late
<1>3. CASE PingTick
  <2>1. pc' = "ping" /\ ping <= 0 /\ ping' = ping + PingInterval
    BY <1>3 DEF PingTick
  <2>2. Late' <= Late + PeerLag
    BY <1>3, <2>1, LatePing
  <2> QED
    BY <1>0, <1>1, <2>1, <2>2 DEF Late
<1>4. CASE Tick
  <2>1. ping' = IF ping > -MaxOverdue THEN ping - 1 ELSE ping
    BY <1>4 DEF Tick
  <2>2. CASE pc \in Sends
    <3>1. Late' <= Late - 1
      BY <1>0, <1>4, <2>2, LateWaited
    <3> QED
      BY <1>0, <1>1, <2>1, <3>1 DEF Late
  <2>3. CASE pc = "select"
    <3>1. Late' <= PeerDelay
      BY <1>0, <1>4, <2>3, LateIdle
    <3>2. ping > 0
      BY <1>4, <2>3 DEF Tick, Waiting, Sends
    <3> QED
      BY <1>1, <2>1, <3>1, <3>2 DEF Late
  <2> QED
    BY <2>2, <2>3, <1>4 DEF Tick, Waiting
<1>5. ~SendTimesOut /\ ~Reset /\ ~PeerCloses
  BY DEF SendTimesOut, Reset, PeerCloses, Reads
<1> QED
  BY <1>2, <1>3, <1>4, <1>5 DEF Next, Loop, Peer

LEMMA SendsEndStep == IInv /\ TypeOK' /\ [Next]_vars => SendsEnd'
<1> SUFFICES ASSUME IInv, TypeOK', [Next]_vars, Live', peer' \in Reads
             PROVE  /\ out' = <<>> => lag' = 0
                    /\ pc' \in Sends => waited' <= lag' \/ Len(out') < Room
  BY DEF SendsEnd
<1> USE DEF IInv, Live
<1>0. /\ out = <<>> => lag = 0
      /\ pc \in Sends => waited <= lag \/ Len(out) < Room
  BY OneWay DEF SendsEnd
<1>1. /\ lag \in Nat /\ waited \in Nat /\ Len(out) \in Nat /\ Len(out) <= Room
      /\ Room \in Nat \ {0} /\ out \in Seq(Sends)
  BY Ranges, Numbers, Constants DEF TypeOK
<1>2. CASE Broadcast \/ PingTick \/ Receive
  BY <1>0, <1>1, <1>2 DEF Broadcast, PingTick, Receive, NothingSent, Sends
<1>3. CASE Sent
  <2>1. out' # <<>> /\ pc' \notin Sends
    BY <1>1, <1>3 DEF Sent, Sends
  <2> QED
    BY <2>1
<1>4. CASE PeerReads
  <2>1. Len(out') = Len(out) - 1 /\ out' \in Seq(Sends) /\ lag' = IF Len(out) = 1 THEN 0 ELSE lag
    BY <1>1, <1>4 DEF PeerReads
  <2> QED
    BY <1>1, <2>1
<1>5. CASE PeerSendsPing \/ PeerChanges \/ UNCHANGED vars
  BY <1>0, <1>5 DEF PeerSendsPing, PeerChanges, timers, vars
<1>6. CASE Tick
  <2>1. out' = out /\ pc' = pc /\ lag' = (IF out = <<>> THEN 0 ELSE lag + 1)
    BY <1>6, OneWay DEF Tick
  <2>2. waited' \in {waited, waited + 1}
    BY <1>6 DEF Tick
  <2>3. pc \in Sends => Len(out) = Room /\ out # <<>>
    BY <1>1, <1>6 DEF Tick, Waiting, Sends
  <2> QED
    BY <1>0, <1>1, <2>1, <2>2, <2>3
<1>7. ~SendTimesOut /\ ~Reset /\ ~PeerCloses
  BY DEF SendTimesOut, Reset, PeerCloses, Reads
<1> QED
  BY <1>2, <1>3, <1>4, <1>5, <1>6, <1>7 DEF Next, Loop, Peer

LEMMA OverdueStep == IInv /\ [Next]_vars => Overdue'
<1> SUFFICES ASSUME IInv, [Next]_vars, Live', peer' \notin Reads, ~slowed'
             PROVE  /\ pc' = "select" \/ Len(out') < Room => ping' >= -PeerDelay
                    /\ pc' \in {"text", "ping"} => ping' >= -PeerDelay - waited'
  BY DEF Overdue
<1> USE DEF IInv, Live
<1>1. /\ ping \in Int /\ waited \in Nat /\ PeerDelay \in Nat /\ PingInterval \in Nat
      /\ Len(out) \in Nat /\ Room \in Nat /\ Live /\ MaxOverdue \in Nat
  BY Ranges, Numbers, Constants, OneWay
<1>2. CASE peer \in Reads
  <2>1. ping >= -PeerDelay
    BY <1>1, <1>2, Numbers DEF InTime, Late
  <2>2. PeerCloses \/ PeerChanges
    BY <1>2 DEF Next, Loop, Peer, Broadcast, PingTick, Receive, Sent, SendTimesOut, Reset,
       PeerReads, PeerSendsPing, PeerCloses, PeerChanges, Tick, vars, timers
  <2>3. ping' = ping /\ waited' = waited
    BY <2>2 DEF PeerCloses, PeerChanges, timers
  <2> QED
    BY <1>1, <2>1, <2>3
<1>3. CASE peer \notin Reads
  <2>0. /\ pc = "select" \/ Len(out) < Room => ping >= -PeerDelay
        /\ pc \in {"text", "ping"} => ping >= -PeerDelay - waited
    <3>1. ~slowed
      BY <1>3 DEF Next, Loop, Peer, Broadcast, PingTick, Receive, Sent, SendTimesOut, Reset,
         PeerReads, PeerSendsPing, PeerCloses, PeerChanges, Tick, vars, timers
    <3> QED
      BY <1>1, <1>3, <3>1 DEF Overdue
  <2>1. CASE Broadcast
    <3>1. ping >= -PeerDelay /\ ping' = ping /\ waited' = 0
      BY <2>0, <2>1 DEF Broadcast, NothingSent, Sends
    <3> QED
      BY <1>1, <3>1
  <2>2. CASE PingTick
    <3>1. ping >= -PeerDelay /\ ping' = ping + PingInterval /\ waited' = 0
      BY <2>0, <2>2 DEF PingTick, NothingSent, Sends
    <3> QED
      BY <1>1, <3>1
  <2>3. CASE Receive
    <3>1. ping >= -PeerDelay /\ ping' = ping /\ waited' = 0
      BY <2>0, <2>3 DEF Receive, NothingSent, Sends
    <3> QED
      BY <1>1, <3>1
  <2>4. CASE Sent
    <3>1. ping >= -PeerDelay /\ ping' = ping /\ pc' = "select"
      BY <2>0, <2>4 DEF Sent, timers
    <3> QED
      BY <1>1, <3>1
  <2>5. CASE PeerSendsPing \/ PeerCloses \/ PeerChanges \/ UNCHANGED vars
    <3>1. ping' = ping /\ pc' = pc /\ out' = out /\ waited' = waited
      BY <2>5 DEF PeerSendsPing, PeerCloses, PeerChanges, timers, vars
    <3> QED
      BY <2>0, <3>1
  <2>6. CASE Tick
    <3>1. /\ out' = out /\ pc' = pc
          /\ ping' = IF ping > -MaxOverdue THEN ping - 1 ELSE ping
      BY <2>6 DEF Tick
    <3>2. CASE pc = "select"
      <4>1. ping > 0
        BY <2>6, <3>2 DEF Tick, Waiting, Sends
      <4> QED
        BY <1>1, <3>1, <3>2, <4>1
    <3>3. CASE pc \in {"text", "ping"}
      <4>1. Len(out) = Room /\ waited' = waited + 1
        BY <2>6, <3>3 DEF Tick, Waiting, Sends
      <4> QED
        BY <1>1, <2>0, <3>1, <3>3, <4>1
    <3>4. CASE pc = "pong"
      <4>1. Len(out) = Room
        BY <2>6, <3>4 DEF Tick, Waiting, Sends
      <4> QED
        BY <1>1, <3>1, <3>4, <4>1
    <3> QED
      BY <2>6, <3>2, <3>3, <3>4 DEF Tick, Waiting, Sends
  <2>7. ~SendTimesOut /\ ~Reset /\ ~PeerReads
    BY <1>3 DEF SendTimesOut, Reset, PeerReads
  <2> QED
    BY <2>1, <2>2, <2>3, <2>4, <2>5, <2>6, <2>7 DEF Next, Loop, Peer
<1> QED
  BY <1>2, <1>3

(* Clocks that have stopped at the bounds of a run still add up to no more *)
(* than an answered Ping allows.                                           *)
LEMMA Saturated ==
    ASSUME NEW high \in Nat, NEW low \in Int, high <= MaxSilence, low = -MaxOverdue
    PROVE  high + low <= PongDeadline + PingInterval
BY Constants

LEMMA CheckedStep == IInv /\ [Next]_vars => Checked'
<1> SUFFICES ASSUME IInv, [Next]_vars, Live'
             PROVE  silence' + ping' <= PongDeadline + PingInterval
  BY DEF Checked
<1> USE DEF IInv, Live
<1>1. /\ ping \in Int /\ silence \in Nat /\ silence <= MaxSilence /\ MaxSilence \in Nat
      /\ PingInterval \in Nat /\ PongDeadline \in Nat
      /\ silence + ping <= PongDeadline + PingInterval /\ -MaxOverdue <= ping
      /\ MaxOverdue \in Nat
  BY Ranges, Constants, OneWay DEF Checked
<1>2. CASE PingTick
  <2>1. ping <= 0 /\ ping' = ping + PingInterval /\ silence' = silence /\ silence <= PongDeadline
    BY <1>2 DEF PingTick
  <2> QED
    BY <1>1, <2>1
<1>3. CASE Receive
  <2>1. ping' = ping /\ silence' \in {0, silence}
    BY <1>3 DEF Receive
  <2>2. CASE silence' = silence
    BY <1>1, <2>1, <2>2
  <2>3. CASE silence' = 0
    <3>1. 0 + ping <= PongDeadline + PingInterval
      BY <1>1
    <3> QED
      BY <1>1, <2>1, <2>3, <3>1
  <2> QED
    BY <2>1, <2>2, <2>3
<1>4. CASE Tick
  <2>1. /\ ping' = IF ping > -MaxOverdue THEN ping - 1 ELSE ping
        /\ silence' = IF silence < MaxSilence THEN silence + 1 ELSE silence
    BY <1>4 DEF Tick
  <2>2. CASE ping > -MaxOverdue
    BY <1>1, <2>1, <2>2
  <2>3. CASE ~(ping > -MaxOverdue)
    <3>1. ping' = -MaxOverdue /\ silence' \in Nat /\ silence' <= MaxSilence /\ ping' \in Int
      BY <1>1, <2>1, <2>3
    <3> QED
      BY <3>1, Saturated
  <2> QED
    BY <2>2, <2>3
<1>5. CASE \/ Broadcast \/ Sent \/ SendTimesOut \/ Reset \/ PeerReads \/ PeerSendsPing
           \/ PeerCloses \/ PeerChanges \/ UNCHANGED vars
  <2>1. ping' = ping /\ silence' = silence
    BY <1>5 DEF Broadcast, Sent, SendTimesOut, Reset, PeerReads, PeerSendsPing, PeerCloses,
       PeerChanges, timers, vars
  <2> QED
    BY <1>1, <2>1
<1> QED
  BY <1>2, <1>3, <1>4, <1>5 DEF Next, Loop, Peer

LEMMA ClosesLastStep == IInv /\ [Next]_vars => ClosesLast'
<1> SUFFICES ASSUME IInv, [Next]_vars, Live', Has(in', "close"), peer' = "attentive"
             PROVE  FALSE
  BY DEF ClosesLast
<1> USE DEF IInv, Live
<1>1. ~Has(in, "close") /\ in \in Seq(Messages)
  BY OneWay DEF ClosesLast, TypeOK, Messages
<1>2. in' # in
  BY <1>1
<1>3. CASE Receive
  <2>1. in # <<>> /\ in' = Tail(in)
    BY <1>3 DEF Receive
  <2> QED
    BY <1>1, <2>1, Taken
<1>4. CASE PeerReads \/ PeerSendsPing
  <2>1. in' = Append(in, "pong") \/ in' = Append(in, "ping")
    BY <1>2, <1>4 DEF PeerReads, Answers, KeepsQuiet, PeerSendsPing
  <2>2. ~Has(Append(in, "pong"), "close") /\ ~Has(Append(in, "ping"), "close")
    <3>1. "pong" \in Messages /\ "ping" \in Messages
      BY DEF Messages
    <3>2. /\ Has(Append(in, "pong"), "close") <=> Has(in, "close") \/ "pong" = "close"
          /\ Has(Append(in, "ping"), "close") <=> Has(in, "close") \/ "ping" = "close"
      BY <1>1, <3>1, Appended
    <3> QED
      BY <1>1, <3>2
  <2> QED
    BY <2>1, <2>2
<1> QED
  BY <1>2, <1>3, <1>4 DEF Next, Loop, Peer, Broadcast, PingTick, Sent, SendTimesOut, Reset,
     PeerCloses, PeerChanges, Tick, vars

LEMMA AnsweredStep == IInv /\ TypeOK' /\ [Next]_vars => Answered'
<1> SUFFICES ASSUME IInv, TypeOK', [Next]_vars, Live', peer' = "attentive"
             PROVE  \/ silence' + ping' <= PingInterval
                    \/ pc' = "ping" /\ ping' > BeforePing'
                    \/ Has(out', "ping") /\ ping' > BeforeRead'
                    \/ Has(in', "pong") /\ ping' > Late'
  BY DEF Answered
<1> USE DEF IInv, Live
<1>0. Live /\ peer = "attentive" /\ peer \in Reads
  BY OneWay DEF Reads
<1>1. /\ ping \in Int /\ silence \in Nat /\ silence <= MaxSilence /\ MaxSilence \in Nat
      /\ MaxOverdue \in Nat /\ PeerDelay < MaxOverdue /\ ping <= PingInterval
      /\ PingInterval \in Nat /\ PeerDelay \in Nat /\ PeerLag \in Nat
      /\ 2 * PeerDelay + 3 * PeerLag < PingInterval
      /\ lag \in Nat /\ lag <= PeerLag /\ Late \in Nat /\ Late' \in Nat
      /\ Len(out) \in Nat /\ Room \in Nat \ {0}
      /\ out \in Seq(Sends) /\ in \in Seq(Messages)
  <2>1. (TypeOK => Late \in Nat)'
    BY LateType, PTL
  <2> QED
    BY <2>1, Ranges, Numbers, Constants DEF TypeOK, Messages
<1>2. /\ ping >= Late - PeerDelay /\ Late <= PeerDelay + PeerLag
      /\ out = <<>> => lag = 0
  BY <1>0 DEF InTime, SendsEnd
<1>3. \/ silence + ping <= PingInterval
      \/ pc = "ping" /\ ping > BeforePing
      \/ Has(out, "ping") /\ ping > BeforeRead
      \/ Has(in, "pong") /\ ping > Late
  BY <1>0 DEF Answered
<1>4. CASE PingTick
  <2>1. pc' = "ping" /\ ping' = ping + PingInterval /\ lag' = lag /\ out' = out
    BY <1>4 DEF PingTick
  <2>2. ping >= -PeerDelay
    BY <1>1, <1>2 DEF Late
  <2>3. ping' > 3 * PeerLag + PeerDelay
    BY <1>1, <2>1, <2>2
  <2> QED
    BY <1>1, <2>1, <2>3 DEF BeforePing
<1>5. CASE Broadcast \/ PeerSendsPing \/ UNCHANGED vars
  <2>1. /\ silence' = silence /\ ping' = ping /\ out' = out /\ lag' = lag
        /\ pc = "ping" => pc' = pc
    BY <1>5 DEF Broadcast, PeerSendsPing, timers, vars
  <2>2. Late' <= Late
    BY <1>5, LateSteady
  <2>3. Has(in, "pong") => Has(in', "pong")
    <3>1. CASE in' = in
      BY <3>1
    <3>2. CASE in' = Append(in, "ping")
      BY <1>1, <3>2, Appended DEF Messages
    <3> QED
      BY <1>5, <3>1, <3>2 DEF Broadcast, PeerSendsPing, vars
  <2>4. Has(in, "pong") /\ ping > Late => Has(in', "pong") /\ ping' > Late'
    BY <1>1, <2>1, <2>2, <2>3 DEF Late
  <2>5. BeforePing' = BeforePing /\ BeforeRead' = BeforeRead
    BY <2>1 DEF BeforePing, BeforeRead
  <2> QED
    BY <1>3, <2>1, <2>4, <2>5
<1>6. CASE Receive
  <2>1. /\ pc = "select" /\ in # <<>> /\ in' = Tail(in) /\ ping' = ping /\ out' = out
        /\ lag' = lag /\ silence' = IF Head(in) = "pong" THEN 0 ELSE silence
    BY <1>6 DEF Receive
  <2>2. CASE Head(in) = "pong"
    BY <1>1, <2>1, <2>2
  <2>3. CASE Head(in) # "pong"
    <3>1. Has(in, "pong") => Has(in', "pong")
      BY <1>1, <2>1, <2>3, Taken
    <3>2. Late' <= Late
      BY <1>6, LateSteady
    <3>3. Has(in, "pong") /\ ping > Late => Has(in', "pong") /\ ping' > Late'
      BY <1>1, <2>1, <3>1, <3>2 DEF Late
    <3>4. BeforeRead' = BeforeRead
      BY <2>1 DEF BeforeRead
    <3> QED
      BY <1>3, <2>1, <2>3, <3>3, <3>4
  <2> QED
    BY <2>2, <2>3
<1>7. CASE Sent
  <2>1. /\ pc \in Sends /\ out' = Append(out, pc) /\ in' = in /\ ping' = ping /\ lag' = lag
        /\ silence' = silence
    BY <1>7 DEF Sent, timers
  <2>2. Has(out', "ping") <=> Has(out, "ping") \/ pc = "ping"
    BY <1>1, <2>1, Appended
  <2>3. Late' <= Late
    BY <1>7, LateSteady
  <2>4. Has(in, "pong") /\ ping > Late => Has(in', "pong") /\ ping' > Late'
    BY <1>1, <2>1, <2>3 DEF Late
  <2>5. BeforeRead' = BeforeRead
    BY <2>1 DEF BeforeRead
  <2>6. BeforePing >= BeforeRead
    BY <1>1, <1>2 DEF BeforePing, BeforeRead
  <2>7. BeforePing \in Int /\ BeforeRead \in Int
    BY <1>1 DEF BeforePing, BeforeRead
  <2>8. ping > BeforePing => ping > BeforeRead
    BY <1>1, <2>6, <2>7
  <2> QED
    BY <1>3, <2>1, <2>2, <2>4, <2>5, <2>8
<1>8. CASE PeerReads
  <2>1. /\ out # <<>> /\ out' = Tail(out) /\ pc' = pc /\ ping' = ping /\ silence' = silence
        /\ lag' = (IF Len(out) = 1 THEN 0 ELSE lag)
        /\ in' = IF Head(out) = "ping" THEN Append(in, "pong") ELSE in
    BY <1>0, <1>8 DEF PeerReads, Answers, KeepsQuiet
  <2>2. Late' <= Late
    BY <1>8, LateSteady
  <2>3. Has(in, "pong") \/ Head(out) = "ping" => Has(in', "pong")
    BY <1>1, <2>1, Appended DEF Messages
  <2>4. out' = <<>> <=> Len(out) = 1
    <3>1. Len(out') = Len(out) - 1 /\ out' \in Seq(Sends)
      BY <1>1, <2>1
    <3>2. out' = <<>> <=> Len(out') = 0
      BY <3>1
    <3> QED
      BY <1>1, <3>1, <3>2
  <2>5. CASE Has(in, "pong") /\ ping > Late
    <3>1. ping' > Late'
      BY <1>1, <2>1, <2>2, <2>5 DEF Late
    <3> QED
      BY <2>3, <2>5, <3>1
  <2>6. CASE pc = "ping" /\ ping > BeforePing
    <3>1. BeforePing' <= BeforePing /\ BeforePing \in Int /\ BeforePing' \in Int
      BY <1>1, <2>1, <2>4 DEF BeforePing
    <3>2. ping' > BeforePing'
      BY <1>1, <2>1, <2>6, <3>1 DEF BeforePing
    <3> QED
      BY <2>1, <2>6, <3>2
  <2>7. CASE Has(out, "ping") /\ ping > BeforeRead
    <3>1. Has(out, "ping") <=> Has(out', "ping") \/ Head(out) = "ping"
      BY <1>1, <2>1, Taken
    <3>2. CASE Head(out) = "ping"
      <4>1. ping > Late
        BY <1>1, <1>2, <2>7 DEF Late, BeforeRead
      <4>2. ping' > Late'
        BY <1>1, <2>1, <2>2, <4>1 DEF Late
      <4> QED
        BY <2>3, <3>2, <4>2
    <3>3. CASE Has(out', "ping")
      <4>1. out' # <<>>
        BY <3>3 DEF Has
      <4>2. BeforeRead' = BeforeRead
        BY <2>1, <2>4, <4>1 DEF BeforeRead
      <4> QED
        BY <2>1, <2>7, <3>3, <4>2
    <3> QED
      BY <2>7, <3>1, <3>2, <3>3
  <2> QED
    BY <1>3, <2>1, <2>5, <2>6, <2>7
<1>9. CASE Tick
  <2>1. /\ out' = out /\ in' = in /\ pc' = pc /\ lag' = (IF out = <<>> THEN 0 ELSE lag + 1)
        /\ ping' = ping - 1
        /\ silence' = IF silence < MaxSilence THEN silence + 1 ELSE silence
    <3>1. ping > -MaxOverdue
      BY <1>1, <1>2 DEF Late
    <3> QED
      BY <1>0, <1>9, <3>1 DEF Tick
  <2>2. pc \in Sends => out # <<>>
    BY <1>1, <1>9 DEF Tick, Waiting, Sends
  <2>3. CASE silence + ping <= PingInterval
    BY <1>1, <2>1, <2>3
  <2>4. CASE pc = "ping" /\ ping > BeforePing
    <3>1. /\ BeforePing' = BeforePing - 1 /\ BeforePing \in Int /\ BeforePing >= 0
      BY <1>1, <2>1, <2>2, <2>4 DEF BeforePing, Sends
    <3>2. ping' > BeforePing'
      BY <1>1, <2>1, <2>4, <3>1
    <3> QED
      BY <2>1, <2>4, <3>2
  <2>5. CASE Has(out, "ping") /\ ping > BeforeRead
    <3>1. out # <<>>
      BY <2>5 DEF Has
    <3>2. /\ BeforeRead' = BeforeRead - 1 /\ BeforeRead \in Int /\ BeforeRead >= 0
      BY <1>1, <2>1, <3>1 DEF BeforeRead
    <3>3. ping' > BeforeRead'
      BY <1>1, <2>1, <2>5, <3>2
    <3> QED
      BY <2>1, <2>5, <3>3
  <2>6. CASE Has(in, "pong") /\ ping > Late
    <3>1. in # <<>>
      BY <2>6 DEF Has
    <3>2. pc \in Sends
      BY <1>9, <3>1 DEF Tick, Waiting
    <3>3. Late' <= Late - 1
      BY <1>0, <1>9, <3>2, LateWaited
    <3>4. ping' > Late'
      BY <1>1, <2>1, <2>6, <3>3 DEF Late
    <3> QED
      BY <2>1, <2>6, <3>4
  <2> QED
    BY <1>3, <2>3, <2>4, <2>5, <2>6
<1>10. ~SendTimesOut /\ ~Reset /\ ~PeerCloses /\ ~PeerChanges
  BY DEF SendTimesOut, Reset, PeerCloses, PeerChanges
<1> QED
  BY <1>4, <1>5, <1>6, <1>7, <1>8, <1>9, <1>10 DEF Next, Loop, Peer

LEMMA KeptStep == IInv /\ [Next]_vars => AttentiveIsKept'
<1> SUFFICES ASSUME IInv, [Next]_vars, pc' = "ended", peer' = "attentive"
             PROVE  FALSE
  BY DEF AttentiveIsKept
<1> USE DEF IInv, Live
<1>1. Live /\ peer = "attentive" /\ peer \in Reads
  BY OneWay DEF AttentiveIsKept, Reads
<1>2. CASE PingTick
  <2>1. ping <= 0 /\ silence >= PongDeadline
    BY <1>2 DEF PingTick
  <2>2. /\ ping \in Int /\ silence \in Nat /\ Late \in Nat /\ lag \in Nat /\ lag <= PeerLag
        /\ PingInterval \in Nat /\ PongDeadline \in Nat /\ PeerDelay \in Nat /\ PeerLag \in Nat
        /\ PingInterval + PeerDelay < PongDeadline
    BY Ranges, Numbers, Constants
  <2>3. ping >= -PeerDelay
    BY <1>1, <2>2 DEF InTime, Late
  <2>4. ~(ping > BeforePing) /\ ~(ping > BeforeRead) /\ ~(ping > Late)
    BY <2>1, <2>2 DEF BeforePing, BeforeRead, Late
  <2>5. silence + ping <= PingInterval
    BY <1>1, <2>4 DEF Answered
  <2> QED
    BY <2>1, <2>2, <2>3, <2>5
<1>3. CASE Receive
  <2>1. in # <<>> /\ Head(in) = "close"
    BY <1>3 DEF Receive, TypeOK
  <2>2. Has(in, "close")
    BY <2>1, Taken DEF TypeOK
  <2> QED
    BY <1>1, <2>2 DEF ClosesLast
<1>4. CASE SendTimesOut
  <2>1. pc \in Sends /\ Len(out) = Room /\ waited >= SendTimeout
    BY <1>4 DEF SendTimesOut
  <2>2. waited <= lag
    BY <1>1, <2>1, Constants DEF SendsEnd
  <2> QED
    BY <2>1, <2>2, Ranges, Constants
<1>5. ~Reset /\ ~PeerCloses /\ ~PeerChanges
  BY <1>1 DEF Reset, PeerCloses, PeerChanges
<1> QED
  BY <1>1, <1>2, <1>3, <1>4, <1>5 DEF Next, Loop, Peer, Broadcast, Sent, PeerReads,
     PeerSendsPing, Tick, vars

LEMMA NothingSentStep == IInv /\ [Next]_vars => NothingSent'
<1> SUFFICES ASSUME IInv, [Next]_vars, pc' \notin Sends PROVE waited' = 0
  BY DEF NothingSent
<1> QED
  BY DEF IInv, NothingSent, Next, Loop, Peer, Broadcast, PingTick, Receive, Sent, SendTimesOut,
     Reset, PeerReads, PeerSendsPing, PeerCloses, PeerChanges, Tick, vars, timers, Sends

LEMMA NextInv == IInv /\ [Next]_vars => IInv'
<1> SUFFICES ASSUME IInv, [Next]_vars PROVE IInv'
  OBVIOUS
<1>1. TypeOK'
  BY TypeInductive DEF IInv
<1> QED
  BY <1>1, InTimeStep, SendsEndStep, OverdueStep, NothingSentStep, CheckedStep, ClosesLastStep,
     AnsweredStep, KeptStep DEF IInv

LEMMA Inductive == Spec => []IInv
BY InitInv, NextInv, PTL DEF Spec

(* A peer that reads and answers within PeerLag is kept: neither the pong  *)
(* deadline nor a send timeout can hit it, whatever order websocket_loop   *)
(* takes the branches of its select! in.                                   *)
THEOREM AttentiveStays == Spec => []AttentiveIsKept
<1>1. IInv => AttentiveIsKept
  BY DEF IInv
<1> QED
  BY <1>1, Inductive, PTL

(* While its peer keeps up, and when it has then stopped reading           *)
(* altogether, a session outlives its last Pong by the deadline, one ping  *)
(* interval, one send timeout and what such a peer may delay the loop, and *)
(* not by more, unless it is stuck in the answer to a Ping. Nothing is     *)
(* said of a peer that reads on without keeping up.                        *)
THEOREM SilenceStaysBounded == Spec => []SilenceBounded
<1>1. IInv => SilenceBounded
  <2> SUFFICES ASSUME IInv, ~slowed, pc \in {"select", "text", "ping"}
               PROVE  silence <= PongDeadline + PingInterval + SendTimeout + PeerDelay
    BY DEF SilenceBounded
  <2>1. /\ ping \in Int /\ silence \in Nat /\ waited \in Nat /\ waited <= SendTimeout
        /\ Late \in Nat /\ Len(out) \in Nat
        /\ PingInterval \in Nat /\ PongDeadline \in Nat /\ PeerDelay \in Nat /\ SendTimeout \in Nat
    BY Ranges, Numbers, Constants DEF IInv
  <2>2. ping >= -PeerDelay - SendTimeout
    <3>1. CASE peer \in Reads
      BY <2>1, <3>1 DEF IInv, InTime, Live, Late
    <3>2. CASE peer \notin Reads
      BY <2>1, <3>2 DEF IInv, Overdue, Live
    <3> QED
      BY <3>1, <3>2
  <2>3. silence + ping <= PongDeadline + PingInterval
    BY DEF IInv, Checked, Live
  <2> QED
    BY <2>1, <2>2, <2>3
<1> QED
  BY <1>1, Inductive, PTL
====
