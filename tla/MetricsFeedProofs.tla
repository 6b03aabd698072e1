-------------------------- MODULE MetricsFeedProofs --------------------------
(***************************************************************************)
(* Proofs about MetricsFeed, for any finite number of requests and viewers *)
(* and any cap: the counters are exact, a snapshot counts its viewer, a    *)
(* rate counts no request from before its time, and the permits are a      *)
(* bounded pool.                                                           *)
(***************************************************************************)
EXTENDS MetricsFeed, FiniteSetTheorems, TLAPS

(* What the counters count. *)
Routed  == {r \in Requests : request[r] # "idle"}
Counted == {r \in Requests : request[r] = "counted"}
Looping == {v \in Viewers : viewer[v] \in InLoop}

Finite ==
    /\ IsFiniteSet(Routed) /\ Cardinality(Routed) \in 0 .. Cardinality(Requests)
    /\ IsFiniteSet(Counted) /\ Cardinality(Counted) \in Nat
    /\ IsFiniteSet(PermitHolders) /\ Cardinality(PermitHolders) \in Nat
    /\ IsFiniteSet(Looping) /\ Cardinality(Looping) \in 0 .. Cardinality(PermitHolders)

LEMMA CountedFinite == Finite
<1>1. Routed \in SUBSET Requests /\ Counted \in SUBSET Requests
  BY DEF Routed, Counted
<1>2. PermitHolders \in SUBSET Viewers /\ Looping \in SUBSET PermitHolders
  BY DEF PermitHolders, Looping, Admitted
<1>3. IsFiniteSet(Routed) /\ IsFiniteSet(Counted)
      /\ Cardinality(Routed) <= Cardinality(Requests)
  BY <1>1, FS_Subset, FeedAssumption
<1>4. IsFiniteSet(PermitHolders)
  BY <1>2, FS_Subset, FeedAssumption
<1>5. IsFiniteSet(Looping) /\ Cardinality(Looping) <= Cardinality(PermitHolders)
  BY <1>2, <1>4, FS_Subset
<1>6. /\ Cardinality(Routed) \in Nat /\ Cardinality(Counted) \in Nat
      /\ Cardinality(PermitHolders) \in Nat /\ Cardinality(Looping) \in Nat
      /\ Cardinality(Requests) \in Nat
  BY <1>3, <1>4, <1>5, FS_CardinalityType, FeedAssumption
<1> QED
  BY <1>3, <1>4, <1>5, <1>6 DEF Finite

LEMMA CountedFiniteNext == Finite'
BY CountedFinite, PTL

(* The inductive invariant. The gauge stays below the cap because permits  *)
(* are conserved and every session in the loop holds one; a rate is not    *)
(* inflated because the total of a snapshot, and so of the base, was read  *)
(* after its time.                                                         *)
Counts ==
    /\ connections = Cardinality(Routed)
    /\ clients = Cardinality(Looping)
    /\ total - sampled = Cardinality(Counted)
    /\ permits + Cardinality(PermitHolders) = MaxClients
TotalAfterTime ==
    /\ totalAt[base.time] <= base.requests
    /\ \A v \in Viewers : viewer[v] \in {"total", "clients", "locked"} =>
          totalAt[local[v].now] <= local[v].total
Inv == TypeOK /\ Counts /\ SnapshotCountsViewer /\ TotalAfterTime

LEMMA InitInv == Init => Inv
<1> SUFFICES ASSUME Init PROVE Inv
  OBVIOUS
<1>1. Routed = {} /\ Counted = {} /\ Looping = {} /\ PermitHolders = {}
  BY DEF Init, Routed, Counted, Looping, PermitHolders, InLoop, Snapping, Admitted
<1>2. Cardinality({}) = 0
  BY FS_EmptySet
<1>3. Counts
  BY <1>1, <1>2, FeedAssumption DEF Init, Counts
<1>4. Cardinality(Requests) \in Nat
  BY FS_CardinalityType, FeedAssumption
<1>5. TypeOK
  BY <1>4, FeedAssumption DEF Init, TypeOK, NothingRead
<1>6. SnapshotCountsViewer /\ TotalAfterTime
  BY DEF Init, SnapshotCountsViewer, TotalAfterTime
<1> QED
  BY <1>3, <1>5, <1>6 DEF Inv

LEMMA Numbers ==
    ASSUME Inv
    PROVE  /\ connections \in Nat /\ clients \in Nat /\ total \in Nat /\ sampled \in Nat
           /\ permits \in Nat /\ clock \in Nat
           /\ MaxClients \in Nat /\ MaxTotal \in Nat /\ MaxInstant \in Nat
BY FeedAssumption, CountedFinite DEF Inv, TypeOK, Finite

----------------------------------------------------------------------------
(* What viewers have read, and what that says. *)
Views ==
    /\ base \in [time : 0 .. clock, requests : 0 .. total]
    /\ local \in [Viewers -> [now : 0 .. clock, total : 0 .. total, clients : 0 .. MaxClients]]
    /\ totalAt \in [0 .. clock -> 0 .. total]
    /\ SnapshotCountsViewer /\ TotalAfterTime

(* A request's steps leave the viewers alone; the total may grow. *)
LEMMA RequestFrame ==
    ASSUME Inv, UNCHANGED <<snapVars, viewer, permits, clients>>,
           total' = total \/ total' = total + 1
    PROVE  Views' /\ UNCHANGED <<PermitHolders, Looping>>
<1>1. UNCHANGED <<clock, base, lock, local, totalAt, viewer>>
  BY DEF snapVars
<1>2. 0 .. total \subseteq 0 .. total'
  BY Numbers
<1>3. base' \in [time : 0 .. clock', requests : 0 .. total']
  BY <1>1, <1>2 DEF Inv, TypeOK
<1>4. local' \in [Viewers -> [now : 0 .. clock', total : 0 .. total', clients : 0 .. MaxClients]]
  BY <1>1, <1>2 DEF Inv, TypeOK
<1>5. totalAt' \in [0 .. clock' -> 0 .. total']
  BY <1>1, <1>2 DEF Inv, TypeOK
<1>6. UNCHANGED <<PermitHolders, Looping>>
  BY <1>1 DEF PermitHolders, Looping
<1>7. SnapshotCountsViewer' /\ TotalAfterTime'
  BY <1>1 DEF Inv, SnapshotCountsViewer, TotalAfterTime
<1> QED
  BY <1>3, <1>4, <1>5, <1>6, <1>7 DEF Views

RequestTypes == request \in [Requests -> {"idle", "routing", "counted", "sampled"}]
ViewerTypes  == viewer \in [Viewers -> Admitted \cup {"away"}]

(* The bounds that TypeOK puts on the counters follow from what they       *)
(* count.                                                                  *)
LEMMA Assemble ==
    ASSUME Views', Counts', RequestTypes', ViewerTypes',
           total' \in 0 .. MaxTotal, sampled' \in Nat, permits' \in Nat,
           clock' \in 0 .. MaxInstant, lock' \in Viewers \cup {NoOne}
    PROVE  Inv'
<1>1. connections' \in 0 .. Cardinality(Requests)
  BY CountedFiniteNext DEF Counts, Finite
<1>2. clients' \in 0 .. MaxClients /\ permits' \in 0 .. MaxClients
  BY CountedFiniteNext, FeedAssumption DEF Counts, Finite
<1>3. sampled' \in 0 .. MaxTotal
  BY CountedFiniteNext, FeedAssumption DEF Counts, Finite
<1>4. TypeOK'
  BY <1>1, <1>2, <1>3 DEF TypeOK, Views, RequestTypes, ViewerTypes
<1> QED
  BY <1>4 DEF Inv, Views

LEMMA EnterInv == ASSUME Inv, NEW r \in Requests, Enter(r) PROVE Inv'
<1>1. UNCHANGED <<total, sampled, snapVars, viewer, permits, clients>>
  BY DEF Enter
<1>2. request[r] = "idle" /\ request' = [request EXCEPT ![r] = "routing"]
      /\ connections' = connections + 1
  BY DEF Enter
<1>3. r \notin Routed /\ Routed' = Routed \cup {r} /\ Counted' = Counted /\ RequestTypes'
  BY <1>2 DEF Inv, TypeOK, Routed, Counted, RequestTypes
<1>4. Cardinality(Routed \cup {r}) = Cardinality(Routed) + 1
  BY <1>3, CountedFinite, FS_AddElement DEF Finite
<1>5. Views' /\ UNCHANGED <<PermitHolders, Looping>>
  BY <1>1, RequestFrame
<1>6. Counts'
  BY <1>1, <1>2, <1>3, <1>4, <1>5 DEF Inv, Counts
<1> QED
  BY <1>1, <1>3, <1>5, <1>6, Assemble DEF Inv, TypeOK, ViewerTypes, snapVars

LEMMA CountRequestInv == ASSUME Inv, NEW r \in Requests, CountRequest(r) PROVE Inv'
<1>1. UNCHANGED <<connections, sampled, snapVars, viewer, permits, clients>>
  BY DEF CountRequest
<1>2. request[r] = "routing" /\ request' = [request EXCEPT ![r] = "counted"]
      /\ total' = total + 1 /\ total < MaxTotal
  BY DEF CountRequest
<1>3. r \notin Counted /\ Counted' = Counted \cup {r} /\ Routed' = Routed /\ RequestTypes'
  BY <1>2 DEF Inv, TypeOK, Routed, Counted, RequestTypes
<1>4. Cardinality(Counted \cup {r}) = Cardinality(Counted) + 1
  BY <1>3, CountedFinite, FS_AddElement DEF Finite
<1>5. Views' /\ UNCHANGED <<PermitHolders, Looping>>
  BY <1>1, <1>2, RequestFrame
<1>6. Counts'
  BY <1>1, <1>2, <1>3, <1>4, <1>5, Numbers DEF Inv, Counts
<1>7. total' \in 0 .. MaxTotal /\ sampled' \in Nat
  BY <1>1, <1>2, Numbers
<1> QED
  BY <1>1, <1>3, <1>5, <1>6, <1>7, Assemble, Numbers DEF Inv, TypeOK, ViewerTypes, snapVars

LEMMA SampleRequestInv == ASSUME Inv, NEW r \in Requests, SampleRequest(r) PROVE Inv'
<1>1. UNCHANGED <<connections, total, snapVars, viewer, permits, clients>>
  BY DEF SampleRequest
<1>2. request[r] = "counted" /\ request' = [request EXCEPT ![r] = "sampled"]
      /\ sampled' = sampled + 1
  BY DEF SampleRequest
<1>3. r \in Counted /\ Counted' = Counted \ {r} /\ Routed' = Routed /\ RequestTypes'
  BY <1>2 DEF Inv, TypeOK, Routed, Counted, RequestTypes
<1>4. Cardinality(Counted \ {r}) = Cardinality(Counted) - 1
  BY <1>3, CountedFinite, FS_RemoveElement DEF Finite
<1>5. Views' /\ UNCHANGED <<PermitHolders, Looping>>
  BY <1>1, RequestFrame
<1>6. Counts'
  BY <1>1, <1>2, <1>3, <1>4, <1>5, Numbers DEF Inv, Counts
<1>7. sampled' \in Nat
  BY <1>2, Numbers
<1> QED
  BY <1>1, <1>3, <1>5, <1>6, <1>7, Assemble, Numbers DEF Inv, TypeOK, ViewerTypes, snapVars

LEMMA LeaveInv == ASSUME Inv, NEW r \in Requests, Leave(r) PROVE Inv'
<1>1. UNCHANGED <<total, sampled, snapVars, viewer, permits, clients>>
  BY DEF Leave
<1>2. request[r] = "sampled" /\ request' = [request EXCEPT ![r] = "idle"]
      /\ connections' = connections - 1
  BY DEF Leave
<1>3. r \in Routed /\ Routed' = Routed \ {r} /\ Counted' = Counted /\ RequestTypes'
  BY <1>2 DEF Inv, TypeOK, Routed, Counted, RequestTypes
<1>4. Cardinality(Routed \ {r}) = Cardinality(Routed) - 1
  BY <1>3, CountedFinite, FS_RemoveElement DEF Finite
<1>5. Views' /\ UNCHANGED <<PermitHolders, Looping>>
  BY <1>1, RequestFrame
<1>6. Counts'
  BY <1>1, <1>2, <1>3, <1>4, <1>5 DEF Inv, Counts
<1> QED
  BY <1>1, <1>3, <1>5, <1>6, Assemble DEF Inv, TypeOK, ViewerTypes, snapVars

----------------------------------------------------------------------------
(* A viewer's steps outside the snapshot leave what is counted of requests *)
(* and what was read alone.                                                *)
LEMMA ViewerFrame ==
    ASSUME Inv, UNCHANGED <<requestVars, snapVars>>, NEW v \in Viewers,
           NEW s \in {"away", "upgrading", "waiting", "leaving"},
           viewer' = [viewer EXCEPT ![v] = s]
    PROVE  Views' /\ UNCHANGED <<Routed, Counted>> /\ RequestTypes' /\ ViewerTypes'
           /\ UNCHANGED <<connections, total, sampled, clock, lock>>
<1>1. UNCHANGED <<request, connections, total, sampled, clock, base, lock, local, totalAt>>
  BY DEF requestVars, snapVars
<1>2. UNCHANGED <<Routed, Counted>> /\ RequestTypes'
  BY <1>1 DEF Routed, Counted, Inv, TypeOK, RequestTypes
<1>3. ViewerTypes'
  BY DEF Inv, TypeOK, ViewerTypes, Admitted, InLoop
<1>4. \A u \in Viewers : viewer'[u] \in Snapping => viewer'[u] = viewer[u]
  BY DEF Inv, TypeOK, Snapping
<1>5. SnapshotCountsViewer' /\ TotalAfterTime'
  BY <1>1, <1>4 DEF Inv, SnapshotCountsViewer, TotalAfterTime, Snapping
<1> QED
  BY <1>1, <1>2, <1>3, <1>5 DEF Views, Inv, TypeOK

LEMMA AdmitInv == ASSUME Inv, NEW v \in Viewers, Admit(v) PROVE Inv'
<1>1. UNCHANGED <<requestVars, snapVars, clients>> /\ viewer[v] = "away"
      /\ viewer' = [viewer EXCEPT ![v] = "upgrading"] /\ permits' = permits - 1
  BY DEF Admit
<1>2. permits # 0
  BY DEF Admit, Answer
<1>3. /\ v \notin PermitHolders /\ PermitHolders' = PermitHolders \cup {v}
      /\ Looping' = Looping
  BY <1>1 DEF Inv, TypeOK, PermitHolders, Looping, Admitted, InLoop, Snapping
<1>4. Cardinality(PermitHolders \cup {v}) = Cardinality(PermitHolders) + 1
  BY <1>3, CountedFinite, FS_AddElement DEF Finite
<1>5. Views' /\ UNCHANGED <<Routed, Counted>> /\ RequestTypes' /\ ViewerTypes'
      /\ UNCHANGED <<connections, total, sampled, clock, lock>>
  BY <1>1, ViewerFrame
<1>6. Counts'
  BY <1>1, <1>3, <1>4, <1>5, Numbers, CountedFinite DEF Inv, Counts, Finite
<1>7. permits' \in Nat
  BY <1>1, <1>2, Numbers
<1> QED
  BY <1>5, <1>6, <1>7, Assemble, Numbers DEF Inv, TypeOK

LEMMA UpgradeInv == ASSUME Inv, NEW v \in Viewers, Upgrade(v) PROVE Inv'
<1>1. UNCHANGED <<requestVars, snapVars, permits>> /\ viewer[v] = "upgrading"
      /\ viewer' = [viewer EXCEPT ![v] = "waiting"] /\ clients' = clients + 1
  BY DEF Upgrade
<1>2. /\ v \notin Looping /\ Looping' = Looping \cup {v}
      /\ PermitHolders' = PermitHolders
  BY <1>1 DEF Inv, TypeOK, PermitHolders, Looping, Admitted, InLoop, Snapping
<1>3. Cardinality(Looping \cup {v}) = Cardinality(Looping) + 1
  BY <1>2, CountedFinite, FS_AddElement DEF Finite
<1>4. Views' /\ UNCHANGED <<Routed, Counted>> /\ RequestTypes' /\ ViewerTypes'
      /\ UNCHANGED <<connections, total, sampled, clock, lock>>
  BY <1>1, ViewerFrame
<1>5. Counts'
  BY <1>1, <1>2, <1>3, <1>4 DEF Inv, Counts
<1> QED
  BY <1>1, <1>4, <1>5, Assemble, Numbers DEF Inv, TypeOK

(* A viewer on its way out gives its permit back. *)
LEMMA PermitBack ==
    ASSUME Inv, NEW v \in Viewers, viewer[v] \in {"upgrading", "leaving"},
           UNCHANGED <<requestVars, snapVars, clients>>,
           viewer' = [viewer EXCEPT ![v] = "away"], permits' = permits + 1
    PROVE  Inv' /\ v \in PermitHolders /\ PermitHolders' = PermitHolders \ {v}
<1>1. /\ v \in PermitHolders /\ PermitHolders' = PermitHolders \ {v}
      /\ Looping' = Looping
  BY DEF Inv, TypeOK, PermitHolders, Looping, Admitted, InLoop, Snapping
<1>2. Cardinality(PermitHolders \ {v}) = Cardinality(PermitHolders) - 1
  BY <1>1, CountedFinite, FS_RemoveElement DEF Finite
<1>3. Views' /\ UNCHANGED <<Routed, Counted>> /\ RequestTypes' /\ ViewerTypes'
      /\ UNCHANGED <<connections, total, sampled, clock, lock>>
  BY ViewerFrame
<1>4. Counts'
  BY <1>1, <1>2, <1>3, Numbers, CountedFinite DEF Inv, Counts, Finite
<1>5. Inv'
  <2>1. permits' \in Nat
    BY Numbers
  <2> QED
    BY <1>3, <1>4, <2>1, Assemble, Numbers DEF Inv, TypeOK
<1> QED
  BY <1>1, <1>5

LEMMA EndLoopInv == ASSUME Inv, NEW v \in Viewers, EndLoop(v) PROVE Inv'
<1>1. UNCHANGED <<requestVars, snapVars, permits>> /\ viewer[v] = "waiting"
      /\ viewer' = [viewer EXCEPT ![v] = "leaving"] /\ clients' = clients - 1
  BY DEF EndLoop
<1>2. /\ v \in Looping /\ Looping' = Looping \ {v}
      /\ PermitHolders' = PermitHolders
  BY <1>1 DEF Inv, TypeOK, PermitHolders, Looping, Admitted, InLoop, Snapping
<1>3. Cardinality(Looping \ {v}) = Cardinality(Looping) - 1
  BY <1>2, CountedFinite, FS_RemoveElement DEF Finite
<1>4. Views' /\ UNCHANGED <<Routed, Counted>> /\ RequestTypes' /\ ViewerTypes'
      /\ UNCHANGED <<connections, total, sampled, clock, lock>>
  BY <1>1, ViewerFrame
<1>5. Counts'
  BY <1>1, <1>2, <1>3, <1>4 DEF Inv, Counts
<1> QED
  BY <1>1, <1>4, <1>5, Assemble, Numbers DEF Inv, TypeOK

----------------------------------------------------------------------------
(* A step of a snapshot moves a viewer within the loop and touches no      *)
(* counter.                                                                *)
LEMMA SnapshotFrame ==
    ASSUME Inv, UNCHANGED <<requestVars, permits, clients>>, NEW v \in Viewers,
           NEW s \in InLoop, viewer[v] \in InLoop, viewer' = [viewer EXCEPT ![v] = s]
    PROVE  /\ Counts' /\ RequestTypes' /\ ViewerTypes'
           /\ UNCHANGED <<request, connections, total, sampled, PermitHolders>>
<1>1. UNCHANGED <<request, connections, total, sampled>>
  BY DEF requestVars
<1>2. UNCHANGED <<Routed, Counted>> /\ RequestTypes'
  BY <1>1 DEF Routed, Counted, Inv, TypeOK, RequestTypes
<1>3. ViewerTypes' /\ UNCHANGED <<PermitHolders, Looping>>
  BY DEF Inv, TypeOK, ViewerTypes, PermitHolders, Looping, Admitted
<1> QED
  BY <1>1, <1>2, <1>3 DEF Inv, Counts

LEMMA ReadNowInv == ASSUME Inv, NEW v \in Viewers, ReadNow(v) PROVE Inv'
<1>1. /\ UNCHANGED <<requestVars, base, lock, permits, clients>> /\ viewer[v] = "waiting"
      /\ viewer' = [viewer EXCEPT ![v] = "now"]
      /\ clock < MaxInstant /\ clock' = clock + 1
  BY DEF ReadNow
<1>2. /\ Counts' /\ RequestTypes' /\ ViewerTypes'
      /\ UNCHANGED <<request, connections, total, sampled, PermitHolders>>
  BY <1>1, SnapshotFrame DEF InLoop, Snapping
<1>3. /\ base' \in [time : 0 .. clock', requests : 0 .. total']
      /\ base.time \in 0 .. clock
  BY <1>1, <1>2, Numbers DEF Inv, TypeOK
<1>4. \A u \in Viewers :
          local'[u] = IF u = v THEN [local[u] EXCEPT !.now = clock + 1] ELSE local[u]
  BY DEF ReadNow, Inv, TypeOK
<1>5. \A u \in Viewers : viewer'[u] = IF u = v THEN "now" ELSE viewer[u]
  BY <1>1 DEF Inv, TypeOK
<1>6. local' \in [Viewers -> [now : 0 .. clock', total : 0 .. total', clients : 0 .. MaxClients]]
  <2>1. \A u \in Viewers :
            local[u] \in [now : 0 .. clock, total : 0 .. total, clients : 0 .. MaxClients]
    BY DEF Inv, TypeOK
  <2>2. \A u \in Viewers :
            local'[u] \in [now : 0 .. clock', total : 0 .. total', clients : 0 .. MaxClients]
    <3>1. 0 .. clock \subseteq 0 .. clock' /\ clock + 1 \in 0 .. clock'
      BY <1>1, Numbers
    <3> QED
      BY <1>2, <1>4, <2>1, <3>1
  <2> QED
    BY <2>2 DEF ReadNow, Inv, TypeOK
<1>7. /\ totalAt' \in [0 .. clock' -> 0 .. total']
      /\ \A i \in 0 .. clock : totalAt'[i] = totalAt[i]
  <2>1. totalAt' = [i \in 0 .. clock' |-> IF i = clock' THEN total ELSE totalAt[i]]
    BY DEF ReadNow
  <2>2. \A i \in 0 .. clock' : i = clock' \/ i \in 0 .. clock
    BY <1>1, Numbers
  <2>3. \A i \in 0 .. clock : i \in 0 .. clock' /\ i # clock'
    BY <1>1, Numbers
  <2>4. total \in 0 .. total /\ \A i \in 0 .. clock : totalAt[i] \in 0 .. total
    BY Numbers DEF Inv, TypeOK
  <2> QED
    BY <1>2, <2>1, <2>2, <2>3, <2>4
<1>8. SnapshotCountsViewer'
  BY <1>4, <1>5 DEF Inv, SnapshotCountsViewer
<1>9. TotalAfterTime'
  <2>1. totalAt'[base'.time] <= base'.requests
    BY <1>1, <1>3, <1>7 DEF Inv, TotalAfterTime
  <2>2. \A u \in Viewers : local[u].now \in 0 .. clock
    BY DEF Inv, TypeOK
  <2>3. ASSUME NEW u \in Viewers, viewer'[u] \in {"total", "clients", "locked"}
        PROVE  totalAt'[local'[u].now] <= local'[u].total
    BY <1>4, <1>5, <1>7, <2>2, <2>3 DEF Inv, TotalAfterTime
  <2> QED
    BY <2>1, <2>3 DEF TotalAfterTime
<1>10. Views'
  BY <1>3, <1>6, <1>7, <1>8, <1>9 DEF Views
<1>11. clock' \in 0 .. MaxInstant
  BY <1>1, Numbers
<1> QED
  BY <1>1, <1>2, <1>10, <1>11, Assemble, Numbers DEF Inv, TypeOK

LEMMA LoadTotalInv == ASSUME Inv, NEW v \in Viewers, LoadTotal(v) PROVE Inv'
<1>1. /\ UNCHANGED <<requestVars, clock, base, lock, totalAt, permits, clients>>
      /\ viewer[v] = "now" /\ viewer' = [viewer EXCEPT ![v] = "total"]
  BY DEF LoadTotal
<1>2. /\ Counts' /\ RequestTypes' /\ ViewerTypes'
      /\ UNCHANGED <<request, connections, total, sampled, PermitHolders>>
  BY <1>1, SnapshotFrame DEF InLoop, Snapping
<1>3. \A u \in Viewers :
          local'[u] = IF u = v THEN [local[u] EXCEPT !.total = total] ELSE local[u]
  BY DEF LoadTotal, Inv, TypeOK
<1>4. \A u \in Viewers : viewer'[u] = IF u = v THEN "total" ELSE viewer[u]
  BY <1>1 DEF Inv, TypeOK
<1>5. \A u \in Viewers :
          local[u] \in [now : 0 .. clock, total : 0 .. total, clients : 0 .. MaxClients]
  BY DEF Inv, TypeOK
<1>6. local' \in [Viewers -> [now : 0 .. clock', total : 0 .. total', clients : 0 .. MaxClients]]
  <2>1. \A u \in Viewers :
            local'[u] \in [now : 0 .. clock', total : 0 .. total', clients : 0 .. MaxClients]
    <3>1. total \in 0 .. total
      BY Numbers
    <3> QED
      BY <1>1, <1>2, <1>3, <1>5, <3>1
  <2> QED
    BY <2>1 DEF LoadTotal, Inv, TypeOK
<1>7. SnapshotCountsViewer'
  BY <1>3, <1>4 DEF Inv, SnapshotCountsViewer
<1>8. TotalAfterTime'
  <2>1. \A i \in 0 .. clock : totalAt[i] <= total
    BY Numbers DEF Inv, TypeOK
  <2>2. ASSUME NEW u \in Viewers, viewer'[u] \in {"total", "clients", "locked"}
        PROVE  totalAt'[local'[u].now] <= local'[u].total
    BY <1>1, <1>3, <1>4, <1>5, <2>1, <2>2 DEF Inv, TotalAfterTime
  <2> QED
    BY <1>1, <2>2 DEF Inv, TotalAfterTime
<1>9. Views'
  BY <1>1, <1>2, <1>6, <1>7, <1>8 DEF Views, Inv, TypeOK
<1> QED
  BY <1>1, <1>2, <1>9, Assemble, Numbers DEF Inv, TypeOK

(* The gauge a viewer reads counts the viewer. *)
LEMMA LoadClientsInv == ASSUME Inv, NEW v \in Viewers, LoadClients(v) PROVE Inv'
<1>1. /\ UNCHANGED <<requestVars, clock, base, lock, totalAt, permits, clients>>
      /\ viewer[v] = "total" /\ viewer' = [viewer EXCEPT ![v] = "clients"]
  BY DEF LoadClients
<1>2. /\ Counts' /\ RequestTypes' /\ ViewerTypes'
      /\ UNCHANGED <<request, connections, total, sampled, PermitHolders>>
  BY <1>1, SnapshotFrame DEF InLoop, Snapping
<1>3. clients \in 1 .. MaxClients
  <2>1. v \in Looping
    BY <1>1 DEF Looping, InLoop, Snapping
  <2>2. Cardinality(Looping) # 0
    BY <2>1, CountedFinite, FS_EmptySet DEF Finite
  <2> QED
    BY <2>2, CountedFinite, Numbers DEF Inv, Counts, TypeOK
<1>4. \A u \in Viewers :
          local'[u] = IF u = v THEN [local[u] EXCEPT !.clients = clients] ELSE local[u]
  BY DEF LoadClients, Inv, TypeOK
<1>5. \A u \in Viewers : viewer'[u] = IF u = v THEN "clients" ELSE viewer[u]
  BY <1>1 DEF Inv, TypeOK
<1>6. \A u \in Viewers :
          local[u] \in [now : 0 .. clock, total : 0 .. total, clients : 0 .. MaxClients]
  BY DEF Inv, TypeOK
<1>7. local' \in [Viewers -> [now : 0 .. clock', total : 0 .. total', clients : 0 .. MaxClients]]
  <2>1. \A u \in Viewers :
            local'[u] \in [now : 0 .. clock', total : 0 .. total', clients : 0 .. MaxClients]
    <3>1. clients \in 0 .. MaxClients
      BY DEF Inv, TypeOK
    <3> QED
      BY <1>1, <1>2, <1>4, <1>6, <3>1
  <2> QED
    BY <2>1 DEF LoadClients, Inv, TypeOK
<1>8. SnapshotCountsViewer'
  BY <1>3, <1>4, <1>5, <1>6 DEF Inv, SnapshotCountsViewer
<1>9. TotalAfterTime'
  BY <1>1, <1>4, <1>5, <1>6 DEF Inv, TotalAfterTime
<1>10. Views'
  BY <1>1, <1>2, <1>7, <1>8, <1>9 DEF Views, Inv, TypeOK
<1> QED
  BY <1>1, <1>2, <1>10, Assemble, Numbers DEF Inv, TypeOK

LEMMA LockInv == ASSUME Inv, NEW v \in Viewers, Lock(v) PROVE Inv'
<1>1. /\ UNCHANGED <<requestVars, clock, base, local, totalAt, permits, clients>>
      /\ viewer[v] = "clients" /\ viewer' = [viewer EXCEPT ![v] = "locked"]
      /\ lock' = v
  BY DEF Lock
<1>2. /\ Counts' /\ RequestTypes' /\ ViewerTypes'
      /\ UNCHANGED <<request, connections, total, sampled, PermitHolders>>
  BY <1>1, SnapshotFrame DEF InLoop, Snapping
<1>3. \A u \in Viewers : viewer'[u] = IF u = v THEN "locked" ELSE viewer[u]
  BY <1>1 DEF Inv, TypeOK
<1>4. SnapshotCountsViewer' /\ TotalAfterTime'
  BY <1>1, <1>3 DEF Inv, SnapshotCountsViewer, TotalAfterTime
<1>5. Views'
  BY <1>1, <1>2, <1>4 DEF Views, Inv, TypeOK
<1> QED
  BY <1>1, <1>2, <1>5, Assemble, Numbers DEF Inv, TypeOK

LEMMA ReportInv == ASSUME Inv, NEW v \in Viewers, Report(v) PROVE Inv'
<1>1. /\ UNCHANGED <<requestVars, clock, totalAt, permits, clients>>
      /\ viewer[v] = "locked" /\ viewer' = [viewer EXCEPT ![v] = "waiting"]
      /\ base' = [time |-> local[v].now, requests |-> local[v].total]
      /\ lock' = NoOne /\ local' = [local EXCEPT ![v] = NothingRead]
  BY DEF Report
<1>2. /\ Counts' /\ RequestTypes' /\ ViewerTypes'
      /\ UNCHANGED <<request, connections, total, sampled, PermitHolders>>
  BY <1>1, SnapshotFrame DEF InLoop, Snapping
<1>3. \A u \in Viewers : viewer'[u] = IF u = v THEN "waiting" ELSE viewer[u]
  BY <1>1 DEF Inv, TypeOK
<1>4. /\ \A u \in Viewers : u # v => local'[u] = local[u]
      /\ local' \in [Viewers -> [now : 0 .. clock', total : 0 .. total', clients : 0 .. MaxClients]]
  BY <1>1, <1>2, Numbers DEF Inv, TypeOK, NothingRead
<1>5. base' \in [time : 0 .. clock', requests : 0 .. total']
  BY <1>1, <1>2 DEF Inv, TypeOK
<1>6. SnapshotCountsViewer' /\ TotalAfterTime'
  BY <1>1, <1>3, <1>4 DEF Inv, SnapshotCountsViewer, TotalAfterTime
<1>7. Views'
  BY <1>1, <1>2, <1>4, <1>5, <1>6 DEF Views, Inv, TypeOK
<1> QED
  BY <1>1, <1>2, <1>7, Assemble, Numbers DEF Inv, TypeOK

----------------------------------------------------------------------------
LEMMA NextInv == Inv /\ [Next]_vars => Inv'
<1> SUFFICES ASSUME Inv, [Next]_vars PROVE Inv'
  OBVIOUS
<1>1. ASSUME NEW r \in Requests, Request(r) PROVE Inv'
  BY <1>1, EnterInv, CountRequestInv, SampleRequestInv, LeaveInv DEF Request
<1>2. ASSUME NEW v \in Viewers, UpgradeFails(v) \/ DropPermit(v) PROVE Inv'
  BY <1>2, PermitBack DEF UpgradeFails, DropPermit
<1>3. ASSUME NEW v \in Viewers, Admit(v) \/ Upgrade(v) \/ EndLoop(v) PROVE Inv'
  BY <1>3, AdmitInv, UpgradeInv, EndLoopInv
<1>4. ASSUME NEW v \in Viewers, Snapshot(v) PROVE Inv'
  BY <1>4, ReadNowInv, LoadTotalInv, LoadClientsInv, LockInv, ReportInv DEF Snapshot
<1>5. CASE UNCHANGED vars
  BY <1>5 DEF vars, requestVars, snapVars, Inv, TypeOK, Counts, SnapshotCountsViewer,
     TotalAfterTime, Routed, Counted, Looping, PermitHolders
<1> QED
  BY <1>1, <1>2, <1>3, <1>4, <1>5 DEF Next, Viewer

LEMMA Invariant == Spec => []Inv
BY InitInv, NextInv, PTL DEF Spec

(* Every variable keeps its type; no gauge exceeds what it counts. *)
THEOREM TypeCorrect == Spec => []TypeOK
<1>1. Inv => TypeOK
  BY DEF Inv
<1> QED
  BY <1>1, Invariant, PTL

(* The gauges and the two totals of Metrics are what they count, between   *)
(* any two steps of any number of requests and sessions.                   *)
THEOREM CountersStayExact == Spec => []CountersExact
<1>1. Inv => CountersExact
  BY DEF Inv, Counts, CountersExact, Routed, Counted, Looping
<1> QED
  BY <1>1, Invariant, PTL

(* A snapshot counts the viewer it is sent to, and never more than the cap *)
(* of the feed.                                                            *)
THEOREM SnapshotsCountViewers == Spec => []SnapshotCountsViewer
<1>1. Inv => SnapshotCountsViewer
  BY DEF Inv
<1> QED
  BY <1>1, Invariant, PTL

(* The requests a snapshot divides by the time since the base were         *)
(* recorded after the base's instant and before its load of the total,     *)
(* however many snapshots overlap. Those recorded between its clock        *)
(* reading and that load are among them.                                   *)
THEOREM RatesCountSinceBase == Spec => []RateCountsSinceBase
<1>1. ASSUME Inv, NEW v \in Viewers, Shown(v) > 0
      PROVE  Shown(v) <= local[v].total - totalAt[base.time]
  <2>1. /\ totalAt[base.time] \in Int /\ base.requests \in Int /\ local[v].total \in Int
        /\ totalAt[base.time] <= base.requests
    BY <1>1, Numbers DEF Inv, TypeOK, TotalAfterTime
  <2>2. Shown(v) = local[v].total - base.requests
    BY <1>1, <2>1 DEF Shown, Delta, Minus
  <2> QED
    BY <2>1, <2>2
<1>2. Inv => RateCountsSinceBase
  BY <1>1 DEF RateCountsSinceBase
<1> QED
  BY <1>2, Invariant, PTL

----------------------------------------------------------------------------
(* A step of the feed is a step of the pool or leaves its holders alone. *)
LEMMA PoolStep == Inv /\ [Next]_vars => [Pool!Next]_PermitHolders
<1> SUFFICES ASSUME Inv, [Next]_vars PROVE Pool!Next \/ UNCHANGED PermitHolders
  BY DEF Pool!Next
<1>1. ASSUME NEW r \in Requests, Request(r) PROVE UNCHANGED PermitHolders
  BY <1>1 DEF Request, Enter, CountRequest, SampleRequest, Leave, PermitHolders
<1>2. ASSUME NEW v \in Viewers, UpgradeFails(v) \/ DropPermit(v)
      PROVE  v \in PermitHolders /\ PermitHolders' = PermitHolders \ {v}
  BY <1>2, PermitBack DEF UpgradeFails, DropPermit
<1>3. ASSUME NEW v \in Viewers, Admit(v)
      PROVE  /\ v \notin PermitHolders /\ PermitHolders' = PermitHolders \cup {v}
             /\ Cardinality(PermitHolders) < MaxClients
  <2>1. viewer[v] = "away" /\ viewer' = [viewer EXCEPT ![v] = "upgrading"] /\ permits # 0
    BY <1>3 DEF Admit, Answer
  <2>2. v \notin PermitHolders /\ PermitHolders' = PermitHolders \cup {v}
    BY <2>1 DEF Inv, TypeOK, PermitHolders, Admitted, InLoop, Snapping
  <2> QED
    BY <2>1, <2>2, Numbers, CountedFinite DEF Inv, Counts, Finite
<1>4. ASSUME NEW v \in Viewers, Upgrade(v) \/ EndLoop(v) \/ Snapshot(v)
      PROVE  UNCHANGED PermitHolders
  <2>1. PICK s \in Admitted : viewer[v] \in Admitted /\ viewer' = [viewer EXCEPT ![v] = s]
    BY <1>4 DEF Upgrade, EndLoop, Snapshot, ReadNow, LoadTotal, LoadClients, Lock, Report,
       Admitted, InLoop, Snapping
  <2> QED
    BY <2>1 DEF PermitHolders, Inv, TypeOK
<1>5. CASE UNCHANGED vars
  BY <1>5 DEF vars, PermitHolders
<1> QED
  BY <1>1, <1>2, <1>3, <1>4, <1>5
  DEF Next, Viewer, Pool!Next, Pool!Acquire, Pool!Release, Pool!Cardinality, Cardinality

(* The feed's semaphore is the bounded pool of SlotPool, with WS_CLIENTS's *)
(* capacity, for any cap and any number of clients.                        *)
THEOREM FeedRefinesPool == Spec => ImplementsPool
<1>1. Init => Pool!Init
  BY DEF Init, Pool!Init, PermitHolders, Admitted, InLoop, Snapping
<1> HIDE DEF PermitHolders
<1> QED
  BY <1>1, Invariant, PoolStep, PTL DEF Spec, ImplementsPool, Pool!Spec
==============================================================================
