----------------------------- MODULE MetricsFeed -----------------------------
(***************************************************************************)
(* The HTTP side's shared counters (Metrics), the requests that move them, *)
(* and the viewers of the metrics feed that are admitted under a cap and   *)
(* take snapshots of them.                                                 *)
(*                                                                         *)
(* Requests and viewers are tasks on several threads. Each atomic          *)
(* operation, and each acquisition of a lock, is a step of its own; what   *)
(* is done under the lock of last_snapshot_time is one step as far as      *)
(* nothing else can see a part of it.                                      *)
(***************************************************************************)
EXTENDS Integers, FiniteSets

CONSTANTS Requests,     \* request tasks, reused
          Viewers,      \* clients of /__metrics__/ws
          MaxClients,   \* WS_MAX_CLIENTS
          MaxTotal,     \* bound: requests recorded
          MaxInstant,   \* bound: readings of the clock
          NoOne         \* nobody holds the lock

ASSUME FeedAssumption ==
    /\ IsFiniteSet(Requests) /\ IsFiniteSet(Viewers)
    /\ MaxClients \in Nat \ {0}
    /\ MaxTotal \in Nat /\ MaxInstant \in Nat
    /\ NoOne \notin Viewers

VARIABLES
    request,      \* where each request is in route
    viewer,       \* where each viewer's task is
    permits,      \* available permits of WS_CLIENTS
    connections,  \* current_connections
    clients,      \* websocket_clients
    total,        \* total_requests
    sampled,      \* samples added to the latency histogram
    clock,        \* Instant::now(): no two readings are equal
    base,         \* last_snapshot_time and last_snapshot_requests
    lock,         \* the holder of last_snapshot_time's lock, if any
    local,        \* what each viewer's snapshot has read so far
    totalAt       \* history: total at each reading of the clock

requestVars == <<request, connections, total, sampled>>
snapVars    == <<clock, base, lock, local, totalAt>>
vars == <<requestVars, snapVars, viewer, permits, clients>>

(* A viewer's task: there is none (away), it is upgrading (it has its      *)
(* permit, and awaits the upgrade), in the loop (waiting, or in the middle *)
(* of a snapshot), or on its way out, the gauge decremented and the permit *)
(* not yet dropped.                                                        *)
Snapping == {"now", "total", "clients", "locked"}
InLoop   == Snapping \cup {"waiting"}
Admitted == InLoop \cup {"upgrading", "leaving"}

NothingRead == [now |-> 0, total |-> 0, clients |-> 0]

PermitHolders == {v \in Viewers : viewer[v] \in Admitted}

----------------------------------------------------------------------------
(* Metrics::new takes the first last_snapshot_time: instant 0. *)
Init ==
    /\ request = [r \in Requests |-> "idle"]
    /\ viewer = [v \in Viewers |-> "away"]
    /\ permits = MaxClients
    /\ connections = 0 /\ clients = 0 /\ total = 0 /\ sampled = 0
    /\ clock = 0
    /\ base = [time |-> 0, requests |-> 0]
    /\ lock = NoOne
    /\ local = [v \in Viewers |-> NothingRead]
    /\ totalAt = [i \in {0} |-> 0]

(* route: increment_connections, the lookup, *)
Enter(r) ==
    /\ request[r] = "idle"
    /\ request' = [request EXCEPT ![r] = "routing"]
    /\ connections' = connections + 1
    /\ UNCHANGED <<total, sampled, snapVars, viewer, permits, clients>>

(* record_request: the counter, *)
CountRequest(r) ==
    /\ request[r] = "routing"
    /\ total < MaxTotal
    /\ request' = [request EXCEPT ![r] = "counted"]
    /\ total' = total + 1
    /\ UNCHANGED <<connections, sampled, snapVars, viewer, permits, clients>>

(* then the sample, under the histogram's own lock, *)
SampleRequest(r) ==
    /\ request[r] = "counted"
    /\ request' = [request EXCEPT ![r] = "sampled"]
    /\ sampled' = sampled + 1
    /\ UNCHANGED <<connections, total, snapVars, viewer, permits, clients>>

(* decrement_connections. *)
Leave(r) ==
    /\ request[r] = "sampled"
    /\ request' = [request EXCEPT ![r] = "idle"]
    /\ connections' = connections - 1
    /\ UNCHANGED <<total, sampled, snapVars, viewer, permits, clients>>

----------------------------------------------------------------------------
(* What handle_websocket looks at: Connection and Upgrade, the version,    *)
(* and the bytes that Sec-WebSocket-Key stands for.                        *)
Handshakes == [upgrade : BOOLEAN, version : {13, 8}, key : {16, 15}]

(* compute_accept_key: 24 characters of base64 that decode to 16 bytes. *)
ValidKey(h) == h.key = 16

(* Faulty: the cap is not looked at. *)
AnswerUncapped(h) == IF ValidKey(h) THEN 101 ELSE 400

(* Its answer, in the order of its checks. *)
Answer(h) ==
    IF ~h.upgrade \/ h.version # 13 \/ ~ValidKey(h) THEN 400
    ELSE IF permits = 0 THEN 503 ELSE 101

(* On 101 the permit is taken and the upgrade awaited in a task; any other *)
(* answer changes nothing.                                                 *)
Admit(v) ==
    /\ viewer[v] = "away"
    /\ 101 \in {Answer(h) : h \in Handshakes}
    /\ permits' = permits - 1
    /\ viewer' = [viewer EXCEPT ![v] = "upgrading"]
    /\ UNCHANGED <<requestVars, snapVars, clients>>

(* Faulty: the gauge is not incremented. *)
UpgradeUncounted(v) ==
    /\ viewer[v] = "upgrading"
    /\ viewer' = [viewer EXCEPT ![v] = "waiting"]
    /\ UNCHANGED <<requestVars, snapVars, permits, clients>>

(* upgrade::on resolves; websocket_loop starts with the gauge. *)
Upgrade(v) ==
    /\ viewer[v] = "upgrading"
    /\ clients' = clients + 1
    /\ viewer' = [viewer EXCEPT ![v] = "waiting"]
    /\ UNCHANGED <<requestVars, snapVars, permits>>

(* Faulty: a session that never began is counted out of the gauge. *)
UpgradeFailsCounted(v) ==
    /\ viewer[v] = "upgrading"
    /\ viewer' = [viewer EXCEPT ![v] = "away"]
    /\ permits' = permits + 1
    /\ clients' = clients - 1
    /\ UNCHANGED <<requestVars, snapVars>>

UpgradeFails(v) ==
    /\ viewer[v] = "upgrading"
    /\ viewer' = [viewer EXCEPT ![v] = "away"]
    /\ permits' = permits + 1
    /\ UNCHANGED <<requestVars, snapVars, clients>>

(* Faulty: an error returns from the loop past the decrement. *)
EndLoopUncounted(v) ==
    /\ viewer[v] = "waiting"
    /\ viewer' = [viewer EXCEPT ![v] = "leaving"]
    /\ UNCHANGED <<requestVars, snapVars, permits, clients>>

(* websocket_loop breaks, *)
EndLoop(v) ==
    /\ viewer[v] = "waiting"
    /\ clients' = clients - 1
    /\ viewer' = [viewer EXCEPT ![v] = "leaving"]
    /\ UNCHANGED <<requestVars, snapVars, permits>>

(* and its task drops the permit. *)
DropPermit(v) ==
    /\ viewer[v] = "leaving"
    /\ permits' = permits + 1
    /\ viewer' = [viewer EXCEPT ![v] = "away"]
    /\ UNCHANGED <<requestVars, snapVars, clients>>

----------------------------------------------------------------------------
(* snapshot, on every tick of the broadcast interval. The three readings   *)
(* come before the lock.                                                   *)
ReadNow(v) ==
    /\ viewer[v] = "waiting"
    /\ clock < MaxInstant
    /\ clock' = clock + 1
    /\ totalAt' = [i \in 0 .. clock + 1 |->
                      IF i = clock + 1 THEN total ELSE totalAt[i]]
    /\ local' = [local EXCEPT ![v].now = clock + 1]
    /\ viewer' = [viewer EXCEPT ![v] = "now"]
    /\ UNCHANGED <<requestVars, base, lock, permits, clients>>

LoadTotal(v) ==
    /\ viewer[v] = "now"
    /\ local' = [local EXCEPT ![v].total = total]
    /\ viewer' = [viewer EXCEPT ![v] = "total"]
    /\ UNCHANGED <<requestVars, clock, base, lock, totalAt, permits, clients>>

LoadClients(v) ==
    /\ viewer[v] = "total"
    /\ local' = [local EXCEPT ![v].clients = clients]
    /\ viewer' = [viewer EXCEPT ![v] = "clients"]
    /\ UNCHANGED <<requestVars, clock, base, lock, totalAt, permits, clients>>

(* last_snapshot_time.write() *)
Lock(v) ==
    /\ viewer[v] = "clients"
    /\ lock = NoOne
    /\ lock' = v
    /\ viewer' = [viewer EXCEPT ![v] = "locked"]
    /\ UNCHANGED <<requestVars, clock, base, local, totalAt, permits, clients>>

(* What the lock protects: both differences (duration_since and            *)
(* saturating_sub give 0 rather than a negative one), the new base, and,   *)
(* with the lock still held, the percentiles. The snapshot is sent.        *)
Minus(a, b) == IF a > b THEN a - b ELSE 0
Elapsed(v) == Minus(local[v].now, base.time)
Delta(v)   == Minus(local[v].total, base.requests)
Shown(v)   == IF Elapsed(v) > 0 THEN Delta(v) ELSE 0

(* Faulty: the base's time is read again at the end, after its count. *)
ReportWithLateTime(v) ==
    /\ viewer[v] = "locked"
    /\ base' = [time |-> clock, requests |-> local[v].total]
    /\ lock' = NoOne
    /\ local' = [local EXCEPT ![v] = NothingRead]
    /\ viewer' = [viewer EXCEPT ![v] = "waiting"]
    /\ UNCHANGED <<requestVars, clock, totalAt, permits, clients>>

Report(v) ==
    /\ viewer[v] = "locked"
    /\ base' = [time |-> local[v].now, requests |-> local[v].total]
    /\ lock' = NoOne
    /\ local' = [local EXCEPT ![v] = NothingRead]
    /\ viewer' = [viewer EXCEPT ![v] = "waiting"]
    /\ UNCHANGED <<requestVars, clock, totalAt, permits, clients>>

----------------------------------------------------------------------------
Request(r) == Enter(r) \/ CountRequest(r) \/ SampleRequest(r) \/ Leave(r)

Snapshot(v) ==
    ReadNow(v) \/ LoadTotal(v) \/ LoadClients(v) \/ Lock(v) \/ Report(v)

Viewer(v) ==
    \/ Admit(v) \/ Upgrade(v) \/ UpgradeFails(v) \/ EndLoop(v) \/ DropPermit(v)
    \/ Snapshot(v)

Next == (\E r \in Requests : Request(r)) \/ (\E v \in Viewers : Viewer(v))

Spec == Init /\ [][Next]_vars

----------------------------------------------------------------------------
TypeOK ==
    /\ request \in [Requests -> {"idle", "routing", "counted", "sampled"}]
    /\ viewer \in [Viewers -> Admitted \cup {"away"}]
    /\ permits \in 0 .. MaxClients
    /\ connections \in 0 .. Cardinality(Requests)
    /\ clients \in 0 .. MaxClients
    /\ total \in 0 .. MaxTotal /\ sampled \in 0 .. MaxTotal
    /\ clock \in 0 .. MaxInstant
    /\ base \in [time : 0 .. clock, requests : 0 .. total]
    /\ lock \in Viewers \cup {NoOne}
    /\ local \in [Viewers -> [now : 0 .. clock, total : 0 .. total,
                              clients : 0 .. MaxClients]]
    /\ totalAt \in [0 .. clock -> 0 .. total]

(* Every counter is what it counts, between any two steps: the gauges, on  *)
(* every path out of a request or a session, and the histogram, behind the *)
(* total by the requests that have counted themselves and not yet added    *)
(* their sample.                                                           *)
CountersExact ==
    /\ connections = Cardinality({r \in Requests : request[r] # "idle"})
    /\ clients = Cardinality({v \in Viewers : viewer[v] \in InLoop})
    /\ total - sampled = Cardinality({r \in Requests : request[r] = "counted"})

(* Whoever is shown a snapshot is counted in it, and the count never       *)
(* exceeds the cap, though the gauge is read before the lock and moved by  *)
(* others all the time: the gauge follows the permit up and precedes it    *)
(* down.                                                                   *)
SnapshotCountsViewer ==
    \A v \in Viewers :
        viewer[v] \in {"clients", "locked"} => local[v].clients \in 1 .. MaxClients

(* However snapshots overlap, a rate counts no request from before the     *)
(* time it divides by: the requests were recorded after the base's instant *)
(* and before the snapshot's own load of the total (the two halves of the  *)
(* base come from one snapshot, its clock read before its count). They are *)
(* not all from within that time: what is recorded between the reading of  *)
(* the clock and the load is counted, so a rate can overstate by that.     *)
RateCountsSinceBase ==
    \A v \in Viewers :
        viewer[v] = "locked" /\ Shown(v) > 0 =>
            Shown(v) <= local[v].total - totalAt[base.time]

(* The semaphore of the feed is a bounded pool. *)
Pool == INSTANCE SlotPool WITH
    Clients <- Viewers, Capacity <- MaxClients, holders <- PermitHolders
ImplementsPool == Pool!Spec

(* "Calculate requests per second since last snapshot": a snapshot that    *)
(* finds requests recorded since the last one shows a rate above zero.     *)
NewRequestsShow ==
    \A v \in Viewers : viewer[v] = "locked" /\ Delta(v) > 0 => Shown(v) > 0
=============================================================================
