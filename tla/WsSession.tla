------------------------------ MODULE WsSession ------------------------------
(***************************************************************************)
(* One session of the metrics feed: websocket_loop, the peer at the other  *)
(* end of its socket, and time. A tick is the broadcast interval.          *)
(*                                                                         *)
(* The loop is one task: while it awaits a send, none of its timers and    *)
(* nothing the peer sent is looked at. A send completes as soon as the     *)
(* socket's buffers have room, which a peer makes by reading.              *)
(***************************************************************************)
EXTENDS Integers, Sequences

CONSTANTS PingInterval,  \* WS_PING_INTERVAL
          PongDeadline,  \* WS_PONG_DEADLINE
          SendTimeout,   \* WS_SEND_TIMEOUT
          Room,          \* messages the socket's buffers hold for a peer that does not read
          PeerLag,       \* ticks a peer that keeps up may leave messages unread
          PeerPings,     \* bound: Pings of its own the peer sends
          MaxSilence,    \* bound: silence is not told apart beyond it
          MaxOverdue,    \* bound: nor are intervals that are overdue by more
          MaxUnread      \* bound: a slow peer answers while fewer of its messages wait

ASSUME SessionAssumption ==
    /\ {PingInterval, PongDeadline, SendTimeout, Room} \subseteq Nat \ {0}
    /\ {PeerLag, PeerPings, MaxSilence, MaxOverdue, MaxUnread} \subseteq Nat
    /\ PeerLag < SendTimeout
    /\ SendTimeout < PingInterval

(* How late the loop can be for its own timers, if its peer keeps up: each *)
(* of the sends that wait in the way of the next one takes PeerLag at most.*)
PeerDelay == PeerLag * (IF PeerPings = 0 THEN 1 ELSE PeerPings)

(* An attentive peer keeps up with a loop that has a message a tick for    *)
(* it: the buffers hold what it leaves unread, and the delays on the way   *)
(* of a Ping and of its Pong fit between two Pings, 30 ticks apart.        *)
ASSUME AttentiveAssumption ==
    /\ PeerLag < Room
    /\ 2 * PeerDelay + 3 * PeerLag < PingInterval
    /\ PingInterval + PeerDelay < PongDeadline

(* The bounds leave alone what is said of a peer that keeps up. *)
ASSUME BoundAssumption ==
    /\ PeerDelay < MaxOverdue
    /\ MaxSilence <= PongDeadline + PingInterval + MaxOverdue

VARIABLES
    pc,         \* what websocket_loop awaits: the select!, or a send
    out,        \* messages sent and not read by the peer, oldest first
    in,         \* messages of the peer the loop has not taken
    peer,       \* how the peer behaves
    pings,      \* Pings of its own it may still send
    broadcast,  \* ticks until the broadcast interval fires; overdue if negative
    ping,       \* ticks until the ping interval fires
    silence,    \* last_pong.elapsed()
    waited,     \* how long the current send has been pending, 0 if there is none
    lag,        \* for how long the peer has left messages unread
    slowed      \* history: the peer has read something in a time of its own

vars == <<pc, out, in, peer, pings, broadcast, ping, silence, waited, lag, slowed>>
timers == <<broadcast, ping, silence, waited, lag, slowed>>

Sends == {"text", "ping", "pong"}

(***************************************************************************)
(* A peer is attentive (it reads within PeerLag, and answers), or mute (it *)
(* reads within PeerLag, and answers no Ping), slow (it reads when it      *)
(* likes, or never, and may or may not answer), stalled (it does not read, *)
(* its TCP stack acknowledging all the while), leaving (it has sent a      *)
(* Close or something unreadable, and may go on reading), or gone (the     *)
(* connection is reset).                                                   *)
(***************************************************************************)
Reads == {"attentive", "mute"}

----------------------------------------------------------------------------
(* The ping interval's immediate first tick is skipped, the broadcast's is *)
(* not.                                                                    *)
Init ==
    /\ pc = "select"
    /\ out = <<>> /\ in = <<>>
    /\ peer = "attentive" /\ pings = PeerPings
    /\ broadcast = 0
    /\ ping = PingInterval
    /\ silence = 0 /\ waited = 0 /\ lag = 0
    /\ slowed = FALSE

(* The branches of the select!: any that is ready may be taken. A missed   *)
(* tick is made up for at once (tokio's Burst): the next one is due one    *)
(* interval after the last one was due.                                    *)
Broadcast ==
    /\ pc = "select"
    /\ broadcast <= 0
    /\ broadcast' = broadcast + 1
    /\ pc' = "text"
    /\ UNCHANGED <<out, in, peer, pings, ping, silence, waited, lag, slowed>>

(* Faulty: the deadline is not looked at. *)
PingTickUnchecked ==
    /\ pc = "select"
    /\ ping <= 0
    /\ ping' = ping + PingInterval
    /\ pc' = "ping"
    /\ UNCHANGED <<out, in, peer, pings, broadcast, silence, waited, lag, slowed>>

(* last_pong.elapsed() > WS_PONG_DEADLINE. Elapsed time is known to the    *)
(* tick: at the deadline itself the comparison may go either way.          *)
PingTick ==
    /\ pc = "select"
    /\ ping <= 0
    /\ ping' = ping + PingInterval
    /\ \/ silence <= PongDeadline /\ pc' = "ping"
       \/ silence >= PongDeadline /\ pc' = "ended"
    /\ UNCHANGED <<out, in, peer, pings, broadcast, silence, waited, lag, slowed>>

(* Faulty: a Pong does not restart the deadline. *)
ReceiveNotNoting ==
    /\ pc = "select"
    /\ in # <<>>
    /\ in' = Tail(in)
    /\ pc' = CASE Head(in) = "ping"  -> "pong"
               [] Head(in) = "pong"  -> "select"
               [] Head(in) = "close" -> "ended"
    /\ UNCHANGED <<out, peer, pings, broadcast, ping, silence, waited, lag, slowed>>

Receive ==
    /\ pc = "select"
    /\ in # <<>>
    /\ in' = Tail(in)
    /\ pc' = CASE Head(in) = "ping"  -> "pong"
               [] Head(in) = "pong"  -> "select"
               [] Head(in) = "close" -> "ended"
    /\ silence' = IF Head(in) = "pong" THEN 0 ELSE silence
    /\ UNCHANGED <<out, peer, pings, broadcast, ping, waited, lag, slowed>>

(* Faulty: messages are buffered without a limit. *)
SentUnbounded ==
    /\ pc \in Sends
    /\ Len(out) <= Room
    /\ out' = Append(out, pc)
    /\ pc' = "select"
    /\ waited' = 0
    /\ UNCHANGED <<in, peer, pings, broadcast, ping, silence, lag, slowed>>

(* The send the loop awaits ends: there is room, *)
Sent ==
    /\ pc \in Sends
    /\ Len(out) < Room
    /\ out' = Append(out, pc)
    /\ pc' = "select"
    /\ waited' = 0
    /\ UNCHANGED <<in, peer, pings, broadcast, ping, silence, lag, slowed>>

(* Faulty: only the Ping is sent with a timeout. *)
SendTimesOutOnPing ==
    /\ pc = "ping"
    /\ Len(out) = Room
    /\ waited >= SendTimeout
    /\ pc' = "ended"
    /\ waited' = 0
    /\ UNCHANGED <<out, in, peer, pings, broadcast, ping, silence, lag, slowed>>

(* or WS_SEND_TIMEOUT elapses, on a broadcast or a Ping. The answer to a   *)
(* Ping is sent without a timeout.                                         *)
SendTimesOut ==
    /\ pc \in Sends \ {"pong"}
    /\ Len(out) = Room
    /\ waited >= SendTimeout
    /\ pc' = "ended"
    /\ waited' = 0
    /\ UNCHANGED <<out, in, peer, pings, broadcast, ping, silence, lag, slowed>>

(* The connection is reset: rx.next() and every send return an error. *)
Reset ==
    /\ pc \in Sends \cup {"select"}
    /\ peer = "gone"
    /\ pc' = "ended"
    /\ waited' = 0
    /\ UNCHANGED <<out, in, peer, pings, broadcast, ping, silence, lag, slowed>>

----------------------------------------------------------------------------
(* The peer. An attentive one answers a Ping as it reads it. *)
Answers ==
    /\ Head(out) = "ping"
    /\ \/ peer = "attentive"
       \/ peer = "slow" /\ Len(in) < MaxUnread
    /\ in' = Append(in, "pong")

KeepsQuiet ==
    /\ Head(out) = "ping" => peer # "attentive"
    /\ in' = in

PeerReads ==
    /\ pc # "ended"
    /\ peer \in Reads \cup {"slow", "leaving"}
    /\ out # <<>>
    /\ out' = Tail(out)
    /\ Answers \/ KeepsQuiet
    /\ lag' = IF Len(out) = 1 THEN 0 ELSE lag
    /\ slowed' = (slowed \/ peer \notin Reads)
    /\ UNCHANGED <<pc, peer, pings, broadcast, ping, silence, waited>>

PeerSendsPing ==
    /\ pc # "ended"
    /\ peer \in Reads \cup {"slow", "stalled"}
    /\ pings > 0
    /\ pings' = pings - 1
    /\ in' = Append(in, "ping")
    /\ UNCHANGED <<pc, out, peer, timers>>

PeerCloses ==
    /\ pc # "ended"
    /\ peer \in Reads \cup {"slow", "stalled"}
    /\ peer' = "leaving"
    /\ in' = Append(in, "close")
    /\ UNCHANGED <<pings, pc, out, timers>>

PeerChanges ==
    /\ pc # "ended"
    /\ \/ peer = "attentive" /\ peer' = "mute"
       \/ peer \in Reads \cup {"slow"} /\ peer' = "stalled"
       \/ peer \in Reads \cup {"stalled"} /\ peer' = "slow"
       \/ peer # "gone" /\ peer' = "gone"
    /\ UNCHANGED <<pings, pc, out, in, timers>>

----------------------------------------------------------------------------
(* Time passes when the loop can only wait: nothing is ready in the        *)
(* select!, or the send it awaits can neither complete nor time out. A     *)
(* peer that keeps up reads within PeerLag; any other is under no such     *)
(* obligation.                                                             *)
Waiting ==
    /\ peer # "gone"
    /\ \/ pc = "select" /\ broadcast > 0 /\ ping > 0 /\ in = <<>>
       \/ pc \in Sends /\ Len(out) = Room
          /\ (pc = "pong" \/ waited < SendTimeout)

Tick ==
    /\ Waiting
    /\ peer \in Reads => lag < PeerLag \/ out = <<>>
    /\ broadcast' = IF broadcast > -MaxOverdue THEN broadcast - 1 ELSE broadcast
    /\ ping' = IF ping > -MaxOverdue THEN ping - 1 ELSE ping
    /\ silence' = IF silence < MaxSilence THEN silence + 1 ELSE silence
    /\ waited' = IF pc \in Sends /\ waited < SendTimeout THEN waited + 1 ELSE waited
    /\ lag' = IF out = <<>> \/ peer \notin Reads THEN 0 ELSE lag + 1
    /\ UNCHANGED <<pc, out, in, peer, pings, slowed>>

Loop == Broadcast \/ PingTick \/ Receive \/ Sent \/ SendTimesOut \/ Reset

Peer == PeerReads \/ PeerSendsPing \/ PeerCloses \/ PeerChanges

Next == Loop \/ Peer \/ Tick

Spec == Init /\ [][Next]_vars

(* tokio polls a task that is ready, and time passes. The select! starts   *)
(* with a branch taken at random, so that none is passed over for ever     *)
(* while it is ready again and again. Of the peer, nothing is assumed but  *)
(* that one that keeps up goes on reading, as Tick wants of it.            *)
FairSpec ==
    /\ Spec
    /\ WF_vars(Loop) /\ WF_vars(Tick)
    /\ SF_vars(PingTick) /\ SF_vars(Receive)
    /\ WF_vars(peer \in Reads /\ PeerReads)

----------------------------------------------------------------------------
TypeOK ==
    /\ pc \in Sends \cup {"select", "ended"}
    /\ out \in Seq(Sends) /\ Len(out) <= Room
    /\ in \in Seq({"ping", "pong", "close"})
    /\ peer \in Reads \cup {"slow", "stalled", "leaving", "gone"}
    /\ pings \in 0 .. PeerPings
    /\ broadcast \in -MaxOverdue .. 1
    /\ ping \in -MaxOverdue .. PingInterval
    /\ silence \in 0 .. MaxSilence
    /\ waited \in 0 .. SendTimeout
    /\ lag \in 0 .. PeerLag
    /\ slowed \in BOOLEAN

(* A session is never dropped by the server while its peer is attentive:   *)
(* neither the deadline nor a send timeout can hit a peer that reads and   *)
(* answers within PeerLag, however the branches of the select! are taken   *)
(* (AttentiveAssumption).                                                  *)
AttentiveIsKept == pc = "ended" => peer # "attentive"

(* A peer that keeps up until it stops reading altogether is noticed in    *)
(* time once it no longer answers: its session outlives its last Pong by   *)
(* no more than the deadline, one ping interval and the sends that may     *)
(* delay the check, save by waiting to send a Pong. A peer that reads on,  *)
(* later than PeerLag, can delay the check for longer: every broadcast     *)
(* that fell due meanwhile may be sent before the ping interval is looked  *)
(* at, and each may take up to the send timeout.                           *)
SilenceBounded ==
    ~slowed /\ pc \in {"select", "text", "ping"} =>
        silence <= PongDeadline + PingInterval + SendTimeout + PeerDelay

(* However slowly it reads, a peer that is silent beyond the deadline      *)
(* loses its session in the end, unless it answers after all or the loop   *)
(* is stuck in the one send that has no timeout, the answer to a Ping.     *)
SilentEnds ==
    [](silence > PongDeadline => <>(pc = "ended" \/ silence = 0 \/ [](pc = "pong")))

(* A peer that has stopped reading cannot hold the session: it ends, or is *)
(* stuck in the answer to a Ping, until the peer reads again.              *)
OnlyPongsWait ==
    (peer = "stalled")
        ~> (pc = "ended" \/ peer \in {"slow", "gone"} \/ (pc = "pong" /\ Len(out) = Room))

(* Every session ends, once its peer has stopped reading for good,         *)
(* whatever is under way at that moment. "so a blocked write can't wedge   *)
(* the task"                                                               *)
StalledEnds == (peer = "stalled") ~> (pc = "ended" \/ peer # "stalled")
=============================================================================
