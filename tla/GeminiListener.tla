--------------------------- MODULE GeminiListener ---------------------------
(***************************************************************************)
(* The Gemini listener: the accept loop of start_gemini_server, which      *)
(* admits connections under two caps, and the tasks it spawns.             *)
(*                                                                         *)
(* The loop is one task. Every admitted connection is another, and tokio   *)
(* runs them on several threads: each try_acquire and each drop is a step  *)
(* of its own, and any other task may step between two of them.            *)
(***************************************************************************)
EXTENDS Naturals, FiniteSets

CONSTANTS Conns,          \* connection identities, reused once closed
          Ips,            \* peer addresses
          PeerIp,         \* the address each connection comes from
          Reading,        \* connections whose peer goes on reading, or hangs up
          MaxConcurrent,  \* GEMINI_MAX_CONCURRENT
          MaxPerIp        \* GEMINI_MAX_PER_IP

ASSUME ListenerAssumption ==
    /\ IsFiniteSet(Conns)
    /\ PeerIp \in [Conns -> Ips]
    /\ Reading \subseteq Conns
    /\ MaxConcurrent \in Nat \ {0}
    /\ MaxPerIp \in Nat \ {0}

VARIABLES
    pc,       \* where start_gemini_server is
    stage,    \* how far each connection has come
    permits,  \* available permits of the semaphore
    per_ip    \* the HashMap<IpAddr, usize>: a function on the addresses it holds

vars == <<pc, stage, permits, per_ip>>

(***************************************************************************)
(* What a connection holds is determined by its stage. PerIpGuard is       *)
(* dropped before the permit: locals are dropped in reverse order of their *)
(* declaration, and _ip_guard is declared after _permit.                   *)
(***************************************************************************)
InLoop    == {"accepted", "permitted"}
Guarded   == {"handshake", "request", "reply", "closed"}
Permitted == Guarded \cup {"permitted", "unguarded"}
Stages    == {"idle", "backlog"} \cup InLoop \cup Permitted

PermitHolders == {c \in Conns : stage[c] \in Permitted}
GuardHolders ==
    [ip \in Ips |-> {c \in Conns : stage[c] \in Guarded /\ PeerIp[c] = ip}]

----------------------------------------------------------------------------
Init ==
    /\ pc = "bind"
    /\ stage = [c \in Conns |-> "idle"]
    /\ permits = MaxConcurrent
    /\ per_ip = [ip \in {} |-> 0]

Bind ==
    /\ pc = "bind"
    /\ pc' = "accept"
    /\ UNCHANGED <<stage, permits, per_ip>>

(* bind(..).await? and accept().await? both end the function, and with it  *)
(* the task main spawned: the listener is dropped, the connections waiting *)
(* in its backlog are reset, the spawned tasks go on.                      *)
Stop ==
    /\ pc \in {"bind", "accept"}
    /\ pc' = "stopped"
    /\ stage' = [c \in Conns |->
                    IF stage[c] = "backlog" THEN "idle" ELSE stage[c]]
    /\ UNCHANGED <<permits, per_ip>>

(* A peer connects; the kernel queues the connection for accept. *)
Connect(c) ==
    /\ pc \notin {"bind", "stopped"}
    /\ stage[c] = "idle"
    /\ stage' = [stage EXCEPT ![c] = "backlog"]
    /\ UNCHANGED <<pc, permits, per_ip>>

Accept(c) ==
    /\ pc = "accept"
    /\ stage[c] = "backlog"
    /\ pc' = "permit"
    /\ stage' = [stage EXCEPT ![c] = "accepted"]
    /\ UNCHANGED <<permits, per_ip>>

(* try_acquire_owned succeeds. *)
TakePermit(c) ==
    /\ pc = "permit"
    /\ stage[c] = "accepted"
    /\ permits > 0
    /\ permits' = permits - 1
    /\ pc' = "guard"
    /\ stage' = [stage EXCEPT ![c] = "permitted"]
    /\ UNCHANGED per_ip

(* Faulty: the last permit is never handed out. *)
RefuseEarly(c) ==
    /\ pc = "permit" /\ stage[c] = "accepted"
    /\ permits <= 1
    /\ pc' = "accept"
    /\ stage' = [stage EXCEPT ![c] = "idle"]
    /\ UNCHANGED <<permits, per_ip>>

(* try_acquire_owned fails: the stream is dropped, the loop goes on. *)
RefuseAtCap(c) ==
    /\ pc = "permit"
    /\ stage[c] = "accepted"
    /\ permits = 0
    /\ pc' = "accept"
    /\ stage' = [stage EXCEPT ![c] = "idle"]
    /\ UNCHANGED <<permits, per_ip>>

(* t.entry(ip).or_insert(0) *)
Count(ip) == IF ip \in DOMAIN per_ip THEN per_ip[ip] ELSE 0
SetCount(ip, n) == [i \in DOMAIN per_ip \cup {ip} |->
                       IF i = ip THEN n ELSE per_ip[i]]

(* Faulty: the comparison with the cap is off by one. *)
TakeGuardOneMore(c) ==
    /\ pc = "guard" /\ stage[c] = "permitted"
    /\ Count(PeerIp[c]) <= MaxPerIp
    /\ per_ip' = SetCount(PeerIp[c], Count(PeerIp[c]) + 1)
    /\ pc' = "accept"
    /\ stage' = [stage EXCEPT ![c] = "handshake"]
    /\ UNCHANGED permits

(* PerIpGuard::try_acquire succeeds and the connection's task is spawned. *)
TakeGuard(c) ==
    /\ pc = "guard"
    /\ stage[c] = "permitted"
    /\ Count(PeerIp[c]) < MaxPerIp
    /\ per_ip' = SetCount(PeerIp[c], Count(PeerIp[c]) + 1)
    /\ pc' = "accept"
    /\ stage' = [stage EXCEPT ![c] = "handshake"]
    /\ UNCHANGED permits

(* Faulty: the permit is forgotten when the address is at its cap. *)
RefusePerIpLeaking(c) ==
    /\ pc = "guard" /\ stage[c] = "permitted"
    /\ Count(PeerIp[c]) >= MaxPerIp
    /\ pc' = "accept"
    /\ stage' = [stage EXCEPT ![c] = "idle"]
    /\ UNCHANGED <<permits, per_ip>>

(* PerIpGuard::try_acquire returns None, after its or_insert(0): the       *)
(* stream is dropped, and `continue` drops the permit.                     *)
RefusePerIp(c) ==
    /\ pc = "guard"
    /\ stage[c] = "permitted"
    /\ Count(PeerIp[c]) >= MaxPerIp
    /\ per_ip' = SetCount(PeerIp[c], Count(PeerIp[c]))
    /\ permits' = permits + 1
    /\ pc' = "accept"
    /\ stage' = [stage EXCEPT ![c] = "idle"]

----------------------------------------------------------------------------
(* The spawned task. Its work is abstracted to the waits it is made of.    *)

(* Faulty: without its timeout, a handshake ends only if the peer goes on. *)
HandshakeUntimed(c) ==
    /\ stage[c] = "handshake" /\ c \in Reading
    /\ \E outcome \in {"request", "closed"} :
           stage' = [stage EXCEPT ![c] = outcome]
    /\ UNCHANGED <<pc, permits, per_ip>>

Handshake(c) ==
    /\ stage[c] = "handshake"
    /\ \E outcome \in {"request",   \* Ok(Ok(stream))
                       "closed"} :  \* a TLS error, or the 10 s timeout
           stage' = [stage EXCEPT ![c] = outcome]
    /\ UNCHANGED <<pc, permits, per_ip>>

ReadRequest(c) ==
    /\ stage[c] = "request"
    /\ \E outcome \in {"reply",     \* a request, or something to answer 59 to
                       "closed"} :  \* the peer closed, or an I/O error
           stage' = [stage EXCEPT ![c] = outcome]
    /\ UNCHANGED <<pc, permits, per_ip>>

(* The writes of the reply and the shutdown end, well or in error. No      *)
(* deadline bounds them: they wait for the peer.                           *)
Reply(c) ==
    /\ stage[c] = "reply"
    /\ stage' = [stage EXCEPT ![c] = "closed"]
    /\ UNCHANGED <<pc, permits, per_ip>>

(* Faulty: the entry stays behind at zero; it is removed whatever its      *)
(* count.                                                                  *)
KeepingEntry(ip) == SetCount(ip, Count(ip) - 1)
Removing(ip) == [i \in DOMAIN per_ip \ {ip} |-> per_ip[i]]

(* One less, and the entry removed at zero. *)
Uncount(ip) ==
    LET left == SetCount(ip, Count(ip) - 1)
    IN  [i \in {j \in DOMAIN left : left[j] # 0} |-> left[i]]

(* Faulty: the table's lock is free only while the loop is in accept. *)
DropGuardBehindLoop(c) ==
    /\ stage[c] = "closed" /\ pc = "accept"
    /\ per_ip' = Uncount(PeerIp[c])
    /\ stage' = [stage EXCEPT ![c] = "unguarded"]
    /\ UNCHANGED <<pc, permits>>

(* PerIpGuard::drop *)
DropGuard(c) ==
    /\ stage[c] = "closed"
    /\ per_ip' = Uncount(PeerIp[c])
    /\ stage' = [stage EXCEPT ![c] = "unguarded"]
    /\ UNCHANGED <<pc, permits>>

(* OwnedSemaphorePermit::drop; the task ends. *)
DropPermit(c) ==
    /\ stage[c] = "unguarded"
    /\ permits' = permits + 1
    /\ stage' = [stage EXCEPT ![c] = "idle"]
    /\ UNCHANGED <<pc, per_ip>>

----------------------------------------------------------------------------
Loop(c) ==
    \/ Accept(c) \/ TakePermit(c) \/ RefuseAtCap(c)
    \/ TakeGuard(c) \/ RefusePerIp(c)

Task(c) == Handshake(c) \/ ReadRequest(c) \/ DropGuard(c) \/ DropPermit(c)

Next ==
    \/ Bind
    \/ Stop
    \/ \E c \in Conns : Connect(c) \/ Loop(c) \/ Task(c) \/ Reply(c)

Spec == Init /\ [][Next]_vars

(***************************************************************************)
(* Fairness. tokio runs every task that can run; the handshake and the     *)
(* request are bounded by timeouts, so they end whatever the peer does.    *)
(* The reply has no timeout: it ends only if the peer keeps reading or     *)
(* hangs up, which is assumed of the peers in Reading alone. Nothing is    *)
(* assumed of Stop, of Connect, or of which queued connection is accepted. *)
(***************************************************************************)
Fairness ==
    /\ WF_vars(\E c \in Conns : Loop(c))
    /\ \A c \in Conns : WF_vars(Task(c))
    /\ \A c \in Reading : WF_vars(Reply(c))

FairSpec == Spec /\ Fairness

----------------------------------------------------------------------------
TypeOK ==
    /\ pc \in {"bind", "accept", "permit", "guard", "stopped"}
    /\ stage \in [Conns -> Stages]
    /\ permits \in 0 .. MaxConcurrent
    /\ DOMAIN per_ip \subseteq Ips
    /\ per_ip \in [DOMAIN per_ip -> 1 .. MaxPerIp]

(* No permit is lost or minted, on any path out of the loop or the task:   *)
(* the free permits and the connections that hold one always add up to the *)
(* cap. A path that forgot one would shut the server up after 256 of them. *)
PermitsConserved == permits + Cardinality(PermitHolders) = MaxConcurrent

(* The table counts exactly the connections that hold a guard, for every   *)
(* address, and has no entry for an address without one (so that it cannot *)
(* grow with every address ever seen).                                     *)
TableCountsGuards ==
    /\ DOMAIN per_ip = {ip \in Ips : GuardHolders[ip] # {}}
    /\ \A ip \in DOMAIN per_ip : per_ip[ip] = Cardinality(GuardHolders[ip])

(* The accept loop has at most one connection in hand, and pc says which   *)
(* of its two checks that connection is at.                                *)
LoopHandlesOne ==
    /\ \A c, d \in Conns :
           stage[c] \in InLoop /\ stage[d] \in InLoop => c = d
    /\ pc = "permit" <=> \E c \in Conns : stage[c] = "accepted"
    /\ pc = "guard" <=> \E c \in Conns : stage[c] = "permitted"

(* A connection is turned away only for a reason: at the global cap, every *)
(* permit is with a spawned task (none is in the loop's own hands, lent to *)
(* a connection that the per-IP check is about to refuse); at the per-IP   *)
(* cap, MaxPerIp connections of the same address hold a guard.             *)
RefusedOnlyAtCap ==
    [][\A c \in Conns :
          stage[c] \in InLoop /\ stage'[c] = "idle" =>
             \/ Cardinality({d \in Conns : stage[d] \in Permitted \ InLoop})
                   = MaxConcurrent
             \/ Cardinality(GuardHolders[PeerIp[c]]) = MaxPerIp]_vars

(* The semaphore and the table implement a bounded pool each: one for all  *)
(* connections, and one for the connections of every address.              *)
PermitPool == INSTANCE SlotPool WITH
    Clients <- Conns, Capacity <- MaxConcurrent, holders <- PermitHolders
ImplementsPermitPool == PermitPool!Spec

IpPool(ip) == INSTANCE SlotPool WITH
    Clients <- {c \in Conns : PeerIp[c] = ip},
    Capacity <- MaxPerIp,
    holders <- GuardHolders[ip]
ImplementsIpPools ==
    /\ \A ip \in Ips : IpPool(ip)!Init
    /\ [][\A ip \in Ips : [IpPool(ip)!Next]_(GuardHolders[ip])]_vars

ImplementsPools == ImplementsPermitPool /\ ImplementsIpPools

(* A permit is always given back, if the peer keeps reading or hangs up.   *)
PermitsComeBack ==
    \A c \in Reading : (stage[c] \in Permitted) ~> (stage[c] = "idle")

(* Whatever a peer does, it keeps a slot only while a reply is being       *)
(* written to it: the handshake and the request end by themselves.         *)
OnlyRepliesWait ==
    \A c \in Conns : (stage[c] \in Permitted) ~> (stage[c] \in {"reply", "idle"})
=============================================================================
