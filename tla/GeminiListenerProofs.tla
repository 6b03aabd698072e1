------------------------ MODULE GeminiListenerProofs ------------------------
(***************************************************************************)
(* Proofs about GeminiListener, for any finite number of connections, any  *)
(* addresses and any caps: type correctness, that permits are conserved,   *)
(* that the table counts the guards, and that both are bounded pools.      *)
(***************************************************************************)
EXTENDS GeminiListener, FiniteSetTheorems, TLAPS

(* The holders of permits and guards are finite sets. *)
LEMMA HoldersFinite ==
    /\ IsFiniteSet(PermitHolders)
    /\ \A ip \in Ips : IsFiniteSet(GuardHolders[ip])
<1>1. PermitHolders \subseteq Conns /\ \A ip \in Ips : GuardHolders[ip] \subseteq Conns
  BY DEF PermitHolders, GuardHolders
<1> QED
  BY <1>1, FS_Subset, ListenerAssumption

(* The inductive invariant. Neither cap is inductive without the counts:   *)
(* that a permit can be given back without exceeding MaxConcurrent follows *)
(* from conservation alone, and the bound on the table's entries from what *)
(* they count.                                                             *)
IInv == TypeOK /\ PermitsConserved /\ TableCountsGuards /\ LoopHandlesOne

LEMMA InitInv == Init => IInv
<1> SUFFICES ASSUME Init PROVE IInv
  OBVIOUS
<1>1. PermitHolders = {} /\ \A ip \in Ips : GuardHolders[ip] = {}
  BY DEF Init, PermitHolders, GuardHolders, Permitted, Guarded
<1>2. TypeOK
  BY ListenerAssumption DEF Init, TypeOK, Stages
<1>3. PermitsConserved
  BY <1>1, FS_EmptySet, ListenerAssumption DEF Init, PermitsConserved
<1>4. TableCountsGuards
  BY <1>1 DEF Init, TableCountsGuards
<1>5. LoopHandlesOne
  BY DEF Init, LoopHandlesOne, InLoop
<1> QED
  BY <1>2, <1>3, <1>4, <1>5 DEF IInv

(* A step that moves one connection between stages in which it holds the   *)
(* same permit and the same guard keeps the counts.                        *)
LEMMA SameHolders ==
    ASSUME IInv, PermitHolders' = PermitHolders,
           \A ip \in Ips : GuardHolders'[ip] = GuardHolders[ip],
           UNCHANGED <<permits, per_ip>>
    PROVE  PermitsConserved' /\ TableCountsGuards'
BY DEF IInv, PermitsConserved, TableCountsGuards

(* Every step preserves the inductive invariant. *)
LEMMA NextInv == IInv /\ [Next]_vars => IInv'
<1> SUFFICES ASSUME IInv, [Next]_vars PROVE IInv'
  OBVIOUS
<1> USE DEF IInv
<1>t. /\ TypeOK /\ stage \in [Conns -> Stages] /\ permits \in Nat
      /\ MaxConcurrent \in Nat /\ MaxPerIp \in Nat
      /\ \A c \in Conns : PeerIp[c] \in Ips
  BY ListenerAssumption DEF TypeOK
<1>f. /\ IsFiniteSet(PermitHolders) /\ Cardinality(PermitHolders) \in Nat
      /\ \A ip \in Ips : IsFiniteSet(GuardHolders[ip]) /\ Cardinality(GuardHolders[ip]) \in Nat
  BY HoldersFinite, FS_CardinalityType
<1>1. CASE Bind
  <2>1. PermitHolders' = PermitHolders /\ \A ip \in Ips : GuardHolders'[ip] = GuardHolders[ip]
    BY <1>1 DEF Bind, PermitHolders, GuardHolders
  <2>2. TypeOK' /\ LoopHandlesOne'
    BY <1>1 DEF Bind, TypeOK, LoopHandlesOne
  <2> QED
    BY <2>1, <2>2, <1>1, SameHolders DEF Bind
<1>2. CASE Stop
  <2>1. stage' \in [Conns -> Stages]
    BY <1>t, <1>2 DEF Stop, Stages
  <2>2. \A c \in Conns : stage'[c] = stage[c] \/ (stage[c] = "backlog" /\ stage'[c] = "idle")
    BY <1>t, <1>2 DEF Stop
  <2>3. PermitHolders' = PermitHolders /\ \A ip \in Ips : GuardHolders'[ip] = GuardHolders[ip]
    BY <2>2 DEF PermitHolders, GuardHolders, Permitted, Guarded
  <2>4. TypeOK'
    BY <2>1, <1>2 DEF Stop, TypeOK
  <2>5. LoopHandlesOne'
    BY <2>2, <1>2 DEF Stop, LoopHandlesOne, InLoop
  <2> QED
    BY <2>3, <2>4, <2>5, <1>2, SameHolders DEF Stop
<1>3. ASSUME NEW c \in Conns, Connect(c) \/ Accept(c) \/ RefuseAtCap(c)
      PROVE  IInv'
  <2>1. PICK s \in {"backlog", "accepted", "idle"} :
            stage' = [stage EXCEPT ![c] = s] /\ stage[c] \in {"idle", "backlog", "accepted"}
    BY <1>3 DEF Connect, Accept, RefuseAtCap
  <2>2. s \in Stages /\ s \notin Permitted /\ s \notin Guarded
        /\ c \notin PermitHolders /\ \A ip \in Ips : c \notin GuardHolders[ip]
    BY <2>1 DEF Stages, Permitted, Guarded, InLoop, PermitHolders, GuardHolders
  <2>3. PermitHolders' = PermitHolders /\ \A ip \in Ips : GuardHolders'[ip] = GuardHolders[ip]
    BY <2>1, <2>2, <1>t DEF PermitHolders, GuardHolders
  <2>4. TypeOK'
    BY <1>3, <1>t, <2>1, <2>2 DEF TypeOK, Connect, Accept, RefuseAtCap
  <2>5. LoopHandlesOne'
    BY <1>3, <1>t DEF LoopHandlesOne, InLoop, Connect, Accept, RefuseAtCap
  <2> QED
    BY <2>3, <2>4, <2>5, <1>3, SameHolders DEF Connect, Accept, RefuseAtCap
<1>4. ASSUME NEW c \in Conns, TakePermit(c)
      PROVE  IInv'
  <2>1. c \notin PermitHolders /\ \A ip \in Ips : c \notin GuardHolders[ip]
    BY <1>4 DEF TakePermit, PermitHolders, GuardHolders, Permitted, Guarded
  <2>2. /\ stage' \in [Conns -> Stages]
        /\ PermitHolders' = PermitHolders \cup {c}
        /\ \A ip \in Ips : GuardHolders'[ip] = GuardHolders[ip]
    BY <1>4, <1>t, <2>1
       DEF PermitHolders, GuardHolders, TakePermit, Stages, Permitted, Guarded, InLoop
  <2>3. PermitsConserved'
    <3>1. Cardinality(PermitHolders \cup {c}) = Cardinality(PermitHolders) + 1
      BY <1>f, <2>1, FS_AddElement
    <3> QED
      BY <1>4, <1>t, <1>f, <2>2, <3>1 DEF TakePermit, PermitsConserved
  <2>4. TableCountsGuards'
    BY <1>4, <2>2 DEF TakePermit, TableCountsGuards
  <2>5. TypeOK'
    BY <1>4, <1>t, <2>2 DEF TakePermit, TypeOK
  <2>6. LoopHandlesOne'
    BY <1>4, <1>t DEF TakePermit, LoopHandlesOne, InLoop
  <2> QED
    BY <2>3, <2>4, <2>5, <2>6
<1>5. ASSUME NEW c \in Conns, TakeGuard(c)
      PROVE  IInv'
  <2> DEFINE ip == PeerIp[c]
  <2>1. c \in PermitHolders /\ \A i \in Ips : c \notin GuardHolders[i]
    BY <1>5 DEF TakeGuard, PermitHolders, GuardHolders, Permitted, Guarded
  <2>2. /\ stage' \in [Conns -> Stages]
        /\ PermitHolders' = PermitHolders
        /\ GuardHolders'[ip] = GuardHolders[ip] \cup {c}
        /\ \A i \in Ips : i # ip => GuardHolders'[i] = GuardHolders[i]
    BY <1>5, <1>t, <2>1
       DEF PermitHolders, GuardHolders, TakeGuard, Stages, Permitted, Guarded, InLoop
  <2>3. Count(ip) = Cardinality(GuardHolders[ip])
    BY <1>t, FS_EmptySet DEF TableCountsGuards, Count
  <2>4. /\ per_ip' = SetCount(ip, Count(ip) + 1)
        /\ Count(ip) + 1 \in 1 .. MaxPerIp
    BY <1>5, <1>t, <1>f, <2>3 DEF TakeGuard
  <2>5. TableCountsGuards'
    <3>0. IsFiniteSet(GuardHolders[ip]) /\ c \notin GuardHolders[ip]
      BY <1>f, <1>t, <2>1
    <3>1. Cardinality(GuardHolders'[ip]) = Count(ip) + 1
      BY <2>2, <2>3, <3>0, FS_AddElement
    <3>2. DOMAIN per_ip' = {i \in Ips : GuardHolders'[i] # {}}
      BY <2>2, <2>4, <1>t DEF SetCount, TableCountsGuards
    <3>3. \A i \in DOMAIN per_ip' : per_ip'[i] = Cardinality(GuardHolders'[i])
      BY <2>2, <2>4, <3>1 DEF SetCount, TableCountsGuards
    <3> QED
      BY <3>2, <3>3 DEF TableCountsGuards
  <2>6. PermitsConserved'
    BY <1>5, <2>2 DEF TakeGuard, PermitsConserved
  <2>7. TypeOK'
    <3>1. DOMAIN per_ip' \subseteq Ips /\ per_ip' \in [DOMAIN per_ip' -> 1 .. MaxPerIp]
      BY <2>4, <1>t DEF SetCount, TypeOK
    <3> QED
      BY <1>5, <2>2, <3>1 DEF TakeGuard, TypeOK
  <2>8. LoopHandlesOne'
    BY <1>5, <1>t DEF TakeGuard, LoopHandlesOne, InLoop
  <2> QED
    BY <2>5, <2>6, <2>7, <2>8
<1>6. ASSUME NEW c \in Conns, RefusePerIp(c)
      PROVE  IInv'
  <2> DEFINE ip == PeerIp[c]
  <2>1. c \in PermitHolders /\ \A i \in Ips : c \notin GuardHolders[i]
    BY <1>6 DEF RefusePerIp, PermitHolders, GuardHolders, Permitted, Guarded
  <2>2. /\ stage' \in [Conns -> Stages]
        /\ PermitHolders' = PermitHolders \ {c}
        /\ \A i \in Ips : GuardHolders'[i] = GuardHolders[i]
    BY <1>6, <1>t, <2>1
       DEF PermitHolders, GuardHolders, RefusePerIp, Stages, Permitted, Guarded, InLoop
  <2>3. ip \in DOMAIN per_ip
    BY <1>6, ListenerAssumption DEF RefusePerIp, Count
  <2>4. per_ip' = per_ip
    BY <1>6, <2>3 DEF RefusePerIp, SetCount, Count, TypeOK
  <2>5. PermitsConserved' /\ permits' \in 0 .. MaxConcurrent
    <3>1. Cardinality(PermitHolders \ {c}) = Cardinality(PermitHolders) - 1
      BY <1>f, <2>1, FS_RemoveElement
    <3>2. IsFiniteSet(PermitHolders \ {c})
      BY <1>f, FS_RemoveElement
    <3>3. Cardinality(PermitHolders \ {c}) \in Nat
      BY <3>2, FS_CardinalityType
    <3> QED
      BY <1>6, <1>t, <1>f, <2>2, <3>1, <3>3 DEF RefusePerIp, PermitsConserved
  <2>7. TypeOK' /\ TableCountsGuards'
    BY <1>6, <2>2, <2>4, <2>5 DEF RefusePerIp, TypeOK, TableCountsGuards
  <2>8. LoopHandlesOne'
    BY <1>6, <1>t DEF RefusePerIp, LoopHandlesOne, InLoop
  <2> QED
    BY <2>5, <2>7, <2>8
<1>7. ASSUME NEW c \in Conns, Handshake(c) \/ ReadRequest(c) \/ Reply(c)
      PROVE  IInv'
  <2>1. PICK s \in Guarded :
            stage' = [stage EXCEPT ![c] = s] /\ stage[c] \in Guarded
    BY <1>7 DEF Handshake, ReadRequest, Reply, Guarded
  <2>2. s \in Stages /\ s \in Permitted
        /\ c \in PermitHolders /\ \A ip \in Ips : PeerIp[c] = ip <=> c \in GuardHolders[ip]
    BY <2>1 DEF Stages, Permitted, PermitHolders, GuardHolders
  <2>3. PermitHolders' = PermitHolders /\ \A ip \in Ips : GuardHolders'[ip] = GuardHolders[ip]
    BY <2>1, <2>2, <1>t DEF PermitHolders, GuardHolders
  <2>4. TypeOK'
    BY <1>7, <1>t, <2>1, <2>2 DEF TypeOK, Handshake, ReadRequest, Reply
  <2>5. LoopHandlesOne'
    BY <1>7, <1>t, <2>1 DEF LoopHandlesOne, InLoop, Guarded, Handshake, ReadRequest, Reply
  <2> QED
    BY <2>3, <2>4, <2>5, <1>7, SameHolders DEF Handshake, ReadRequest, Reply
<1>8. ASSUME NEW c \in Conns, DropGuard(c)
      PROVE  IInv'
  <2> DEFINE ip == PeerIp[c]
             left == SetCount(ip, Count(ip) - 1)
  <2>1. c \in PermitHolders /\ c \in GuardHolders[ip] /\ \A i \in Ips : i # ip => c \notin GuardHolders[i]
    BY <1>8, <1>t DEF DropGuard, PermitHolders, GuardHolders, Permitted, Guarded
  <2>2. /\ stage' \in [Conns -> Stages]
        /\ PermitHolders' = PermitHolders
        /\ GuardHolders'[ip] = GuardHolders[ip] \ {c}
        /\ \A i \in Ips : i # ip => GuardHolders'[i] = GuardHolders[i]
    BY <1>8, <1>t, <2>1
       DEF PermitHolders, GuardHolders, DropGuard, Stages, Permitted, Guarded, InLoop
  <2>3. ip \in DOMAIN per_ip /\ Count(ip) = Cardinality(GuardHolders[ip])
        /\ Count(ip) \in 1 .. MaxPerIp
    BY <1>t, <2>1 DEF TableCountsGuards, Count, TypeOK
  <2>4. IsFiniteSet(GuardHolders'[ip]) /\ Cardinality(GuardHolders'[ip]) = Count(ip) - 1
    <3>1. IsFiniteSet(GuardHolders[ip]) /\ c \in GuardHolders[ip]
      BY <1>f, <1>t, <2>1
    <3> QED
      BY <2>2, <2>3, <3>1, FS_RemoveElement
  <2>5. GuardHolders'[ip] = {} <=> Count(ip) - 1 = 0
    BY <2>4, FS_EmptySet
  <2>6. /\ DOMAIN left = DOMAIN per_ip
        /\ left[ip] = Count(ip) - 1
        /\ \A i \in DOMAIN per_ip : i # ip => left[i] = per_ip[i]
    BY <2>3 DEF SetCount
  <2>7. per_ip' = [i \in {j \in DOMAIN left : left[j] # 0} |-> left[i]]
    BY <1>8 DEF DropGuard, Uncount
  <2>8. TableCountsGuards'
    <3> HIDE DEF left
    <3>1. \A i \in DOMAIN per_ip : left[i] = Cardinality(GuardHolders'[i])
      BY <2>2, <2>4, <2>6 DEF TableCountsGuards
    <3>2. \A i \in DOMAIN per_ip : left[i] = 0 <=> GuardHolders'[i] = {}
      BY <2>2, <2>3, <2>5, <2>6, <1>t DEF TableCountsGuards, TypeOK
    <3>3. DOMAIN per_ip' = {i \in Ips : GuardHolders'[i] # {}}
      BY <2>2, <2>3, <2>6, <2>7, <3>2 DEF TableCountsGuards
    <3> QED
      BY <2>6, <2>7, <3>1, <3>3 DEF TableCountsGuards
  <2>9. PermitsConserved'
    BY <1>8, <2>2 DEF DropGuard, PermitsConserved
  <2>10. TypeOK'
    <3> HIDE DEF left
    <3>1. \A i \in DOMAIN left : left[i] # 0 => left[i] \in 1 .. MaxPerIp
      BY <2>3, <2>6, <1>t DEF TypeOK
    <3>2. DOMAIN per_ip' \subseteq Ips /\ per_ip' \in [DOMAIN per_ip' -> 1 .. MaxPerIp]
      BY <2>6, <2>7, <3>1 DEF TypeOK
    <3> QED
      BY <1>8, <2>2, <3>2 DEF DropGuard, TypeOK
  <2>11. LoopHandlesOne'
    BY <1>8, <1>t DEF DropGuard, LoopHandlesOne, InLoop
  <2> QED
    BY <2>8, <2>9, <2>10, <2>11
<1>9. ASSUME NEW c \in Conns, DropPermit(c)
      PROVE  IInv'
  <2>1. c \in PermitHolders /\ \A i \in Ips : c \notin GuardHolders[i]
    BY <1>9 DEF DropPermit, PermitHolders, GuardHolders, Permitted, Guarded
  <2>2. /\ stage' \in [Conns -> Stages]
        /\ PermitHolders' = PermitHolders \ {c}
        /\ \A i \in Ips : GuardHolders'[i] = GuardHolders[i]
    BY <1>9, <1>t, <2>1
       DEF PermitHolders, GuardHolders, DropPermit, Stages, Permitted, Guarded, InLoop
  <2>3. PermitsConserved' /\ permits' \in 0 .. MaxConcurrent
    <3>1. Cardinality(PermitHolders \ {c}) = Cardinality(PermitHolders) - 1
      BY <1>f, <2>1, FS_RemoveElement
    <3>2. IsFiniteSet(PermitHolders \ {c})
      BY <1>f, FS_RemoveElement
    <3>3. Cardinality(PermitHolders \ {c}) \in Nat
      BY <3>2, FS_CardinalityType
    <3> QED
      BY <1>9, <1>t, <1>f, <2>2, <3>1, <3>3 DEF DropPermit, PermitsConserved
  <2>5. TypeOK' /\ TableCountsGuards'
    BY <1>9, <2>2, <2>3 DEF DropPermit, TypeOK, TableCountsGuards
  <2>6. LoopHandlesOne'
    BY <1>9, <1>t DEF DropPermit, LoopHandlesOne, InLoop
  <2> QED
    BY <2>3, <2>5, <2>6
<1>10. CASE UNCHANGED vars
  BY <1>10 DEF vars, TypeOK, PermitsConserved, TableCountsGuards, LoopHandlesOne,
               PermitHolders, GuardHolders
<1> QED
  BY <1>1, <1>2, <1>3, <1>4, <1>5, <1>6, <1>7, <1>8, <1>9, <1>10
     DEF Next, Loop, Task

(* The inductive invariant holds in every reachable state. *)
THEOREM InvHolds == Spec => []IInv
<1>1. Init => IInv
  BY InitInv
<1>2. IInv /\ [Next]_vars => IInv'
  BY NextInv
<1> QED
  BY <1>1, <1>2, PTL DEF Spec

(* Every variable keeps its type; in particular, permits never exceeds the *)
(* cap and no entry of the table is zero or above MaxPerIp.                *)
THEOREM TypeCorrect == Spec => []TypeOK
<1>1. IInv => TypeOK
  BY DEF IInv
<1> QED
  BY <1>1, InvHolds, PTL

(* The semaphore neither loses nor mints a permit, on any path. *)
THEOREM PermitsAreConserved == Spec => []PermitsConserved
<1>1. IInv => PermitsConserved
  BY DEF IInv
<1> QED
  BY <1>1, InvHolds, PTL

(* The per-IP table counts the guards, exactly, and keeps no dead entry. *)
THEOREM TableIsExact == Spec => []TableCountsGuards
<1>1. IInv => TableCountsGuards
  BY DEF IInv
<1> QED
  BY <1>1, InvHolds, PTL

(* A connection is refused only when the cap it is refused for is reached. *)
THEOREM RefusalsAreJustified == Spec => RefusedOnlyAtCap
<1> DEFINE Justified(c) ==
              \/ Cardinality({d \in Conns : stage[d] \in Permitted \ InLoop}) = MaxConcurrent
              \/ Cardinality(GuardHolders[PeerIp[c]]) = MaxPerIp
           A == \A c \in Conns : stage[c] \in InLoop /\ stage'[c] = "idle" => Justified(c)
<1>1. IInv /\ [Next]_vars => [A]_vars
  <2> SUFFICES ASSUME IInv, [Next]_vars, NEW c \in Conns,
                      stage[c] \in InLoop, stage'[c] = "idle"
               PROVE  Justified(c)
    OBVIOUS
  <2>t. /\ stage \in [Conns -> Stages] /\ permits \in Nat
        /\ MaxConcurrent \in Nat /\ MaxPerIp \in Nat /\ PeerIp[c] \in Ips
        /\ Cardinality(PermitHolders) \in Nat
    BY ListenerAssumption, HoldersFinite, FS_CardinalityType DEF IInv, TypeOK
  <2>1. CASE \E d \in Conns : RefuseAtCap(d)
    <3>1. pc = "permit" /\ permits = 0
      BY <2>1 DEF RefuseAtCap
    <3>2. Cardinality(PermitHolders) = MaxConcurrent
      BY <2>t, <3>1 DEF IInv, PermitsConserved
    <3>3. \A d \in Conns : stage[d] # "permitted" /\ stage[d] \in Permitted => stage[d] \notin InLoop
      BY DEF InLoop, Permitted, Guarded
    <3>4. \A d \in Conns : stage[d] # "permitted"
      BY <3>1 DEF IInv, LoopHandlesOne
    <3>5. PermitHolders = {d \in Conns : stage[d] \in Permitted \ InLoop}
      BY <3>3, <3>4 DEF PermitHolders
    <3> QED
      BY <3>2, <3>5
  <2>2. CASE \E d \in Conns : RefusePerIp(d)
    <3>1. RefusePerIp(c)
      BY <2>2, <2>t DEF RefusePerIp, InLoop
    <3>2. PeerIp[c] \in DOMAIN per_ip /\ per_ip[PeerIp[c]] >= MaxPerIp
      BY <3>1, ListenerAssumption DEF RefusePerIp, Count
    <3>3. per_ip[PeerIp[c]] \in 1 .. MaxPerIp
      BY <3>2 DEF IInv, TypeOK
    <3>4. per_ip[PeerIp[c]] = MaxPerIp
      BY <3>2, <3>3, <2>t
    <3> QED
      BY <3>2, <3>4 DEF IInv, TableCountsGuards
  <2>3. CASE \/ Bind \/ Stop \/ UNCHANGED vars
             \/ \E d \in Conns : Connect(d) \/ Accept(d) \/ TakePermit(d) \/ TakeGuard(d)
                                 \/ Task(d) \/ Reply(d)
    BY <2>3, <2>t DEF Bind, Stop, vars, Connect, Accept, TakePermit, TakeGuard, Task,
       Handshake, ReadRequest, Reply, DropGuard, DropPermit, InLoop
  <2> QED
    BY <2>1, <2>2, <2>3 DEF Next, Loop
<1> QED
  BY <1>1, InvHolds, PTL DEF Spec, RefusedOnlyAtCap

(* What a step does to the set of permit holders: it is a step of a pool.  *)
LEMMA PermitPoolStep == IInv /\ [Next]_vars => [PermitPool!Next]_PermitHolders
<1> SUFFICES ASSUME IInv, [Next]_vars PROVE [PermitPool!Next]_PermitHolders
  OBVIOUS
<1> USE DEF PermitHolders, Permitted, Guarded
<1>t. stage \in [Conns -> Stages] /\ permits \in Nat /\ MaxConcurrent \in Nat
  BY ListenerAssumption DEF IInv, TypeOK
<1>1. ASSUME NEW c \in Conns, TakePermit(c) PROVE PermitPool!Acquire(c)
  <2>1. c \notin PermitHolders /\ PermitHolders' = PermitHolders \cup {c}
    BY <1>1, <1>t DEF TakePermit
  <2>2. Cardinality(PermitHolders) \in Nat
    BY HoldersFinite, FS_CardinalityType
  <2>3. permits > 0 /\ permits + Cardinality(PermitHolders) = MaxConcurrent
    BY <1>1 DEF TakePermit, IInv, PermitsConserved
  <2> HIDE DEF PermitHolders
  <2>4. Cardinality(PermitHolders) < MaxConcurrent
    BY <1>t, <2>2, <2>3
  <2> QED
    BY <2>1, <2>4 DEF PermitPool!Acquire, PermitPool!Cardinality, Cardinality
<1>2. ASSUME NEW c \in Conns, RefusePerIp(c) \/ DropPermit(c)
      PROVE  PermitPool!Release(c)
  BY <1>2, <1>t DEF RefusePerIp, DropPermit, PermitPool!Release
<1>3. CASE \/ Bind \/ Stop \/ UNCHANGED vars
           \/ \E c \in Conns : Connect(c) \/ Accept(c) \/ RefuseAtCap(c) \/ TakeGuard(c)
                  \/ Handshake(c) \/ ReadRequest(c) \/ Reply(c) \/ DropGuard(c)
  BY <1>3, <1>t DEF Bind, Stop, vars, Connect, Accept, RefuseAtCap, TakeGuard,
     Handshake, ReadRequest, Reply, DropGuard
<1> HIDE DEF PermitHolders
<1> QED
  BY <1>1, <1>2, <1>3 DEF Next, Loop, Task, PermitPool!Next

(* The semaphore, with the paths that take and drop its permits,           *)
(* implements a bounded pool of MaxConcurrent slots.                       *)
THEOREM PermitsRefineSlotPool == Spec => ImplementsPermitPool
<1>1. Init => PermitPool!Init
  BY DEF Init, PermitPool!Init, PermitHolders, Permitted, Guarded
<1>2. IInv /\ [Next]_vars => [PermitPool!Next]_PermitHolders
  BY PermitPoolStep
<1> QED
  BY <1>1, <1>2, InvHolds, PTL DEF Spec, ImplementsPermitPool, PermitPool!Spec

(* The same of the guards of one address. *)
LEMMA IpPoolStep ==
    ASSUME IInv, [Next]_vars, NEW ip \in Ips
    PROVE  [IpPool(ip)!Next]_(GuardHolders[ip])
<1> USE DEF GuardHolders, Guarded
<1>t. /\ stage \in [Conns -> Stages] /\ MaxPerIp \in Nat
      /\ \A c \in Conns : PeerIp[c] \in Ips
  BY ListenerAssumption DEF IInv, TypeOK
<1>1. ASSUME NEW c \in Conns, PeerIp[c] = ip, TakeGuard(c) PROVE IpPool(ip)!Acquire(c)
  <2>1. c \notin GuardHolders[ip] /\ GuardHolders'[ip] = GuardHolders[ip] \cup {c}
    BY <1>1, <1>t DEF TakeGuard
  <2>2. Count(ip) < MaxPerIp
    BY <1>1 DEF TakeGuard
  <2> HIDE DEF GuardHolders
  <2>3. Count(ip) = Cardinality(GuardHolders[ip])
    BY FS_EmptySet DEF Count, IInv, TableCountsGuards
  <2> QED
    BY <2>1, <2>2, <2>3 DEF IpPool!Acquire, IpPool!Cardinality, Cardinality
<1>2. ASSUME NEW c \in Conns, PeerIp[c] = ip, DropGuard(c) PROVE IpPool(ip)!Release(c)
  BY <1>2, <1>t DEF DropGuard, IpPool!Release
<1>3. ASSUME NEW c \in Conns,
             \/ PeerIp[c] # ip /\ (TakeGuard(c) \/ DropGuard(c))
             \/ Connect(c) \/ Accept(c) \/ RefuseAtCap(c) \/ TakePermit(c)
             \/ RefusePerIp(c) \/ Handshake(c) \/ ReadRequest(c) \/ Reply(c)
             \/ DropPermit(c)
      PROVE  UNCHANGED GuardHolders[ip]
  BY <1>3, <1>t DEF Connect, Accept, RefuseAtCap, TakePermit, TakeGuard,
     RefusePerIp, Handshake, ReadRequest, Reply, DropGuard, DropPermit
<1>4. CASE Bind \/ Stop \/ UNCHANGED vars
  BY <1>4, <1>t DEF Bind, Stop, vars
<1> HIDE DEF GuardHolders
<1> QED
  <2>1. CASE Bind \/ Stop \/ UNCHANGED vars
    BY <2>1, <1>4
  <2>2. ASSUME NEW c \in Conns, Connect(c) \/ Loop(c) \/ Task(c) \/ Reply(c)
        PROVE  [IpPool(ip)!Next]_(GuardHolders[ip])
    BY <2>2, <1>1, <1>2, <1>3 DEF Loop, Task, IpPool!Next
  <2> QED
    BY <2>1, <2>2 DEF Next

(* The guards of every address are a bounded pool of MaxPerIp slots. *)
THEOREM GuardsRefineSlotPools == Spec => ImplementsIpPools
<1>1. Init => \A ip \in Ips : IpPool(ip)!Init
  BY DEF Init, IpPool!Init, GuardHolders, Guarded
<1>2. IInv /\ [Next]_vars =>
         [\A ip \in Ips : [IpPool(ip)!Next]_(GuardHolders[ip])]_vars
  BY IpPoolStep
<1> QED
  BY <1>1, <1>2, InvHolds, PTL DEF Spec, ImplementsIpPools

(* Both of them. *)
THEOREM ListenerRefinesPools == Spec => ImplementsPools
  BY PermitsRefineSlotPool, GuardsRefineSlotPools DEF ImplementsPools
=============================================================================
