--------------------------- MODULE CertStoreProofs ---------------------------
(***************************************************************************)
(* Proofs about CertStore, for any number of pairs, crashes and losses:    *)
(* one certificate is served for good, and it is the one on disk.          *)
(***************************************************************************)
EXTENDS CertStore, FiniteSetTheorems, TLAPS

Storing == {"check", "openKey", "writeKey", "openCrt", "writeCrt"}

(* What a boot's stage says of its data, and of the files while nothing    *)
(* has been lost: the key is written before the certificate is touched, and *)
(* only when there was none.                                               *)
StageIsStored ==
    /\ pc \in Storing => config = "persistent"
    /\ pc = "generate" => config = "ephemeral"
    /\ pc \in Storing \ {"check"} => data.crt \in Pairs /\ data.key = data.crt
    /\ gemini \in {"spawned", "listening"} => Usable(data) /\ pc = "serving"
FilesInOrder ==
    /\ crt # Missing => key \in Pairs
    /\ crt \in Pairs => key = crt
    /\ pc \in {"openKey", "writeKey"} => crt = Missing
    /\ pc \in {"openCrt", "writeCrt"} => key = data.key /\ crt \notin Pairs
ServedIsStored ==
    config = "persistent" =>
        /\ pc = "tls" => data = [crt |-> crt, key |-> key]
        /\ gemini \in {"spawned", "listening"} => data = [crt |-> crt, key |-> key]
        /\ served \subseteq {crt}
Inv ==
    /\ TypeOK /\ StageIsStored
    /\ losses = 0 => FilesInOrder /\ ServedIsStored

LEMMA FileKinds ==
    /\ Missing \notin Pairs /\ Torn \notin Pairs /\ Missing # Torn
    /\ Missing \in File /\ Torn \in File /\ Pairs \subseteq File
    /\ MaxPairs \in Nat /\ MaxCrashes \in Nat /\ MaxLosses \in Nat
<1>1. Pairs \subseteq Nat
  BY CertStoreAssumption DEF Pairs
<1> QED
  BY <1>1, CertStoreAssumption DEF File

LEMMA InitInv == Init => Inv
BY FileKinds, CertStoreAssumption
DEF Init, Inv, TypeOK, StageIsStored, FilesInOrder, ServedIsStored, NoData, Storing

(* The steps of a boot. *)
LEMMA StartInv == ASSUME Inv, Start PROVE Inv'
<1>1. TypeOK'
  BY DEF Inv, TypeOK, Start, disk, Configs
<1>2. pc' \in {"serving", "generate", "check"} /\ UNCHANGED <<config, gemini, crt, key, data, served, losses>>
  BY DEF Inv, TypeOK, Start, disk, Configs
<1>3. StageIsStored'
  BY <1>2 DEF Inv, TypeOK, StageIsStored, Start, Configs, Storing, Usable
<1>4. losses' = 0 => FilesInOrder' /\ ServedIsStored'
  BY <1>2 DEF Inv, FilesInOrder, ServedIsStored
<1> QED
  BY <1>1, <1>3, <1>4 DEF Inv

LEMMA LoadInv == ASSUME Inv, Load PROVE Inv'
<1>1. TypeOK'
  BY DEF Inv, TypeOK, Load, disk
<1>2. StageIsStored'
  BY DEF Inv, StageIsStored, Load, Storing, Usable
<1>3. losses' = 0 => FilesInOrder' /\ ServedIsStored'
  BY DEF Inv, StageIsStored, FilesInOrder, ServedIsStored, Load, disk
<1> QED
  BY <1>1, <1>2, <1>3 DEF Inv

LEMMA GenerateInv == ASSUME Inv, Generate PROVE Inv'
<1>1. pairs + 1 \in Pairs /\ pairs' = pairs + 1
  BY FileKinds DEF Inv, TypeOK, Generate, Pairs
<1>2. pairs' \in 0 .. MaxPairs
  BY <1>1, FileKinds DEF Pairs
<1>3. data' = [crt |-> pairs + 1, key |-> pairs + 1]
  BY DEF Generate
<1>4. UNCHANGED <<config, gemini, crt, key, fallback, served, crashes, losses>>
  BY DEF Generate, disk
<1>5. \/ pc = "check" /\ pc' = "openKey" /\ ~Found
      \/ pc = "generate" /\ pc' = "tls"
  BY DEF Generate
<1>6. data' \in [crt : File, key : File]
  BY <1>1, <1>3, FileKinds
<1>7. TypeOK'
  BY <1>2, <1>4, <1>5, <1>6 DEF Inv, TypeOK
<1>8. StageIsStored'
  BY <1>1, <1>3, <1>4, <1>5 DEF Inv, StageIsStored, Storing, Usable
<1>9. losses' = 0 => FilesInOrder' /\ ServedIsStored'
  BY <1>4, <1>5, FileKinds DEF Inv, StageIsStored, FilesInOrder, ServedIsStored, Found, Storing
<1> QED
  BY <1>7, <1>8, <1>9 DEF Inv

LEMMA OpenKeyInv == ASSUME Inv, OpenKey PROVE Inv'
<1>1. UNCHANGED <<config, gemini, crt, data, pairs, served, crashes, losses>>
  BY DEF OpenKey
<1>2. pc = "openKey" /\ pc' = "writeKey" /\ key' = Torn
  BY DEF OpenKey
<1>3. fallback' \in [crt : SUBSET File, key : SUBSET File]
  BY FileKinds DEF Inv, TypeOK, OpenKey
<1>4. TypeOK'
  BY <1>1, <1>2, <1>3, FileKinds DEF Inv, TypeOK
<1>5. StageIsStored'
  BY <1>1, <1>2 DEF Inv, StageIsStored, Storing, Usable
<1>6. losses' = 0 => FilesInOrder' /\ ServedIsStored'
  BY <1>1, <1>2, FileKinds DEF Inv, StageIsStored, FilesInOrder, ServedIsStored
<1> QED
  BY <1>4, <1>5, <1>6 DEF Inv

LEMMA WriteKeyInv == ASSUME Inv, WriteKey PROVE Inv'
<1>1. UNCHANGED <<config, gemini, crt, fallback, data, pairs, served, crashes, losses>>
  BY DEF WriteKey
<1>2. pc = "writeKey" /\ pc' = "openCrt" /\ key' = data.key /\ data.key \in Pairs
  BY DEF WriteKey, Written, AfterKey, Inv, StageIsStored, Storing
<1>3. TypeOK'
  BY <1>1, <1>2, FileKinds DEF Inv, TypeOK
<1>4. StageIsStored'
  BY <1>1, <1>2 DEF Inv, StageIsStored, Storing, Usable
<1>5. losses' = 0 => FilesInOrder' /\ ServedIsStored'
  BY <1>1, <1>2, FileKinds DEF Inv, StageIsStored, FilesInOrder, ServedIsStored
<1> QED
  BY <1>3, <1>4, <1>5 DEF Inv

LEMMA OpenCrtInv == ASSUME Inv, OpenCrt PROVE Inv'
<1>1. UNCHANGED <<config, gemini, key, data, pairs, served, crashes, losses>>
  BY DEF OpenCrt
<1>2. pc = "openCrt" /\ pc' = "writeCrt" /\ crt' = Torn
  BY DEF OpenCrt
<1>3. fallback' \in [crt : SUBSET File, key : SUBSET File]
  BY FileKinds DEF Inv, TypeOK, OpenCrt
<1>4. TypeOK'
  BY <1>1, <1>2, <1>3, FileKinds DEF Inv, TypeOK
<1>5. StageIsStored'
  BY <1>1, <1>2 DEF Inv, StageIsStored, Storing, Usable
<1>6. losses' = 0 => FilesInOrder' /\ ServedIsStored'
  <2>1. served \subseteq Pairs /\ data.key \in Pairs
    BY <1>2 DEF Inv, TypeOK, StageIsStored, Storing
  <2>2. losses = 0 /\ config = "persistent" => served = {}
    BY <1>2, <2>1 DEF Inv, FilesInOrder, ServedIsStored
  <2> QED
    BY <1>1, <1>2, <2>1, <2>2, FileKinds
    DEF Inv, StageIsStored, FilesInOrder, ServedIsStored
<1> QED
  BY <1>4, <1>5, <1>6 DEF Inv

LEMMA WriteCrtInv == ASSUME Inv, WriteCrt PROVE Inv'
<1>1. UNCHANGED <<config, gemini, key, fallback, data, pairs, served, crashes, losses>>
  BY DEF WriteCrt
<1>2. pc = "writeCrt" /\ pc' = "tls" /\ crt' = data.crt /\ data.crt \in Pairs /\ data.key = data.crt
  BY DEF WriteCrt, Written, Inv, StageIsStored, Storing
<1>3. TypeOK'
  BY <1>1, <1>2, FileKinds DEF Inv, TypeOK
<1>4. StageIsStored'
  BY <1>1, <1>2 DEF Inv, StageIsStored, Storing, Usable
<1>5. data' = [crt |-> data.crt, key |-> data.key]
  BY <1>1 DEF Inv, TypeOK
<1>6. losses' = 0 => FilesInOrder' /\ ServedIsStored'
  <2>1. served \subseteq Pairs
    BY DEF Inv, TypeOK
  <2>2. losses = 0 /\ config = "persistent" => served = {}
    BY <1>2, <2>1 DEF Inv, FilesInOrder, ServedIsStored
  <2> QED
    BY <1>1, <1>2, <1>5, <2>2, FileKinds
    DEF Inv, StageIsStored, FilesInOrder, ServedIsStored
<1> QED
  BY <1>3, <1>4, <1>6 DEF Inv

(* The listener serves what the boot stored or loaded. *)
LEMMA ServeInv == ASSUME Inv, Serve PROVE Inv'
<1>1. UNCHANGED <<config, crt, key, fallback, data, pairs, served, crashes, losses>>
  BY DEF Serve, disk
<1>2. pc = "tls" /\ Usable(data) /\ pc' = "serving" /\ gemini' = "spawned"
  BY DEF Serve
<1>3. TypeOK'
  BY <1>1, <1>2 DEF Inv, TypeOK
<1>4. StageIsStored'
  BY <1>1, <1>2 DEF StageIsStored, Storing, Usable
<1>5. losses' = 0 => FilesInOrder' /\ ServedIsStored'
  BY <1>1, <1>2 DEF Inv, FilesInOrder, ServedIsStored
<1> QED
  BY <1>3, <1>4, <1>5 DEF Inv

LEMMA ListenInv == ASSUME Inv, Listen PROVE Inv'
<1>1. UNCHANGED <<config, pc, crt, key, fallback, data, pairs, crashes, losses>>
  BY DEF Listen, disk
<1>2. gemini = "spawned" /\ gemini' = "listening" /\ served' = served \cup {data.crt}
  BY DEF Listen
<1>3. data.crt \in Pairs
  BY <1>2 DEF Inv, StageIsStored, Usable
<1>4. TypeOK'
  BY <1>1, <1>2, <1>3 DEF Inv, TypeOK
<1>5. StageIsStored'
  BY <1>1, <1>2 DEF Inv, StageIsStored, Usable
<1>6. losses' = 0 => FilesInOrder' /\ ServedIsStored'
  BY <1>1, <1>2 DEF Inv, FilesInOrder, ServedIsStored
<1> QED
  BY <1>4, <1>5, <1>6 DEF Inv

(* A boot that is gone leaves the files as they are; unless a file is      *)
(* reverted or removed, which counts as a loss.                            *)
LEMMA DownInv == ASSUME Inv, Panic \/ Crash PROVE Inv'
<1>1. UNCHANGED <<config, crt, key, fallback, pairs, served, losses>>
  BY DEF Panic, Crash, disk
<1>2. pc' = "down" /\ data' = NoData
  BY DEF Panic, Crash
<1>3. crashes' \in 0 .. MaxCrashes
  BY FileKinds DEF Inv, TypeOK, Panic, Crash
<1>4. gemini' \in {"none", "ended"}
  BY DEF Inv, TypeOK, StageIsStored, Panic, Crash
<1>5. TypeOK'
  BY <1>1, <1>2, <1>3, <1>4, FileKinds DEF Inv, TypeOK, NoData
<1>6. StageIsStored'
  BY <1>2, <1>4 DEF StageIsStored, Storing
<1>7. losses' = 0 => FilesInOrder' /\ ServedIsStored'
  BY <1>1, <1>2, <1>4 DEF Inv, FilesInOrder, ServedIsStored
<1> QED
  BY <1>5, <1>6, <1>7 DEF Inv

LEMMA ListenerEndsInv == ASSUME Inv, ListenerEnds PROVE Inv'
<1>1. UNCHANGED <<config, pc, crt, key, fallback, data, pairs, served, crashes, losses>>
  BY DEF ListenerEnds, disk
<1>2. gemini' = "ended"
  BY DEF ListenerEnds
<1> QED
  BY <1>1, <1>2 DEF Inv, TypeOK, StageIsStored, FilesInOrder, ServedIsStored

LEMMA WritebackInv == ASSUME Inv, Writeback PROVE Inv'
<1>1. UNCHANGED <<config, pc, gemini, crt, key, data, pairs, served, crashes, losses>>
  BY DEF Writeback
<1>2. fallback' \in [crt : SUBSET File, key : SUBSET File]
  BY DEF Writeback
<1> QED
  BY <1>1, <1>2 DEF Inv, TypeOK, StageIsStored, FilesInOrder, ServedIsStored, Usable

LEMMA HostFailureInv == ASSUME Inv, HostFailure PROVE Inv'
<1>1. UNCHANGED <<config, pairs, served>>
  BY DEF HostFailure
<1>2. pc' = "down" /\ gemini' = "none" /\ data' = NoData
  BY DEF HostFailure
<1>3. crashes' \in 0 .. MaxCrashes /\ losses' \in 0 .. MaxLosses
  BY FileKinds DEF Inv, TypeOK, HostFailure
<1>4. /\ crt' \in File /\ key' \in File
      /\ fallback' \in [crt : SUBSET File, key : SUBSET File]
  BY DEF Inv, TypeOK, HostFailure
<1>5. TypeOK'
  BY <1>1, <1>2, <1>3, <1>4, FileKinds DEF Inv, TypeOK, NoData
<1>6. StageIsStored'
  BY <1>2 DEF StageIsStored, Storing
<1>7. losses' = 0 => losses = 0 /\ crt' = crt /\ key' = key
  BY DEF Inv, TypeOK, HostFailure
<1>8. losses' = 0 => FilesInOrder' /\ ServedIsStored'
  BY <1>1, <1>2, <1>7 DEF Inv, FilesInOrder, ServedIsStored
<1> QED
  BY <1>5, <1>6, <1>8 DEF Inv

LEMMA LoseInv == ASSUME Inv, Lose PROVE Inv'
<1>1. UNCHANGED <<config, pc, gemini, data, pairs, served, crashes>>
  BY DEF Lose
<1>2. losses' \in 0 .. MaxLosses /\ losses' # 0
  BY FileKinds DEF Inv, TypeOK, Lose
<1>3. /\ crt' \in File /\ key' \in File
      /\ fallback' \in [crt : SUBSET File, key : SUBSET File]
  BY FileKinds DEF Inv, TypeOK, Lose
<1> QED
  BY <1>1, <1>2, <1>3 DEF Inv, TypeOK, StageIsStored, Usable

LEMMA NextInv == Inv /\ [Next]_vars => Inv'
<1> SUFFICES ASSUME Inv, [Next]_vars PROVE Inv'
  OBVIOUS
<1>1. CASE UNCHANGED vars
  BY <1>1 DEF vars, disk, Inv, TypeOK, StageIsStored, FilesInOrder, ServedIsStored, Usable
<1> QED
  BY <1>1, StartInv, LoadInv, GenerateInv, OpenKeyInv, WriteKeyInv, OpenCrtInv, WriteCrtInv,
     ServeInv, ListenInv, DownInv, ListenerEndsInv, WritebackInv, HostFailureInv, LoseInv
  DEF Next, Boot

----------------------------------------------------------------------------
(* Every state is of its type. *)
THEOREM TypeCorrect == Spec => []TypeOK
<1>1. Inv => TypeOK
  BY DEF Inv, TypeOK
<1> QED
  BY <1>1, InitInv, NextInv, PTL DEF Spec

(* However boots are cut short, load_or_generate_persistent_certificate    *)
(* puts a certificate on disk only beside its own key.                     *)
THEOREM CertHasKey == Spec => []CertImpliesKey
<1>1. Inv => CertImpliesKey
  BY DEF Inv, FilesInOrder, CertImpliesKey
<1> QED
  BY <1>1, InitInv, NextInv, PTL DEF Spec

(* With a state directory, and nothing lost from it, clients that pin the  *)
(* certificate are never shown another one.                                *)
THEOREM PinIsKept == Spec => []PinSurvives
<1>1. Inv => PinSurvives
  <2> SUFFICES ASSUME Inv, config = "persistent", losses = 0
               PROVE  Cardinality(served) <= 1
    BY DEF PinSurvives
  <2>1. served = {} \/ served = {crt}
    BY DEF Inv, ServedIsStored
  <2>2. Cardinality({}) = 0 /\ Cardinality({crt}) = 1
    BY FS_EmptySet, FS_Singleton
  <2> QED
    BY <2>1, <2>2
<1> QED
  BY <1>1, InitInv, NextInv, PTL DEF Spec

(* What the listener serves is what is on disk for the next boot. *)
THEOREM ServedIsKept == Spec => ServesWhatItKeeps
<1>1. Inv /\ [Next]_vars =>
        [Listen /\ config = "persistent" /\ losses = 0 =>
            data = [crt |-> crt, key |-> key]]_vars
  BY DEF Inv, ServedIsStored, Listen
<1> QED
  BY <1>1, InitInv, NextInv, PTL DEF Spec, ServesWhatItKeeps
==============================================================================
