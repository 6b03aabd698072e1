------------------------------ MODULE CertStore ------------------------------
(***************************************************************************)
(* The boot of the process (main and acme.rs) and the certificate that the *)
(* Gemini listener keeps in $STATE_DIRECTORY: the two files, the listener  *)
(* that is spawned beside the HTTP server, and what may happen to process  *)
(* or host between any two of its steps.                                   *)
(*                                                                         *)
(* Gemini clients pin the first certificate they see of a host, so a pair, *)
(* once served, is meant to be served for good.                            *)
(***************************************************************************)
EXTENDS Naturals, FiniteSets

CONSTANTS MaxPairs,    \* bound: key pairs generated
          MaxCrashes,  \* bound: times the process is killed, or the host fails
          MaxLosses,   \* bound: times the content of a file is lost
          Missing,     \* a file that does not exist
          Torn         \* a file created or truncated, its content incomplete

ASSUME CertStoreAssumption ==
    /\ MaxPairs \in Nat /\ MaxCrashes \in Nat /\ MaxLosses \in Nat
    /\ Missing \notin Nat /\ Torn \notin Nat /\ Missing # Torn

(***************************************************************************)
(* A file is missing, torn, or holds its half of a generated pair; pairs   *)
(* are named by the order in which they are generated.                     *)
(***************************************************************************)
Pairs == 1 .. MaxPairs
File  == Pairs \cup {Missing, Torn}

VARIABLES
    config,    \* without Gemini, without a state directory, or with one
    pc,        \* how far the boot of the process has come
    gemini,    \* the spawned listener
    crt, key,  \* gemini.crt and gemini.key
    data,      \* CertificateData: the two halves the process has in memory
    pairs,     \* how many pairs have been generated
    fallback,  \* what a host failure may leave of a file not yet written back
    served,    \* every pair ever served
    crashes,   \* how often the process was killed or the host failed
    losses     \* how often the content of a file was lost

disk == <<crt, key, fallback>>
vars == <<config, pc, gemini, disk, data, pairs, served, crashes, losses>>

(* ENABLE_GEMINI and route_count, STATE_DIRECTORY. *)
Configs == {"off", "ephemeral", "persistent"}

NoData == [crt |-> Missing, key |-> Missing]

(* What build_tls_config accepts: a complete certificate, a complete key,  *)
(* and, by rustls' with_single_cert, a key that belongs to the certificate.*)
(* Faulty: neither is looked at. *)
AnyUsable(d) == TRUE
Usable(d) == d.crt = d.key /\ d.crt \in Pairs

----------------------------------------------------------------------------
Init ==
    /\ config \in Configs
    /\ pc = "down" /\ gemini = "none"
    /\ crt = Missing /\ key = Missing
    /\ fallback = [crt |-> {}, key |-> {}]
    /\ data = NoData
    /\ pairs = 0
    /\ served = {}
    /\ crashes = 0 /\ losses = 0

(* systemd starts the process, at boot, on deploy and after a failure; it  *)
(* binds the HTTP port and then does what its configuration asks for.      *)
Start ==
    /\ pc = "down"
    /\ pc' = CASE config = "off" -> "serving"
               [] config = "ephemeral" -> "generate"
               [] config = "persistent" -> "check"
    /\ UNCHANGED <<config, gemini, disk, data, pairs, served, crashes, losses>>

(* Faulty: a pair is never found; half of one is enough. *)
NeverFound == FALSE
HalfFound == crt # Missing \/ key # Missing

(* cert_path.exists() && key_path.exists() *)
Found == crt # Missing /\ key # Missing

(* Both files are loaded as they are. *)
Load ==
    /\ pc = "check" /\ Found
    /\ data' = [crt |-> crt, key |-> key]
    /\ pc' = "tls"
    /\ UNCHANGED <<config, gemini, disk, pairs, served, crashes, losses>>

(* generate_self_signed_certificate, to be stored or for this boot only *)
Generate ==
    /\ pc = "generate" \/ (pc = "check" /\ ~Found)
    /\ pairs < MaxPairs
    /\ pairs' = pairs + 1
    /\ data' = [crt |-> pairs + 1, key |-> pairs + 1]
    /\ pc' = IF pc = "check" THEN "openKey" ELSE "tls"
    /\ UNCHANGED <<config, gemini, disk, served, crashes, losses>>

(* write_private opens the key with create and truncate, then writes it. *)
OpenKey ==
    /\ pc = "openKey"
    /\ key' = Torn
    /\ fallback' = [fallback EXCEPT !.key = @ \cup {key, Torn}]
    /\ pc' = "writeKey"
    /\ UNCHANGED <<config, gemini, crt, data, pairs, served, crashes, losses>>

(* Faulty: the error of a short write is ignored. *)
MaybeWritten(half) == {Torn, half}

(* write_all writes all, or fails. *)
Written(half) == {half}

(* Faulty: the certificate is not written at all. *)
OnlyKey == "tls"
AfterKey == "openCrt"

WriteKey ==
    /\ pc = "writeKey"
    /\ key' \in Written(data.key)
    /\ pc' = AfterKey
    /\ UNCHANGED <<config, gemini, crt, fallback, data, pairs, served, crashes, losses>>

(* fs::write creates or truncates the certificate, then writes it. *)
OpenCrt ==
    /\ pc = "openCrt"
    /\ crt' = Torn
    /\ fallback' = [fallback EXCEPT !.crt = @ \cup {crt, Torn}]
    /\ pc' = "writeCrt"
    /\ UNCHANGED <<config, gemini, key, data, pairs, served, crashes, losses>>

WriteCrt ==
    /\ pc = "writeCrt"
    /\ crt' \in Written(data.crt)
    /\ pc' = "tls"
    /\ UNCHANGED <<config, gemini, key, fallback, data, pairs, served, crashes, losses>>

(* build_tls_config succeeds, the listener is spawned and announced, and   *)
(* main awaits the HTTP server.                                            *)
Serve ==
    /\ pc = "tls" /\ Usable(data)
    /\ pc' = "serving"
    /\ gemini' = "spawned"
    /\ UNCHANGED <<config, disk, data, pairs, served, crashes, losses>>

(* build_tls_config fails: main's expect panics, and with panic = "abort"  *)
(* the process, its HTTP server included, is gone.                         *)
Panic ==
    /\ pc = "tls" /\ ~Usable(data)
    /\ pc' = "down"
    /\ data' = NoData
    /\ UNCHANGED <<config, gemini, disk, pairs, served, crashes, losses>>

(* The spawned task binds port 1965: from now on peers see the pair. *)
Listen ==
    /\ gemini = "spawned"
    /\ gemini' = "listening"
    /\ served' = served \cup {data.crt}
    /\ UNCHANGED <<config, pc, disk, data, pairs, crashes, losses>>

(* Its bind, or an accept, fails: the task logs it and ends. *)
ListenerEnds ==
    /\ gemini \in {"spawned", "listening"}
    /\ gemini' = "ended"
    /\ UNCHANGED <<config, pc, disk, data, pairs, served, crashes, losses>>

(* The process is stopped, killed, or panics on an I/O error (a failed     *)
(* bind of the HTTP port, open or write), at any point.                    *)
Crash ==
    /\ pc # "down"
    /\ crashes < MaxCrashes
    /\ crashes' = crashes + 1
    /\ pc' = "down" /\ gemini' = "none"
    /\ data' = NoData
    /\ UNCHANGED <<config, disk, pairs, served, losses>>

----------------------------------------------------------------------------
(* The file system. Nothing is fsynced: until the kernel writes a file     *)
(* back, a host failure may leave it as it was before it was opened, or    *)
(* empty.                                                                  *)

Writeback ==
    /\ fallback' = [crt |-> {}, key |-> {}]
    /\ fallback' # fallback
    /\ UNCHANGED <<config, pc, gemini, crt, key, data, pairs, served, crashes, losses>>

HostFailure ==
    /\ crashes < MaxCrashes
    /\ crashes' = crashes + 1
    /\ pc' = "down" /\ gemini' = "none"
    /\ data' = NoData
    /\ crt' \in {crt} \cup fallback.crt
    /\ key' \in {key} \cup fallback.key
    /\ fallback' = [crt |-> {}, key |-> {}]
    /\ losses' = IF <<crt', key'>> = <<crt, key>> THEN losses ELSE losses + 1
    /\ losses' <= MaxLosses
    /\ UNCHANGED <<config, pairs, served>>

(* A file is removed by hand, or left out of a backup that is restored. *)
Lose ==
    /\ losses < MaxLosses
    /\ losses' = losses + 1
    /\ \/ crt # Missing /\ crt' = Missing /\ UNCHANGED key
          /\ fallback' = [fallback EXCEPT !.crt = {}]
       \/ key # Missing /\ key' = Missing /\ UNCHANGED crt
          /\ fallback' = [fallback EXCEPT !.key = {}]
    /\ UNCHANGED <<config, pc, gemini, data, pairs, served, crashes>>

----------------------------------------------------------------------------
Boot ==
    \/ Start \/ Load \/ Generate
    \/ OpenKey \/ WriteKey \/ OpenCrt \/ WriteCrt
    \/ Serve \/ Panic \/ Listen

Next == Boot \/ ListenerEnds \/ Crash \/ Writeback \/ HostFailure \/ Lose

Spec == Init /\ [][Next]_vars

(* The process runs, and systemd restarts it (Restart=on-failure). Crashes *)
(* and losses are not assumed to happen, and the bounds make them stop.    *)
FairSpec == Spec /\ WF_vars(Boot)

----------------------------------------------------------------------------
TypeOK ==
    /\ config \in Configs
    /\ gemini \in {"none", "spawned", "listening", "ended"}
    /\ pc \in {"down", "generate", "check", "openKey", "writeKey", "openCrt", "writeCrt",
               "tls", "serving"}
    /\ crt \in File /\ key \in File
    /\ data \in [crt : File, key : File]
    /\ pairs \in 0 .. MaxPairs
    /\ fallback \in [crt : SUBSET File, key : SUBSET File]
    /\ served \subseteq Pairs
    /\ crashes \in 0 .. MaxCrashes
    /\ losses \in 0 .. MaxLosses

(* The pin survives: with a state directory, and as long as no content is  *)
(* lost, one certificate is served for good, whatever crashes and restarts *)
(* hit the boots before, between and after.                                *)
PinSurvives ==
    config = "persistent" /\ losses = 0 => Cardinality(served) <= 1

(* A certificate is on disk only after its key: as long as no content is   *)
(* lost, a complete certificate has its own complete key beside it, even   *)
(* in the middle of a boot and whatever boot was cut short before.         *)
CertImpliesKey == crt \in Pairs /\ losses = 0 => key = crt

(* What a client is served is what the disk holds, so that the next boot   *)
(* serves it again: the process never serves a pair of which a half has    *)
(* not been written.                                                       *)
ServesWhatItKeeps ==
    [][Listen /\ config = "persistent" /\ losses = 0 =>
          data = [crt |-> crt, key |-> key]]_vars

(* A boot that finds a file missing, or a pair, ends up serving, unless it *)
(* is disturbed again.                                                     *)
Bootable == crt = Missing \/ key = Missing \/ Usable([crt |-> crt, key |-> key])
BootsWhenBootable ==
    \A c \in 0 .. MaxCrashes, l \in 0 .. MaxLosses :
        (pc = "down" /\ Bootable /\ pairs < MaxPairs /\ crashes = c /\ losses = l)
            ~> (pc = "serving" \/ crashes > c \/ losses > l)

(* "Load a cert+key PEM pair from dir, generating and persisting a fresh   *)
(* one if either file is missing": the two files a boot loads are a pair.  *)
LoadedIsPair == pc = "tls" => Usable(data)
=============================================================================
