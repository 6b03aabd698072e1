---------------------------- MODULE MCCertStore ----------------------------
(* CertStore with up to three pairs, two crashes or host failures and two  *)
(* removals: enough for a crash in the middle of a regeneration that       *)
(* itself follows a removal.                                               *)
EXTENDS CertStore
=============================================================================
