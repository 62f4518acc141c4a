-------------------------- MODULE MCSignatureStore ---------------------------
(* Small instances of SignatureStore. *)
EXTENDS SignatureStore
=============================================================================
