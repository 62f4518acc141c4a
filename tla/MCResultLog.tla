----------------------------- MODULE MCResultLog -----------------------------
(* Small instances of ResultLog. *)
EXTENDS ResultLog
=============================================================================
