----------------------- MODULE ScanPipelineRefinement -----------------------
(***************************************************************************)
(* The window, the channel, the worker and the pool implement ScanSession: *)
(* what the user is told of a scan is its verdicts, each once, and an end  *)
(* that agrees with them.                                                  *)
(***************************************************************************)
EXTENDS ScanPipeline

StatusOf ==
    CASE phase.kind = "Idle"     -> "idle"
      [] phase.kind = "Scanning" -> "scanning"
      [] phase.kind = "Done"     -> "done"
      [] phase.kind = "Failed"   -> "failed"

TotalsOf ==
    IF phase.kind = "Done"
      THEN [scanned |-> phase.scanned, malicious |-> phase.malicious, errors |-> phase.errors]
      ELSE [scanned |-> 0, malicious |-> 0, errors |-> 0]

Session == INSTANCE ScanSession WITH
    Files    <- Entries,
    open     <- (ui # "closed"),
    status   <- StatusOf,
    scope    <- found,
    reported <- [e \in shown |-> verdict[e]],
    logged   <- logged,
    totals   <- TotalsOf

\* Every behaviour of the pipeline is one of the session it promises.
ImplementsSession == Session!Spec
=============================================================================
