----------------------------- MODULE ScanSession -----------------------------
(***************************************************************************)
(* What the PowerScanner window promises of a scan, without threads,       *)
(* channel or frames.  A scan covers a set of files; each is reported once *)
(* with its verdict and its result is put in the log; the scan ends as     *)
(* done, with the totals of the verdicts it reported and every result in   *)
(* the log, or it ends as failed.  An end is final.                        *)
(* ScanPipelineRefinement shows that the window and its threads implement  *)
(* this.                                                                   *)
(***************************************************************************)
EXTENDS Integers, FiniteSets

CONSTANT Files

VARIABLES
    open,      \* the window is open
    status,    \* "idle" | "scanning" | "done" | "failed"
    scope,     \* the files of this scan
    reported,  \* the verdicts reported so far: a function on a subset of scope
    logged,    \* results of this scan in the log
    totals     \* the totals shown for a scan that is done

sessionVars == <<open, status, scope, reported, logged, totals>>

NoTotals == [scanned |-> 0, malicious |-> 0, errors |-> 0]

Totals(r) ==
    LET Of(v) == Cardinality({f \in DOMAIN r : r[f] = v})
    IN  [scanned |-> Cardinality(DOMAIN r), malicious |-> Of("Malicious"),
         errors |-> Of("Error")]

Init ==
    /\ open = TRUE
    /\ status = "idle"
    /\ scope = {}
    /\ reported = [f \in {} |-> "Clean"]
    /\ logged = 0
    /\ totals = NoTotals

Start ==
    /\ open
    /\ status # "scanning"
    /\ status' = "scanning"
    /\ scope' = {}
    /\ reported' = [f \in {} |-> "Clean"]
    /\ logged' = 0
    /\ totals' = NoTotals
    /\ UNCHANGED open

Collect ==
    /\ status = "scanning"
    /\ scope = {}
    /\ scope' \in SUBSET Files
    /\ UNCHANGED <<open, status, reported, logged, totals>>

Report ==
    /\ open
    /\ status = "scanning"
    /\ \E f \in scope \ DOMAIN reported, v \in {"Clean", "Malicious", "Error"} :
         reported' = [x \in DOMAIN reported \cup {f} |-> IF x = f THEN v ELSE reported[x]]
    /\ UNCHANGED <<open, status, scope, logged, totals>>

Log ==
    /\ status = "scanning"
    /\ logged < Cardinality(scope)
    /\ logged' = logged + 1
    /\ UNCHANGED <<open, status, scope, reported, totals>>

Complete ==
    /\ open
    /\ status = "scanning"
    /\ DOMAIN reported = scope
    /\ logged = Cardinality(scope)
    /\ status' = "done"
    /\ totals' = Totals(reported)
    /\ UNCHANGED <<open, scope, reported, logged>>

Fail ==
    /\ open
    /\ status = "scanning"
    /\ status' = "failed"
    /\ UNCHANGED <<open, scope, reported, logged, totals>>

Close ==
    /\ open
    /\ open' = FALSE
    /\ UNCHANGED <<status, scope, reported, logged, totals>>

Next == Start \/ Collect \/ Report \/ Log \/ Complete \/ Fail \/ Close

Safety == Init /\ [][Next]_sessionVars

\* A scan ends, done or failed, while the window is open.
Spec == Safety /\ WF_sessionVars(Complete \/ Fail)
=============================================================================
