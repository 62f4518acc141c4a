---------------------------- MODULE AtomicBundle ----------------------------
(***************************************************************************)
(* What the signature store promises to those who use it, without files:   *)
(* one register.  A call that succeeds has read it or replaced it at one   *)
(* moment, a call that fails or dies has not touched it, and a crash or a  *)
(* power loss changes nothing.  SignatureStore implements this.            *)
(***************************************************************************)
EXTENDS Naturals

CONSTANTS
    Procs,      \* the processes
    Data,       \* signatures that compile
    Nothing,    \* stands for no value
    Damaged     \* stands for a value that was damaged from outside

VARIABLES
    value,      \* the register
    sealers,    \* the processes that seal; the others load, or import what is missing
    call,       \* per process: "none" | "load" | "store", a call that may replace
    got,        \* per process, the signatures its last call returned, or Nothing
    damages     \* how often the register was damaged or emptied from outside

vars == <<value, sealers, call, got, damages>>

Init ==
    /\ value = Nothing
    /\ sealers = {}
    /\ call = [p \in Procs |-> "none"]
    /\ got = [p \in Procs |-> Nothing]
    /\ damages = 0

Start(p) ==
    /\ call[p] = "none"
    /\ sealers' \in {sealers \cup {p}, sealers \ {p}}
    /\ got' = [got EXCEPT ![p] = Nothing]
    /\ UNCHANGED <<value, call, damages>>

\* Only a sealer, and a loader that found nothing, may replace the value.
Begin(p) ==
    /\ call[p] = "none"
    /\ call' = [call EXCEPT ![p] = IF p \in sealers \/ value = Nothing THEN "store" ELSE "load"]
    /\ got' = [got EXCEPT ![p] = Nothing]
    /\ UNCHANGED <<value, sealers, damages>>

Return(p) ==
    /\ call[p] # "none"
    /\ call' = [call EXCEPT ![p] = "none"]
    /\ got' = [got EXCEPT ![p] = value']
    /\ UNCHANGED <<sealers, damages>>

Load(p)  == Return(p) /\ value \in Data /\ UNCHANGED value
Store(p) == Return(p) /\ call[p] = "store" /\ value' \in Data

Fail(p) ==
    /\ call' = [call EXCEPT ![p] = "none"]
    /\ UNCHANGED <<value, sealers, got, damages>>

\* Processes die, in the middle of a call or not.
Crash ==
    /\ \E ps \in SUBSET Procs :
          /\ call' = [p \in Procs |-> IF p \in ps THEN "none" ELSE call[p]]
          /\ got' = [p \in Procs |-> IF p \in ps THEN Nothing ELSE got[p]]
          /\ sealers' = sealers \ ps
    /\ UNCHANGED <<value, damages>>

Damage ==
    /\ damages' = damages + 1
    /\ value # Nothing
    /\ value' \in {Nothing, Damaged}
    /\ UNCHANGED <<sealers, call, got>>

Next == (\E p \in Procs : Start(p) \/ Begin(p) \/ Load(p) \/ Store(p) \/ Fail(p)) \/ Crash \/ Damage

Spec == Init /\ [][Next]_vars
=============================================================================
