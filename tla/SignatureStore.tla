--------------------------- MODULE SignatureStore ----------------------------
(***************************************************************************)
(* The sealed signature bundle.  Scanners load it, and import it from the  *)
(* plaintext signatures when there is none (core/src/signatures/store.rs); *)
(* the packaging tool seals it anew (tools/seal-bundle/src/main.rs).  Both *)
(* write a temporary file beside it, sync it and rename it into place.     *)
(* Any number of these processes run at once, die, and are followed by     *)
(* others with the same process id; the machine may lose its power.        *)
(***************************************************************************)
EXTENDS Integers, FiniteSets, Functions

CONSTANTS
    Procs,       \* processes that run at once
    Pids,        \* process ids
    Versions,    \* versions of the plaintext signatures
    NoFile,      \* stands for a file that is not there
    MaxCalls,    \* bound: loads and seals begun
    MaxMishaps   \* bound: processes that die, edits, damages, files that stay

ASSUME ProcsAssumption == IsFiniteSet(Procs) /\ Cardinality(Procs) <= Cardinality(Pids)
ASSUME BoundsAssumption == MaxCalls \in Nat /\ MaxMishaps \in Nat
ASSUME NamesAssumption == "bad" \notin Versions /\ 0 \notin Pids

VARIABLES
    bundle,    \* bundle.psenc, or NoFile
    temps,     \* the temporary files: a function on their names
    plain,     \* the plaintext: its hashes.txt and its rules
    proc,      \* the processes: per process, a ProcessType
    count      \* calls begun, and mishaps of each kind

disk == <<bundle, temps>>
vars == <<disk, plain, proc, count>>

\* A plaintext file is a version, or "bad": missing, empty or not compiling.
Plain      == Versions \cup {"bad"}
Signatures == [hashes : Plain, rules : Plain]
Unreadable == [hashes |-> "bad", rules |-> "bad"]
\* A sealed file holds signatures, all of them or a part that does not decrypt;
\* what is not synced may be lost with the power.
Sealed     == [data : Signatures, whole : BOOLEAN, synced : BOOLEAN]

ASSUME NoFileAssumption == NoFile \notin Signatures \cup Sealed

Steps == {"dead", "idle", "load", "hashes", "rules", "create", "write", "sync",
          "rename", "refused", "discard"}
NoName == <<>>
ProcessType ==
    [pc      : Steps,
     tool    : {"store", "seal"},              \* load_or_import, or seal-bundle
     pid     : Pids \cup {0},
     counter : Nat,                            \* BUNDLE_TEMP_COUNTER
     mem     : Signatures,                     \* the signatures it has read
     temp    : {NoName} \cup (Pids \X Int),    \* the name of its temporary file
     outcome : {"none", "Ok", "Err"},          \* how its last call ended
     found   : BOOLEAN]                        \* its call found a bundle when it began

\* Names: .powerscanner-bundle-<pid>-<counter>.tmp and .bundle.psenc.<pid>.tmp
TempName(p) == <<proc[p].pid, IF proc[p].tool = "store" THEN proc[p].counter ELSE -1>>

NoProcess == [pc |-> "dead", tool |-> "store", pid |-> 0, counter |-> 0, mem |-> Unreadable,
              temp |-> NoName, outcome |-> "none", found |-> FALSE]

Init ==
    /\ bundle = NoFile
    /\ temps = <<>>
    /\ plain \in {[hashes |-> v, rules |-> v] : v \in Plain}
    /\ proc = [p \in Procs |-> NoProcess]
    /\ count = [calls |-> 0, crashes |-> 0, edits |-> 0, damages |-> 0, leaks |-> 0]

\* A mishap: a process dies with a temporary file, the plaintext is edited, the
\* bundle is damaged or removed, a temporary file cannot be removed.
Mishaps == count.crashes + count.edits + count.damages + count.leaks
Mishap(kind, n) == /\ Mishaps + n <= MaxMishaps
                   /\ count' = [count EXCEPT ![kind] = @ + n]

At(p, step) == proc[p].pc = step
Goto(p, step) == proc' = [proc EXCEPT ![p].pc = step]

\* The call returns.
Return(p, result, data) ==
    proc' = [proc EXCEPT ![p] = [@ EXCEPT !.pc = "idle", !.outcome = result, !.found = FALSE,
                                          !.mem = data, !.temp = NoName]]
ReturnErr(p) == Return(p, "Err", Unreadable)

-----------------------------------------------------------------------------
(***************************************************************************)
(* Calls                                                                   *)
(***************************************************************************)
\* A process starts, with an id no other has.
Start(p) ==
    /\ At(p, "dead")
    /\ \E n \in Pids \ {proc[q].pid : q \in Procs}, t \in {"store", "seal"} :
          proc' = [proc EXCEPT ![p] = [NoProcess EXCEPT !.pc = "idle", !.pid = n, !.tool = t]]
    /\ UNCHANGED <<disk, plain, count>>

\* load_or_import loads the bundle if there is one; seal-bundle always seals.
Call(p) ==
    /\ At(p, "idle")
    /\ count.calls < MaxCalls
    /\ count' = [count EXCEPT !.calls = @ + 1]
    /\ proc' = [proc EXCEPT ![p] =
                  [@ EXCEPT !.pc = IF proc[p].tool = "store" /\ bundle # NoFile
                                   THEN "load" ELSE "hashes",
                            !.outcome = "none", !.mem = Unreadable, !.found = bundle # NoFile]]
    /\ UNCHANGED <<disk, plain>>

\* Mutant: a bundle that does not open is imported again.
LoadSealed_Fallback(p) ==
    /\ At(p, "load")
    /\ IF bundle # NoFile /\ bundle.whole THEN Return(p, "Ok", bundle.data) ELSE Goto(p, "hashes")
    /\ UNCHANGED <<disk, plain, count>>

\* load_sealed_bundle: read, decrypt, parse.  Reading may fail.
LoadSealed(p) ==
    /\ At(p, "load")
    /\ \/ bundle # NoFile /\ bundle.whole /\ Return(p, "Ok", bundle.data)
       \/ ReturnErr(p)
    /\ UNCHANGED <<disk, plain, count>>

\* import_plaintext, collect_bundle: hashes.txt, and then the rules, compiled.
ReadHashes(p) ==
    /\ At(p, "hashes")
    /\ IF plain.hashes = "bad" THEN ReturnErr(p)
       ELSE proc' = [proc EXCEPT ![p].mem.hashes = plain.hashes, ![p].pc = "rules"]
    /\ UNCHANGED <<disk, plain, count>>

ReadRules(p) ==
    /\ At(p, "rules")
    /\ IF plain.rules = "bad" THEN ReturnErr(p)
       ELSE proc' = [proc EXCEPT ![p].mem.rules = plain.rules, ![p].pc = "create"]
    /\ UNCHANGED <<disk, plain, count>>

-----------------------------------------------------------------------------
(***************************************************************************)
(* The temporary file                                                      *)
(***************************************************************************)
\* Mutant: the counter is only advanced once a file was created.
NextCounter_OnSuccess(p) == proc[p].counter + (IF TempName(p) \in DOMAIN temps THEN 0 ELSE 1)
NextCounter(p) == IF proc[p].tool = "store" THEN proc[p].counter + 1 ELSE proc[p].counter

\* create_new: a name that is taken is never reused.  The store takes the next
\* number and tries again, the tool gives up.  Creating the file may fail.
CreateTemp(p) ==
    LET name == TempName(p) IN
    /\ At(p, "create")
    /\ \/ /\ name \notin DOMAIN temps
          /\ temps' = [n \in DOMAIN temps \cup {name} |->
                          IF n = name THEN [data |-> proc[p].mem, whole |-> FALSE, synced |-> FALSE]
                          ELSE temps[n]]
          /\ proc' = [proc EXCEPT ![p] = [@ EXCEPT !.pc = "write", !.temp = name,
                                                   !.counter = NextCounter(p)]]
       \/ /\ name \in DOMAIN temps /\ proc[p].tool = "store"
          /\ proc' = [proc EXCEPT ![p].counter = NextCounter(p)]
          /\ UNCHANGED temps
       \/ /\ name \notin DOMAIN temps \/ proc[p].tool = "seal"
          /\ ReturnErr(p)
          /\ UNCHANGED temps
    /\ UNCHANGED <<bundle, plain, count>>

WriteTemp(p) ==
    /\ At(p, "write")
    /\ Goto(p, "sync")
    /\ temps' = [temps EXCEPT ![proc[p].temp].whole = TRUE]
    /\ UNCHANGED <<bundle, plain, count>>

\* Mutant: the file is closed, not synced.
SyncTemp_Skipped(p) ==
    /\ At(p, "sync")
    /\ Goto(p, "rename")
    /\ UNCHANGED <<disk, plain, count>>
SyncTemp(p) ==
    /\ At(p, "sync")
    /\ Goto(p, "rename")
    /\ temps' = [temps EXCEPT ![proc[p].temp].synced = TRUE]
    /\ UNCHANGED <<bundle, plain, count>>

\* Writing or syncing fails: the file is removed and the call fails.
Fail(p) ==
    /\ At(p, "write") \/ At(p, "sync")
    /\ Goto(p, "discard")
    /\ UNCHANGED <<disk, plain, count>>

\* The rename replaces whatever bundle is there (PersistOutcome::Written).
Publish(p) ==
    /\ At(p, "rename")
    /\ Return(p, "Ok", proc[p].mem)
    /\ bundle' = temps[proc[p].temp]
    /\ temps' = Restrict(temps, DOMAIN temps \ {proc[p].temp})
    /\ UNCHANGED <<plain, count>>

\* Another program has the bundle open: it cannot be replaced.
RenameFails(p) ==
    /\ At(p, "rename")
    /\ Goto(p, "refused")
    /\ UNCHANGED <<disk, plain, count>>

\* Mutant: the temporary file is left behind when the call fails.
RemoveTemp_Kept(p) == UNCHANGED <<temps, count>>
RemoveTemp(p) == temps' = Restrict(temps, DOMAIN temps \ {proc[p].temp}) /\ UNCHANGED count

\* It cannot be removed, and stays.
LeakTemp(p) == Mishap("leaks", 1) /\ UNCHANGED temps

Discard(p) ==
    /\ At(p, "discard")
    /\ ReturnErr(p)
    /\ RemoveTemp(p) \/ LeakTemp(p)
    /\ UNCHANGED <<bundle, plain>>

\* Mutant: the call goes on with the bundle that is there and keeps its handle.
ToExisting_Held(p) == Goto(p, "load")
ToExisting(p) == proc' = [proc EXCEPT ![p].pc = "load", ![p].temp = NoName]

\* After a refused rename the store looks whether another process has published
\* a bundle meanwhile (PersistOutcome::Existing).  It gives up if there is none or
\* its own file could not be removed; the tool always does.
Refused(p) ==
    /\ At(p, "refused")
    /\ \/ /\ RemoveTemp(p)
          /\ IF proc[p].tool = "store" /\ bundle # NoFile THEN ToExisting(p) ELSE ReturnErr(p)
       \/ LeakTemp(p) /\ ReturnErr(p)
    /\ UNCHANGED <<bundle, plain>>

Step(p) == \/ LoadSealed(p) \/ ReadHashes(p) \/ ReadRules(p) \/ CreateTemp(p)
           \/ WriteTemp(p) \/ SyncTemp(p) \/ Fail(p)
           \/ Publish(p) \/ RenameFails(p) \/ Discard(p) \/ Refused(p)

-----------------------------------------------------------------------------
(***************************************************************************)
(* What happens to the processes and the files from outside                *)
(***************************************************************************)
Working(ps) == {p \in ps : proc[p].temp # NoName}

Die(p) ==
    /\ ~At(p, "dead")
    /\ Mishap("crashes", Cardinality(Working({p})))
    /\ proc' = [proc EXCEPT ![p] = NoProcess]
    /\ UNCHANGED <<disk, plain>>

\* All processes die, and what was not synced is damaged.  A rename that took
\* place stays: the file system journals it.
PowerLoss ==
    LET lose(file) == [file EXCEPT !.whole = @ /\ file.synced] IN
    /\ Mishap("crashes", Cardinality(Working(Procs)))
    /\ bundle' = IF bundle = NoFile THEN NoFile ELSE lose(bundle)
    /\ temps' = [n \in DOMAIN temps |-> lose(temps[n])]
    /\ proc' = [p \in Procs |-> NoProcess]
    /\ UNCHANGED plain

EditPlain ==
    /\ Mishap("edits", 1)
    /\ \/ \E h \in Plain \ {plain.hashes} : plain' = [plain EXCEPT !.hashes = h]
       \/ \E r \in Plain \ {plain.rules} : plain' = [plain EXCEPT !.rules = r]
    /\ UNCHANGED <<disk, proc>>

DamageBundle ==
    /\ Mishap("damages", 1)
    /\ bundle # NoFile
    /\ bundle' \in {[bundle EXCEPT !.whole = FALSE], NoFile}
    /\ UNCHANGED <<temps, plain, proc>>

-----------------------------------------------------------------------------
Next ==
    \/ \E p \in Procs : Start(p) \/ Call(p) \/ Step(p) \/ Die(p)
    \/ PowerLoss \/ EditPlain \/ DamageBundle

\* A call that has begun goes on.
Fairness == \A p \in Procs : WF_vars(Step(p))

Spec     == Init /\ [][Next]_vars
FairSpec == Spec /\ Fairness
-----------------------------------------------------------------------------
(***************************************************************************)
(* Properties                                                              *)
(***************************************************************************)
\* Every variable has its type; a process holds a temporary file exactly between
\* its creation and its renaming or removal.
TypeOK ==
    /\ bundle \in Sealed \cup {NoFile}
    /\ DOMAIN temps \subseteq Pids \X Int
    /\ \A n \in DOMAIN temps : temps[n] \in Sealed
    /\ plain \in Signatures
    /\ DOMAIN proc = Procs
    /\ \A p \in Procs :
          /\ proc[p] \in ProcessType
          /\ IF proc[p].pc \in {"write", "sync", "rename", "refused", "discard"}
             THEN proc[p].temp \in DOMAIN temps ELSE proc[p].temp = NoName
    /\ \A k \in DOMAIN count : count[k] \in Nat
    /\ count.calls <= MaxCalls /\ Mishaps <= MaxMishaps

\* At every moment, through crashes, power losses and racing processes, the
\* bundle is whole unless it was damaged from outside, and what it holds was
\* compiled: a partial temporary file never becomes the bundle.
BundleIsWhole ==
    bundle # NoFile /\ count.damages = 0 =>
        bundle.whole /\ bundle.data.hashes # "bad" /\ bundle.data.rules # "bad"

\* Temporary files do not pile up: those that no process works on were left by
\* one that died or could not remove it.
TempsAreRemoved ==
    Cardinality(DOMAIN temps \ {proc[p].temp : p \in Procs}) <= count.crashes + count.leaks

\* The store is one register (AtomicBundle): a call that returns Ok has read or
\* replaced the bundle at one moment and returns what it then was; a damaged
\* bundle is an error and is never papered over by a call that found it there;
\* what fails, dies or loses its power leaves the bundle as it is.
Register == INSTANCE AtomicBundle WITH
    Data    <- [hashes : Versions, rules : Versions],
    Nothing <- NoFile,
    Damaged <- Unreadable,
    value   <- IF bundle = NoFile THEN NoFile ELSE IF bundle.whole THEN bundle.data ELSE Unreadable,
    sealers <- {p \in Procs : proc[p].tool = "seal"},
    call    <- [p \in Procs |-> IF proc[p].pc \in {"dead", "idle"} THEN "none"
                                ELSE IF proc[p].tool = "seal" \/ ~proc[p].found
                                     THEN "store" ELSE "load"],
    got     <- [p \in Procs |-> IF proc[p].outcome = "Ok" THEN proc[p].mem ELSE NoFile],
    damages <- count.damages

IsAtomic == Register!Spec

\* Every call returns: the search for a free name ends, whatever has been left.
CallsReturn ==
    \A p \in Procs : proc[p].pc \notin {"dead", "idle"} ~> proc[p].pc \in {"dead", "idle"}
=============================================================================
