------------------------------ MODULE ResultLog ------------------------------
(***************************************************************************)
(* The signed result log (core/src/sink/jsonl.rs): any number of sinks, in *)
(* one process or several, append records to one file under an exclusive   *)
(* lock, and a verifier reads it under a shared one.  A write can stop half*)
(* way: the process dies or the write fails.  What was appended stays, the *)
(* lock goes with the handle, and the next record follows the torn one.    *)
(***************************************************************************)
EXTENDS Integers, Sequences, FiniteSets

CONSTANTS
    Sinks,       \* open JsonlSinks
    MaxRecords,  \* bound: records begun
    MaxTears,    \* bound: writes that fail or die half way
    MaxVerifies  \* bound: runs of the verifier

ASSUME SinksAssumption == IsFiniteSet(Sinks)
ASSUME MaxAssumption   == MaxRecords \in Nat /\ MaxTears \in Nat /\ MaxVerifies \in Nat

VARIABLES
    file,      \* the log: a sequence of the pieces appended to it
    pc,        \* per sink: "closed" | "idle" | "lock" | "write" | "failed"
    rec,       \* per sink: the record it writes
    part,      \* per sink: the pieces of that record written
    begun,     \* records begun so far
    acked,     \* records whose write returned Ok
    tears,     \* writes that stopped half way so far
    vpc,       \* the verifier: "idle" | "read"
    pos,       \* where it reads
    verified,  \* the records it has accepted
    runs,      \* its runs so far
    outcome,   \* what its last run returned: "none" | "Ok" | "Config" | "Tamper"
    due        \* the records acknowledged when it took the lock

sinkVars     == <<pc, rec, part, begun, acked, tears>>
verifierVars == <<vpc, pos, verified, runs, outcome, due>>
vars         == <<file, sinkVars, verifierVars>>

Records == 1..MaxRecords

\* One line, {"data":<result>,"hmac":"<mac>"}\n, in the pieces a short write can
\* leave: DATA_PREFIX, the serialized result, the mac with its envelope, newline.
LineParts_NoNewline == <<"open", "body", "mac">>      \* Mutant: lines are not ended.
\* Mutant: a second newline ends the line.
LineParts_Blank == <<"open", "body", "mac", "newline", "newline">>
LineParts == <<"open", "body", "mac", "newline">>

Pieces == [rec : Records, part : {"open", "body", "mac", "newline"}]

-----------------------------------------------------------------------------
(***************************************************************************)
(* The file lock                                                           *)
(***************************************************************************)
Writing(s) == pc[s] \in {"write", "failed"}
Reading    == vpc = "read"

\* Each handle has its own lock; a dead or dropped one has none.
ExclusiveFree_Unlocked == TRUE    \* Mutant: write() appends without the lock.
ExclusiveFree == ~Reading /\ \A s \in Sinks : ~Writing(s)

SharedFree_Unlocked == TRUE       \* Mutant: verify_file() reads without the lock.
SharedFree    == \A s \in Sinks : ~Writing(s)

-----------------------------------------------------------------------------
Init ==
    /\ file = <<>>
    /\ pc = [s \in Sinks |-> "closed"]
    /\ rec = [s \in Sinks |-> 0]
    /\ part = [s \in Sinks |-> 0]
    /\ begun = 0
    /\ acked = {}
    /\ tears = 0
    /\ vpc = "idle"
    /\ pos = 1
    /\ verified = {}
    /\ runs = 0
    /\ outcome = "none"
    /\ due = {}

-----------------------------------------------------------------------------
(***************************************************************************)
(* Sinks                                                                   *)
(***************************************************************************)
Goto(s, from, to) == pc[s] = from /\ pc' = [pc EXCEPT ![s] = to]

\* create: opens the file to append, creating it if it is missing.
Create(s) ==
    /\ Goto(s, "closed", "idle")
    /\ UNCHANGED <<file, rec, part, begun, acked, tears, verifierVars>>

\* write: the record is serialized and signed.
Write(s) ==
    /\ begun < MaxRecords
    /\ Goto(s, "idle", "lock")
    /\ begun' = begun + 1
    /\ rec' = [rec EXCEPT ![s] = begun + 1]
    /\ part' = [part EXCEPT ![s] = 0]
    /\ UNCHANGED <<file, acked, tears, verifierVars>>

LockExclusive(s) ==
    /\ ExclusiveFree
    /\ Goto(s, "lock", "write")
    /\ UNCHANGED <<file, rec, part, begun, acked, tears, verifierVars>>

\* write_all: one more piece reaches the end of the file.
Append1(s) ==
    /\ pc[s] = "write"
    /\ part[s] < Len(LineParts)
    /\ file' = Append(file, [rec |-> rec[s], part |-> LineParts[part[s] + 1]])
    /\ part' = [part EXCEPT ![s] = @ + 1]
    /\ UNCHANGED <<pc, rec, begun, acked, tears, verifierVars>>

\* Half a line stays behind when a write stops after its first piece.
Torn(s) == part[s] > 0 /\ part[s] < Len(LineParts)
CountTear(s) ==
    /\ Torn(s) => tears < MaxTears
    /\ tears' = tears + (IF Torn(s) THEN 1 ELSE 0)

\* write_all fails half way (the disk is full).
WriteFails(s) ==
    /\ Goto(s, "write", "failed")
    /\ part[s] < Len(LineParts)
    /\ CountTear(s)
    /\ UNCHANGED <<file, rec, part, begun, acked, verifierVars>>

\* All is written and flushed; unlock, and write returns Ok.
Unlock(s) ==
    /\ part[s] = Len(LineParts)
    /\ Goto(s, "write", "idle")
    /\ acked' = acked \cup {rec[s]}
    /\ UNCHANGED <<file, rec, part, begun, tears, verifierVars>>

\* Mutant: only the unlock's result is returned.
UnlockFailed_Ok(s) ==
    /\ Goto(s, "failed", "idle")
    /\ acked' = acked \cup {rec[s]}
    /\ UNCHANGED <<file, rec, part, begun, tears, verifierVars>>

\* Mutant: the error returns before the unlock, and the sink lives on.
UnlockFailed_Kept(s) ==
    /\ Goto(s, "failed", "failed")
    /\ UNCHANGED <<file, rec, part, begun, acked, tears, verifierVars>>

\* The lock is released all the same, write returns Err, and persist_results
\* gives up its sink.
UnlockFailed(s) ==
    /\ Goto(s, "failed", "closed")
    /\ UNCHANGED <<file, rec, part, begun, acked, tears, verifierVars>>

\* lock_exclusive fails, or a sink that is idle is dropped.
Drop(s) ==
    /\ pc[s] \in {"idle", "lock"}
    /\ pc' = [pc EXCEPT ![s] = "closed"]
    /\ UNCHANGED <<file, rec, part, begun, acked, tears, verifierVars>>

\* The process dies while the sink writes, or after the last piece.
Die(s) ==
    /\ Goto(s, "write", "closed")
    /\ CountTear(s)
    /\ UNCHANGED <<file, rec, part, begun, acked, verifierVars>>

Sink(s) == \/ Create(s) \/ Write(s) \/ LockExclusive(s) \/ Append1(s) \/ WriteFails(s)
           \/ Unlock(s) \/ UnlockFailed(s) \/ Drop(s) \/ Die(s)

-----------------------------------------------------------------------------
(***************************************************************************)
(* The verifier                                                            *)
(***************************************************************************)
\* The line at p: its end, and what verify_reader makes of it.
LineEnd(p) ==
    CHOOSE e \in p..(Len(file) + 1) :
        /\ e = Len(file) + 1 \/ file[e].part = "newline"
        /\ \A k \in p..(e - 1) : file[k].part # "newline"

\* A line is accepted if it is a prefix, one serialized result and its own mac.
\* A missing prefix or mac, or a mac inside the data, is a Config error; any
\* other data than the signed one is Tamper.
Judge(p, e) ==
    IF p = e THEN "blank"
    ELSE IF \/ file[p].part # "open"
            \/ file[e - 1].part # "mac"
            \/ e - p < 3
            \/ \E k \in p..(e - 2) : file[k].part = "mac"
         THEN "Config"
    ELSE IF e - p = 3 /\ file[p + 1] = [rec |-> file[e - 1].rec, part |-> "body"]
         THEN "accept"
    ELSE "Tamper"

VerifyLock ==
    /\ vpc = "idle"
    /\ SharedFree
    /\ runs < MaxVerifies
    /\ runs' = runs + 1
    /\ vpc' = "read"
    /\ pos' = 1
    /\ verified' = {}
    /\ outcome' = "none"
    /\ due' = acked
    /\ UNCHANGED <<file, sinkVars>>

\* The next line is read, and an error ends the run.
VerifyLine ==
    /\ vpc = "read"
    /\ pos <= Len(file)
    /\ LET e == LineEnd(pos)
           j == Judge(pos, e)
       IN  /\ pos' = e + 1
           /\ verified' = verified \cup (IF j = "accept" THEN {file[e - 1].rec} ELSE {})
           /\ IF j \in {"Config", "Tamper"} THEN vpc' = "idle" /\ outcome' = j
                                            ELSE UNCHANGED <<vpc, outcome>>
    /\ UNCHANGED <<file, sinkVars, runs, due>>

VerifyEnd ==
    /\ vpc = "read"
    /\ pos > Len(file)
    /\ vpc' = "idle"
    /\ outcome' = "Ok"
    /\ UNCHANGED <<file, sinkVars, pos, verified, runs, due>>

Verifier == VerifyLock \/ VerifyLine \/ VerifyEnd

-----------------------------------------------------------------------------
Next == (\E s \in Sinks : Sink(s)) \/ Verifier

\* Sinks and verifier are ordinary threads: what they have begun goes on, and a
\* lock that stays free is granted.
Fairness ==
    /\ \A s \in Sinks : WF_vars(LockExclusive(s) \/ Append1(s) \/ Unlock(s) \/ UnlockFailed(s))
    /\ WF_vars(VerifyLine \/ VerifyEnd)

Spec     == Init /\ [][Next]_vars
FairSpec == Spec /\ Fairness
-----------------------------------------------------------------------------
(***************************************************************************)
(* Properties                                                              *)
(***************************************************************************)
\* Every variable has its type.
TypeOK ==
    /\ file \in Seq(Pieces)
    /\ pc \in [Sinks -> {"closed", "idle", "lock", "write", "failed"}]
    /\ rec \in [Sinks -> 0..MaxRecords]
    /\ part \in [Sinks -> 0..4]
    /\ begun \in 0..MaxRecords
    /\ acked \in SUBSET Records
    /\ tears \in 0..MaxTears
    /\ vpc \in {"idle", "read"}
    /\ pos \in Nat \ {0}
    /\ verified \in SUBSET Records
    /\ runs \in 0..MaxVerifies
    /\ outcome \in {"none", "Ok", "Config", "Tamper"}
    /\ due \in SUBSET Records

\* The lines of the log.
LineStarts == {p \in 1..Len(file) : p = 1 \/ file[p - 1].part = "newline"}
Intact(r)  == \E p \in LineStarts :
                 Judge(p, LineEnd(p)) = "accept" /\ file[p].rec = r

\* Whatever sinks and verifiers run at once, a log is only found damaged when a
\* write has stopped half way: no record is split by another and no verifier
\* reads a record that is still being written (write and verify_file lock).
DamageMeansTear == outcome \in {"Config", "Tamper"} => tears > 0

\* A run that ends well has accepted every record whose write had returned Ok
\* before it took the lock: an acknowledged record is in the log, whole.
OkCoversAcked == outcome = "Ok" => due \subseteq verified

\* One torn write costs at most one acknowledged record, the one that follows
\* on its line: append mode and the newline contain the damage.
DamageIsContained == Cardinality({r \in acked : ~Intact(r)}) <= tears

\* A write that has begun returns, with or without an error: a sink that fails
\* half way still releases the lock the others wait for.
WriteReturns ==
    \A s \in Sinks : pc[s] \in {"lock", "write", "failed"} ~> pc[s] \in {"idle", "closed"}

\* "results file is HMAC-verifiable" (docs/PRD.md): a log that only write() has
\* ever touched passes verify_file.  It does not once a write was torn.
LogStaysVerifiable == outcome \notin {"Config", "Tamper"}
=============================================================================
