------------------------------ MODULE FileScan -------------------------------
(***************************************************************************)
(* One scan of a file system that keeps changing: the walk                 *)
(* (core/src/scan/walk.rs) lists the files, the pool                       *)
(* (core/src/scan/engine.rs) judges each one listed.  A file is opened     *)
(* twice, once to hash it and once to match the YARA rules, and its size is*)
(* the one the walk saw: between any two of these steps files are edited,  *)
(* removed, locked and made unreadable by the rest of the machine.         *)
(***************************************************************************)
EXTENDS Integers, FiniteSets

CONSTANTS
    Files,       \* the files of the machine
    Dirs,        \* its directories, the roots of the scan
    ParentDir,   \* the directory of a file
    PoolSize,    \* threads of the rayon pool
    Contents,    \* what a file may hold: subset of ContentType
    MaxChanges   \* bound: changes the machine makes during the scan

\* All that the scan tells of a content: its hash is in the blacklist, a rule
\* matches it, it is above MAX_YARA_BYTES.
ContentType == [blacklisted : BOOLEAN, matched : BOOLEAN, big : BOOLEAN]

ASSUME FilesAssumption == IsFiniteSet(Files) /\ ParentDir \in [Files -> Dirs]
ASSUME SizesAssumption == PoolSize \in Nat \ {0} /\ MaxChanges \in Nat
ASSUME ContentsAssumption == Contents \subseteq ContentType /\ Contents # {}

VARIABLES
    content,   \* the world: per file, what it holds
    access,    \* per file: "ok" | "denied" | "gone"
    dirOk,     \* the directories that can be listed
    changes,   \* changes so far
    phase,     \* "walk" | "scan" | "end"
    dirsLeft,  \* directories the walk has yet to open
    seen,      \* files listed whose metadata the walk has yet to read
    entries,   \* per file: "none", or whether its FileEntry's size is big
    pc,        \* per entry: "wait" | "hash" | "hashed" | "yara" | "judged"
    dirty,     \* entries whose file was edited while it was being read
    findings,  \* per entry: kinds found so far
    verdict,   \* per entry: "none" | "Clean" | "Malicious" | "Error"
    touched,   \* history: files something happened to since the scan began
    always,    \* history: per file, the kinds of finding that all it held since deserves
    read       \* history: per entry, the parts read to the end: {"hash", "yara"}

world     == <<content, access, dirOk, changes, touched, always>>
walkVars  == <<phase, dirsLeft, seen, entries>>
scanVars  == <<pc, dirty, findings, verdict, read>>
vars      == <<world, walkVars, scanVars>>

Verdicts == {"Clean", "Malicious", "Error"}

\* The findings that a content deserves.
Kinds(c) == (IF c.blacklisted THEN {"Hash"} ELSE {})
            \cup (IF c.matched /\ ~c.big THEN {"Yara"} ELSE {})

Init ==
    /\ content \in [Files -> Contents]
    /\ access \in [Files -> {"ok", "denied"}]
    /\ dirOk \in SUBSET Dirs
    /\ changes = 0
    /\ phase = "walk"
    /\ dirsLeft = Dirs
    /\ seen = {}
    /\ entries = [f \in Files |-> "none"]
    /\ pc = [f \in Files |-> "wait"]
    /\ dirty = {}
    /\ findings = [f \in Files |-> {}]
    /\ verdict = [f \in Files |-> "none"]
    /\ touched = {}
    /\ always = [f \in Files |-> Kinds(content[f])]
    /\ read = [f \in Files |-> {}]

-----------------------------------------------------------------------------
(***************************************************************************)
(* The rest of the machine                                                 *)
(***************************************************************************)
Touch(f) ==
    /\ changes < MaxChanges
    /\ changes' = changes + 1
    /\ touched' = touched \cup {f}
    /\ UNCHANGED <<dirOk, walkVars, pc, findings, verdict, read>>

\* The file is rewritten, under the eyes of a thread that has it open if so: what
\* that thread reads is any mixture.
Edit(f) ==
    /\ Touch(f)
    /\ access[f] # "gone"
    /\ \E c \in Contents \ {content[f]} :
          /\ content' = [content EXCEPT ![f] = c]
          /\ always' = [always EXCEPT ![f] = IF pc[f] \in {"hash", "yara"} THEN {} ELSE @ \cap Kinds(c)]
    /\ dirty' = dirty \cup (IF pc[f] \in {"hash", "yara"} THEN {f} ELSE {})
    /\ UNCHANGED access

\* It is removed, locked or unlocked by another program.
SetAccess(f) ==
    /\ Touch(f)
    /\ access[f] # "gone"
    /\ \E a \in {"ok", "denied", "gone"} \ {access[f]} : access' = [access EXCEPT ![f] = a]
    /\ UNCHANGED <<content, dirty, always>>

-----------------------------------------------------------------------------
(***************************************************************************)
(* The walk                                                                *)
(***************************************************************************)
\* Mutant: a directory that cannot be listed is tried again.
OpenDir_Retry(d) ==
    /\ phase = "walk"
    /\ seen = {}
    /\ d \in dirsLeft
    /\ dirsLeft' = dirsLeft \ ({d} \cap dirOk)
    /\ seen' = {f \in Files : ParentDir[f] = d /\ access[f] # "gone"}
    /\ UNCHANGED <<world, phase, entries, scanVars>>

\* WalkDir opens the next directory; one it cannot read is an Err, and dropped.
OpenDir(d) ==
    /\ phase = "walk"
    /\ seen = {}
    /\ d \in dirsLeft
    /\ dirsLeft' = dirsLeft \ {d}
    /\ seen' = IF d \in dirOk
               THEN {f \in Files : ParentDir[f] = d /\ access[f] # "gone"}
               ELSE {}
    /\ UNCHANGED <<world, phase, entries, scanVars>>

\* entry.metadata(): a file that is gone by then is dropped, one that cannot be
\* opened still has its size.
Visit(f) ==
    /\ f \in seen
    /\ seen' = seen \ {f}
    /\ entries' = IF access[f] = "gone" THEN entries
                  ELSE [entries EXCEPT ![f] = IF content[f].big THEN "big" ELSE "small"]
    /\ UNCHANGED <<world, phase, dirsLeft, scanVars>>

Listed == {f \in Files : entries[f] # "none"}

EndWalk ==
    /\ phase = "walk"
    /\ dirsLeft = {}
    /\ seen = {}
    /\ phase' = "scan"
    /\ UNCHANGED <<world, dirsLeft, seen, entries, scanVars>>

-----------------------------------------------------------------------------
(***************************************************************************)
(* scan_entry                                                              *)
(***************************************************************************)
Active == {f \in Listed : pc[f] \in {"hash", "hashed", "yara"}}

\* Mutant: entries whose scan_entry is an Err are filtered out.
Return_Dropped(f, v) ==
    /\ pc' = [pc EXCEPT ![f] = "judged"]
    /\ verdict' = IF v = "Error" THEN verdict ELSE [verdict EXCEPT ![f] = v]

\* The entry's result: what scan_entry returns, or the Error scan_all makes of
\* its Err.
Return(f, v) ==
    /\ pc' = [pc EXCEPT ![f] = "judged"]
    /\ verdict' = [verdict EXCEPT ![f] = v]

\* What the findings say, when nothing failed.
Judge_ErrFirst(found, failed) ==     \* Mutant: a failed match is returned with `?`.
    IF failed THEN "Error" ELSE IF found = {} THEN "Clean" ELSE "Malicious"
Judge(found, failed) ==
    IF found # {} THEN "Malicious" ELSE IF failed THEN "Error" ELSE "Clean"

\* A thread takes an entry; sha256_file opens it, or fails.
HashOpen(f) ==
    /\ phase = "scan"
    /\ f \in Listed
    /\ pc[f] = "wait"
    /\ Cardinality(Active) < PoolSize
    /\ IF access[f] = "ok"
       THEN pc' = [pc EXCEPT ![f] = "hash"] /\ UNCHANGED verdict
       ELSE Return(f, "Error")
    /\ UNCHANGED <<world, walkVars, dirty, findings, read>>

\* What is read of the file since it was opened: its content, or, when it was
\* edited meanwhile, a mixture with any properties.
ReadNow(f) == IF f \in dirty THEN ContentType ELSE {content[f]}

\* It is read to its end and hashed.  A part that is locked by then fails.
HashDone(f) ==
    /\ pc[f] = "hash"
    /\ dirty' = dirty \ {f}
    /\ \/ /\ access[f] # "denied"
          /\ \E c \in ReadNow(f) :
                findings' = [findings EXCEPT ![f] = IF c.blacklisted THEN {"Hash"} ELSE {}]
          /\ read' = [read EXCEPT ![f] = {"hash"}]
          /\ pc' = [pc EXCEPT ![f] = "hashed"]
          /\ UNCHANGED verdict
       \/ /\ access[f] = "denied"
          /\ Return(f, "Error")
          /\ UNCHANGED <<findings, read>>
    /\ UNCHANGED <<world, walkVars>>

\* The entry's size decides; the file is opened anew.
YaraOpen(f) ==
    /\ pc[f] = "hashed"
    /\ CASE entries[f] = "big"  -> Return(f, Judge(findings[f], FALSE))
         [] access[f] = "ok" /\ entries[f] = "small" ->
                pc' = [pc EXCEPT ![f] = "yara"] /\ UNCHANGED verdict
         [] OTHER -> Return(f, Judge(findings[f], TRUE))
    /\ UNCHANGED <<world, walkVars, dirty, findings, read>>

\* read_yara_bytes refuses a file that has outgrown the limit since the walk.
TooBig_NoSentinel(c) == FALSE     \* Mutant: what is above the limit is cut off.
TooBig(c) == c.big

\* Mutant: rules are matched only where the hash found something.
Matches_Confirm(f, c) == findings[f] \cup (IF c.matched /\ findings[f] # {} THEN {"Yara"} ELSE {})
\* Mutant: what the rules find replaces what the hash found.
Matches_Replace(f, c) == IF c.matched /\ ~c.big THEN {"Yara"} ELSE {}
Matches(f, c) == findings[f] \cup (IF c.matched /\ ~c.big THEN {"Yara"} ELSE {})

\* Matching itself does not fail: the scanner is given bytes and no timeout.
YaraDone(f) ==
    /\ pc[f] = "yara"
    /\ dirty' = dirty \ {f}
    /\ \E c \in ReadNow(f) :
          LET failed == access[f] = "denied" \/ TooBig(c)
              found  == IF failed THEN findings[f] ELSE Matches(f, c)
          IN  /\ Return(f, Judge(found, failed))
              /\ findings' = [findings EXCEPT ![f] = found]
              /\ read' = [read EXCEPT ![f] = @ \cup (IF failed \/ c.big THEN {} ELSE {"yara"})]
    /\ UNCHANGED <<world, walkVars>>

\* The pool has judged every entry.
EndScan ==
    /\ phase = "scan"
    /\ \A f \in Listed : pc[f] = "judged"
    /\ phase' = "end"
    /\ UNCHANGED <<world, dirsLeft, seen, entries, scanVars>>

-----------------------------------------------------------------------------
Walk    == (\E d \in Dirs : OpenDir(d)) \/ (\E f \in Files : Visit(f)) \/ EndWalk
Scan(f) == HashOpen(f) \/ HashDone(f) \/ YaraOpen(f) \/ YaraDone(f)
Machine == \E f \in Files : Edit(f) \/ SetAccess(f)

Next == Walk \/ (\E f \in Files : Scan(f)) \/ EndScan \/ Machine

\* The walk and the pool's threads go on; the rest of the machine may do nothing.
Fairness == WF_vars(Walk) /\ WF_vars(EndScan) /\ \A f \in Files : WF_vars(Scan(f))

Spec     == Init /\ [][Next]_vars
FairSpec == Spec /\ Fairness
-----------------------------------------------------------------------------
(***************************************************************************)
(* Properties                                                              *)
(***************************************************************************)
\* Every variable has its type; in particular a result is Clean, Malicious or
\* Error, whatever failed on the way.
TypeOK ==
    /\ content \in [Files -> Contents]
    /\ access \in [Files -> {"ok", "denied", "gone"}]
    /\ dirOk \subseteq Dirs
    /\ changes \in 0..MaxChanges
    /\ phase \in {"walk", "scan", "end"}
    /\ dirsLeft \subseteq Dirs
    /\ seen \subseteq Files
    /\ entries \in [Files -> {"none", "small", "big"}]
    /\ pc \in [Files -> {"wait", "hash", "hashed", "yara", "judged"}]
    /\ dirty \subseteq Files
    /\ findings \in [Files -> SUBSET {"Hash", "Yara"}]
    /\ verdict \in [Files -> Verdicts \cup {"none"}]
    /\ touched \subseteq Files
    /\ always \in [Files -> SUBSET {"Hash", "Yara"}]
    /\ read \in [Files -> SUBSET {"hash", "yara"}]

\* What a file that nobody disturbs deserves.
Deserves(f) ==
    IF access[f] # "ok" THEN "Error"
    ELSE IF content[f].blacklisted \/ (content[f].matched /\ ~content[f].big)
         THEN "Malicious" ELSE "Clean"

\* Whatever happens to the other files and however the pool interleaves them, a
\* file in a readable directory that nothing happened to gets the verdict it
\* deserves: an error elsewhere, a missing file or a race touches nobody else.
UndisturbedIsJudged ==
    phase = "end" => \A f \in Files \ touched :
                        ParentDir[f] \in dirOk => verdict[f] = Deserves(f)

\* "Never a false clean" (docs/ARCHITECTURE.md): Clean is only said of a file
\* whose hash was taken of all its bytes and, unless the walk saw it above the
\* limit, whose bytes all went through the rules; a file that fails, shrinks out
\* of reach or outgrows the limit on the way is not called clean.
CleanWasRead ==
    \A f \in Files : verdict[f] = "Clean" =>
        /\ "hash" \in read[f]
        /\ entries[f] = "small" => "yara" \in read[f]

\* A blacklisted hash decides: once it is found nothing that happens to the file
\* afterwards, no lock, removal, growth or failed match, takes it back.
DetectionIsKept ==
    \A f \in Files : "Hash" \in findings[f] /\ pc[f] = "judged"
                        => verdict[f] = "Malicious"

\* A file that is replaced while it is scanned may be judged by two contents, neither
\* of which was judged whole.  Still, one that deserved the same finding throughout,
\* however often it was replaced, locked and unlocked, is never called clean.
StableThreatIsCaught ==
    \A f \in Files : verdict[f] = "Clean" => always[f] = {}

\* Every file the walk listed has a verdict when the scan ends, though it may
\* have gone since, and no other file has.
ListedIsJudged ==
    phase = "end" => \A f \in Files : verdict[f] # "none" <=> f \in Listed

\* A scan ends, whatever the machine does meanwhile.
ScanFinishes == <>(phase = "end")

\* "An unreadable/locked file yields an error finding" (docs/ARCHITECTURE.md): a
\* file that is there from the beginning to the end gets a verdict.  One in a
\* directory that cannot be listed gets none, nor does the directory.
NothingSkipped ==
    phase = "end" => \A f \in Files \ touched : verdict[f] # "none"
=============================================================================
