--------------------------- MODULE FileScanProofs ----------------------------
(***************************************************************************)
(* The verdicts of a scan are right for any files, contents, pool and      *)
(* number of changes the machine makes meanwhile.                          *)
(***************************************************************************)
EXTENDS FileScan, TLAPS

\* The scan begins when the walk has ended, and judges what was listed.
WalkFirst ==
    /\ phase = "walk" => \A f \in Files : pc[f] = "wait"
    /\ phase # "walk" => seen = {} /\ dirsLeft = {}
    /\ phase = "end" => \A f \in Files : entries[f] # "none" => pc[f] = "judged"
    /\ \A f \in Files : pc[f] # "wait" => entries[f] # "none"

\* What is known of an entry at each point of scan_entry.
Progressed ==
    \A f \in Files :
        /\ pc[f] = "judged" <=> verdict[f] # "none"
        /\ pc[f] \in {"wait", "hash"} => findings[f] = {}
        /\ pc[f] \in {"hashed", "yara"} => "hash" \in read[f]
        /\ pc[f] = "yara" => entries[f] = "small"

\* A file nobody has touched, in a directory that can be listed, is on its way to
\* the verdict it deserves.
OnItsWay(f) ==
    /\ access[f] # "gone" /\ f \notin dirty
    /\ entries[f] = "none" => ParentDir[f] \in dirsLeft \/ f \in seen \/ ParentDir[f] \notin dirOk
    /\ entries[f] # "none" => entries[f] = IF content[f].big THEN "big" ELSE "small"
    /\ pc[f] \in {"hash", "hashed", "yara"} => access[f] = "ok"
    /\ pc[f] \in {"hashed", "yara"} => findings[f] = IF content[f].blacklisted THEN {"Hash"} ELSE {}
    /\ pc[f] = "judged" => verdict[f] = Deserves(f)

Undisturbed == \A f \in Files \ touched : OnItsWay(f)

ScanInv == /\ TypeOK /\ WalkFirst /\ Progressed /\ Undisturbed
           /\ CleanWasRead /\ DetectionIsKept

-----------------------------------------------------------------------------
\* The verdicts that scan_entry can give.
LEMMA JudgeLemma ==
    ASSUME NEW found, NEW failed \in BOOLEAN
    PROVE  /\ Judge(found, failed) \in Verdicts
           /\ Judge(found, failed) = "Clean" <=> found = {} /\ ~failed
           /\ found # {} => Judge(found, failed) = "Malicious"
  BY DEF Judge, Verdicts

\* ScanInv holds before the walk.
LEMMA ScanInit == Init => ScanInv
<1> SUFFICES ASSUME Init PROVE ScanInv
  OBVIOUS
<1>1. TypeOK
  BY SizesAssumption DEF Init, TypeOK, Kinds
<1>2. WalkFirst /\ Progressed /\ CleanWasRead /\ DetectionIsKept
  BY DEF Init, WalkFirst, Progressed, CleanWasRead, DetectionIsKept
<1>3. Undisturbed
  BY FilesAssumption DEF Init, Undisturbed, OnItsWay
<1> QED BY <1>1, <1>2, <1>3 DEF ScanInv

-----------------------------------------------------------------------------
\* The walk keeps the invariant: no verdict is affected by it.
LEMMA WalkStep == ScanInv /\ Walk => ScanInv'
<1> SUFFICES ASSUME ScanInv, Walk PROVE ScanInv'
  OBVIOUS
<1> USE DEF ScanInv
<1>1. UNCHANGED <<world, scanVars>> /\ phase = "walk"
  <2>1. CASE \E d \in Dirs : OpenDir(d)
    BY <2>1 DEF OpenDir
  <2>2. CASE \E f \in Files : Visit(f)
    BY <2>2 DEF Visit, WalkFirst
  <2>3. CASE EndWalk
    BY <2>3 DEF EndWalk
  <2> QED BY <2>1, <2>2, <2>3 DEF Walk
<1>2. UNCHANGED <<content, access, dirOk, changes, touched, always, pc, dirty, findings, verdict, read>>
  BY <1>1 DEF world, scanVars
<1>3. \A f \in Files : pc[f] = "wait" /\ verdict[f] = "none"
  BY <1>1 DEF WalkFirst, Progressed
<1>4. (Progressed /\ CleanWasRead /\ DetectionIsKept)'
  BY <1>2, <1>3 DEF Progressed, CleanWasRead, DetectionIsKept
<1>5. ASSUME NEW d \in Dirs, OpenDir(d) PROVE (TypeOK /\ WalkFirst /\ Undisturbed)'
  <2>1. UNCHANGED <<phase, entries>> /\ seen = {} /\ dirsLeft' = dirsLeft \ {d}
    BY <1>5 DEF OpenDir
  <2>2. seen' = IF d \in dirOk THEN {f \in Files : ParentDir[f] = d /\ access[f] # "gone"} ELSE {}
    BY <1>5 DEF OpenDir
  <2>3. TypeOK'
    BY <1>2, <2>1, <2>2 DEF TypeOK
  <2>4. WalkFirst'
    BY <1>1, <1>2, <1>3, <2>1 DEF WalkFirst
  <2>5. ASSUME NEW f \in Files \ touched PROVE OnItsWay(f)'
    BY <1>2, <1>3, <2>1, <2>2 DEF Undisturbed, OnItsWay
  <2> QED BY <1>2, <2>3, <2>4, <2>5 DEF Undisturbed
<1>6. ASSUME NEW g \in Files, Visit(g) PROVE (TypeOK /\ WalkFirst /\ Undisturbed)'
  <2>1. UNCHANGED <<phase, dirsLeft>> /\ g \in seen /\ seen' = seen \ {g}
    BY <1>6 DEF Visit
  <2>2. entries' = IF access[g] = "gone" THEN entries
                   ELSE [entries EXCEPT ![g] = IF content[g].big THEN "big" ELSE "small"]
    BY <1>6 DEF Visit
  <2>3. TypeOK'
    BY <1>2, <2>1, <2>2 DEF TypeOK
  <2>4. WalkFirst'
    BY <1>1, <1>2, <1>3, <2>1 DEF WalkFirst
  <2>5. ASSUME NEW f \in Files \ touched PROVE OnItsWay(f)'
    <3>1. f # g => entries'[f] = entries[f]
      BY <2>2 DEF TypeOK
    <3>2. f = g => entries'[f] = IF content[f].big THEN "big" ELSE "small"
      BY <2>2 DEF TypeOK, Undisturbed, OnItsWay
    <3> QED BY <1>2, <1>3, <2>1, <3>1, <3>2 DEF Undisturbed, OnItsWay
  <2> QED BY <1>2, <2>3, <2>4, <2>5 DEF Undisturbed
<1>7. CASE EndWalk
  <2>1. UNCHANGED <<dirsLeft, seen, entries>> /\ phase' = "scan" /\ seen = {} /\ dirsLeft = {}
    BY <1>7 DEF EndWalk
  <2>2. (TypeOK /\ WalkFirst)'
    BY <1>2, <1>3, <2>1 DEF TypeOK, WalkFirst
  <2>3. Undisturbed'
    BY <1>2, <1>3, <2>1 DEF Undisturbed, OnItsWay
  <2> QED BY <1>4, <2>2, <2>3
<1> QED BY <1>4, <1>5, <1>6, <1>7 DEF Walk

-----------------------------------------------------------------------------
\* What the rest of the machine does to a file can only change what that file
\* deserves: it is touched then.
LEMMA MachineStep == ScanInv /\ Machine => ScanInv'
<1> SUFFICES ASSUME ScanInv, Machine PROVE ScanInv'
  OBVIOUS
<1> USE DEF ScanInv
<1>1. PICK g \in Files : Edit(g) \/ SetAccess(g)
  BY DEF Machine
<1>2. Touch(g)
  BY <1>1 DEF Edit, SetAccess
<1>3. /\ UNCHANGED <<dirOk, phase, dirsLeft, seen, entries, pc, findings, verdict, read>>
      /\ touched' = touched \cup {g}
      /\ changes' = changes + 1 /\ changes < MaxChanges
  BY <1>2 DEF Touch, walkVars
<1>4. /\ content' \in [Files -> Contents] /\ access' \in [Files -> {"ok", "denied", "gone"}]
      /\ dirty' \subseteq dirty \cup {g} /\ always' \in [Files -> SUBSET {"Hash", "Yara"}]
      /\ \A f \in Files \ {g} : content'[f] = content[f] /\ access'[f] = access[f]
  <2>1. CASE Edit(g)
    BY <2>1 DEF Edit, TypeOK
  <2>2. CASE SetAccess(g)
    BY <2>2 DEF SetAccess, TypeOK
  <2> QED BY <1>1, <2>1, <2>2
<1>5. TypeOK'
  BY <1>3, <1>4, SizesAssumption DEF TypeOK
<1>6. (WalkFirst /\ Progressed /\ CleanWasRead /\ DetectionIsKept)'
  BY <1>3 DEF WalkFirst, Progressed, CleanWasRead, DetectionIsKept
<1>7. Undisturbed'
  BY <1>3, <1>4 DEF Undisturbed, OnItsWay, Deserves
<1> QED BY <1>5, <1>6, <1>7

-----------------------------------------------------------------------------
\* A step of scan_entry keeps the invariant if it does for its own file.
LEMMA EntryLemma ==
    ASSUME ScanInv, NEW g \in Files, phase = "scan", entries[g] # "none",
           UNCHANGED <<world, walkVars>>,
           pc' \in [Files -> {"wait", "hash", "hashed", "yara", "judged"}],
           findings' \in [Files -> SUBSET {"Hash", "Yara"}],
           verdict' \in [Files -> Verdicts \cup {"none"}],
           read' \in [Files -> SUBSET {"hash", "yara"}],
           dirty' \subseteq dirty,
           \A f \in Files \ {g} : /\ pc'[f] = pc[f] /\ findings'[f] = findings[f]
                                  /\ verdict'[f] = verdict[f] /\ read'[f] = read[f],
           \* of Progressed
           pc'[g] # "wait", pc'[g] = "judged" <=> verdict'[g] # "none",
           pc'[g] = "hash" => findings'[g] = {},
           pc'[g] \in {"hashed", "yara"} => "hash" \in read'[g],
           pc'[g] = "yara" => entries[g] = "small",
           \* of CleanWasRead and DetectionIsKept
           verdict'[g] = "Clean" => "hash" \in read'[g] /\ (entries[g] = "small" => "yara" \in read'[g]),
           "Hash" \in findings'[g] /\ pc'[g] = "judged" => verdict'[g] = "Malicious",
           \* of OnItsWay
           g \notin touched =>
               /\ pc'[g] \in {"hash", "hashed", "yara"} => access[g] = "ok"
               /\ pc'[g] \in {"hashed", "yara"} =>
                     findings'[g] = IF content[g].blacklisted THEN {"Hash"} ELSE {}
               /\ pc'[g] = "judged" => verdict'[g] = Deserves(g)
    PROVE  ScanInv'
<1> USE DEF ScanInv
<1>1. UNCHANGED <<content, access, dirOk, changes, touched, always, phase, dirsLeft, seen, entries>>
  BY DEF world, walkVars
<1>2. TypeOK'
  BY <1>1 DEF TypeOK
<1>3. WalkFirst'
  BY <1>1 DEF WalkFirst
<1>4. Progressed'
  BY <1>1 DEF Progressed
<1>5. CleanWasRead'
  BY <1>1 DEF CleanWasRead
<1>6. DetectionIsKept'
  BY <1>1 DEF DetectionIsKept
<1>7. ASSUME NEW f \in Files \ touched PROVE OnItsWay(f)'
  <2>1. Deserves(f)' = Deserves(f)
    BY <1>1 DEF Deserves
  <2>2. CASE f = g
    BY <1>1, <2>1, <2>2 DEF Undisturbed, OnItsWay
  <2>3. CASE f # g
    BY <1>1, <2>1, <2>3 DEF Undisturbed, OnItsWay
  <2> QED BY <2>2, <2>3
<1>8. Undisturbed'
  BY <1>1, <1>7 DEF Undisturbed
<1> QED BY <1>2, <1>3, <1>4, <1>5, <1>6, <1>8

\* What Return writes.
LEMMA ReturnLemma ==
    ASSUME ScanInv, NEW g \in Files, NEW v \in Verdicts, Return(g, v)
    PROVE  /\ pc' \in [Files -> {"wait", "hash", "hashed", "yara", "judged"}]
           /\ verdict' \in [Files -> Verdicts \cup {"none"}]
           /\ pc'[g] = "judged" /\ verdict'[g] = v /\ v # "none"
           /\ \A f \in Files \ {g} : pc'[f] = pc[f] /\ verdict'[f] = verdict[f]
  BY DEF ScanInv, TypeOK, Return, Verdicts

\* Opening a file to hash it keeps ScanInv.
LEMMA HashOpenStep == ScanInv /\ (\E f \in Files : HashOpen(f)) => ScanInv'
<1> SUFFICES ASSUME ScanInv, NEW g \in Files, HashOpen(g) PROVE ScanInv'
  OBVIOUS
<1>1. /\ phase = "scan" /\ entries[g] # "none" /\ pc[g] = "wait"
      /\ UNCHANGED <<world, walkVars>> /\ UNCHANGED <<dirty, findings, read>>
  BY DEF HashOpen, Listed
<1>2. findings[g] = {} /\ verdict[g] = "none"
  BY <1>1 DEF ScanInv, Progressed
<1>3. CASE access[g] = "ok"
  <2>1. UNCHANGED verdict /\ pc' = [pc EXCEPT ![g] = "hash"]
    BY <1>3 DEF HashOpen
  <2>2. pc'[g] = "hash"
    BY <2>1 DEF ScanInv, TypeOK
  <2>3. pc' \in [Files -> {"wait", "hash", "hashed", "yara", "judged"}]
    BY <2>1 DEF ScanInv, TypeOK
  <2> QED BY <1>1, <1>2, <1>3, <2>1, <2>2, <2>3, EntryLemma DEF ScanInv, TypeOK
<1>4. CASE access[g] # "ok"
  <2>1. Return(g, "Error")
    BY <1>4 DEF HashOpen
  <2>2. Deserves(g) = "Error"
    BY <1>4 DEF Deserves
  <2> QED BY <1>1, <1>2, <2>1, <2>2, ReturnLemma, EntryLemma DEF ScanInv, TypeOK, Verdicts
<1> QED BY <1>3, <1>4

\* Hashing it keeps ScanInv.
LEMMA HashDoneStep == ScanInv /\ (\E f \in Files : HashDone(f)) => ScanInv'
<1> SUFFICES ASSUME ScanInv, NEW g \in Files, HashDone(g) PROVE ScanInv'
  OBVIOUS
<1>1. /\ pc[g] = "hash" /\ dirty' \subseteq dirty
      /\ UNCHANGED <<world, walkVars>>
  BY DEF HashDone
<1>2. phase = "scan" /\ entries[g] # "none" /\ findings[g] = {} /\ verdict[g] = "none"
  BY <1>1 DEF ScanInv, WalkFirst, Progressed, TypeOK
<1>3. g \notin touched => access[g] = "ok" /\ g \notin dirty
  BY <1>1 DEF ScanInv, Undisturbed, OnItsWay
<1>4. CASE pc' = [pc EXCEPT ![g] = "hashed"] /\ UNCHANGED verdict
  <2>1. PICK c \in ReadNow(g) :
          /\ findings' = [findings EXCEPT ![g] = IF c.blacklisted THEN {"Hash"} ELSE {}]
          /\ read' = [read EXCEPT ![g] = {"hash"}]
    BY <1>1, <1>2, <1>4 DEF HashDone, Return, ScanInv, TypeOK
  <2>2. g \notin touched => c = content[g]
    BY <1>3, <2>1 DEF ReadNow
  <2>3. /\ pc'[g] = "hashed" /\ read'[g] = {"hash"}
        /\ findings'[g] = IF c.blacklisted THEN {"Hash"} ELSE {}
        /\ \A f \in Files \ {g} : pc'[f] = pc[f] /\ findings'[f] = findings[f] /\ read'[f] = read[f]
    BY <1>4, <2>1 DEF ScanInv, TypeOK
  <2>4. /\ pc' \in [Files -> {"wait", "hash", "hashed", "yara", "judged"}]
        /\ findings' \in [Files -> SUBSET {"Hash", "Yara"}]
        /\ read' \in [Files -> SUBSET {"hash", "yara"}]
    BY <1>4, <2>1 DEF ScanInv, TypeOK
  <2> QED BY <1>1, <1>2, <1>3, <1>4, <2>2, <2>3, <2>4, EntryLemma DEF ScanInv, TypeOK
<1>5. CASE access[g] = "denied" /\ Return(g, "Error") /\ UNCHANGED <<findings, read>>
  BY <1>1, <1>2, <1>3, <1>5, ReturnLemma, EntryLemma DEF ScanInv, TypeOK, Verdicts
<1> QED BY <1>4, <1>5 DEF HashDone

\* Opening a file to match it keeps ScanInv.
LEMMA YaraOpenStep == ScanInv /\ (\E f \in Files : YaraOpen(f)) => ScanInv'
<1> SUFFICES ASSUME ScanInv, NEW g \in Files, YaraOpen(g) PROVE ScanInv'
  OBVIOUS
<1>1. pc[g] = "hashed" /\ UNCHANGED <<world, walkVars>> /\ UNCHANGED <<dirty, findings, read>>
  BY DEF YaraOpen
<1>2. /\ phase = "scan" /\ entries[g] # "none" /\ "hash" \in read[g] /\ verdict[g] = "none"
      /\ entries[g] \in {"small", "big"} /\ findings[g] \subseteq {"Hash", "Yara"}
  BY <1>1 DEF ScanInv, WalkFirst, Progressed, TypeOK
<1>3. g \notin touched =>
        /\ access[g] = "ok"
        /\ findings[g] = IF content[g].blacklisted THEN {"Hash"} ELSE {}
        /\ entries[g] = IF content[g].big THEN "big" ELSE "small"
  BY <1>1, <1>2 DEF ScanInv, Undisturbed, OnItsWay
<1>4. CASE entries[g] = "small" /\ access[g] = "ok"
  <2>1. pc' = [pc EXCEPT ![g] = "yara"] /\ UNCHANGED verdict
    BY <1>4 DEF YaraOpen
  <2>2. pc'[g] = "yara" /\ pc' \in [Files -> {"wait", "hash", "hashed", "yara", "judged"}]
    BY <2>1 DEF ScanInv, TypeOK
  <2> QED BY <1>1, <1>2, <1>3, <1>4, <2>1, <2>2, EntryLemma DEF ScanInv, TypeOK
<1>5. CASE entries[g] = "big"
  <2>1. Return(g, Judge(findings[g], FALSE))
    BY <1>5 DEF YaraOpen
  <2>2. g \notin touched => Judge(findings[g], FALSE) = Deserves(g)
    BY <1>3, <1>5 DEF Judge, Deserves
  <2>3. /\ Judge(findings[g], FALSE) \in Verdicts
        /\ "Hash" \in findings[g] => Judge(findings[g], FALSE) = "Malicious"
    BY JudgeLemma
  <2>4. /\ dirty' \subseteq dirty /\ findings' \in [Files -> SUBSET {"Hash", "Yara"}]
        /\ read' \in [Files -> SUBSET {"hash", "yara"}]
    BY <1>1 DEF ScanInv, TypeOK
  <2> QED BY <1>1, <1>2, <1>5, <2>1, <2>2, <2>3, <2>4, ReturnLemma, EntryLemma
<1>6. CASE entries[g] = "small" /\ access[g] # "ok"
  <2>1. Return(g, Judge(findings[g], TRUE))
    BY <1>6 DEF YaraOpen
  <2>2. /\ Judge(findings[g], TRUE) \in Verdicts /\ Judge(findings[g], TRUE) # "Clean"
        /\ "Hash" \in findings[g] => Judge(findings[g], TRUE) = "Malicious"
    BY JudgeLemma
  <2>3. /\ dirty' \subseteq dirty /\ findings' \in [Files -> SUBSET {"Hash", "Yara"}]
        /\ read' \in [Files -> SUBSET {"hash", "yara"}]
    BY <1>1 DEF ScanInv, TypeOK
  <2> QED BY <1>1, <1>2, <1>3, <1>6, <2>1, <2>2, <2>3, ReturnLemma, EntryLemma
<1> QED BY <1>2, <1>4, <1>5, <1>6

\* Matching its content keeps ScanInv.
LEMMA YaraDoneStep == ScanInv /\ (\E f \in Files : YaraDone(f)) => ScanInv'
<1> SUFFICES ASSUME ScanInv, NEW g \in Files, YaraDone(g) PROVE ScanInv'
  OBVIOUS
<1>1. pc[g] = "yara" /\ dirty' \subseteq dirty /\ UNCHANGED <<world, walkVars>>
  BY DEF YaraDone
<1>2. /\ phase = "scan" /\ entries[g] = "small" /\ "hash" \in read[g] /\ verdict[g] = "none"
      /\ findings[g] \subseteq {"Hash", "Yara"}
  BY <1>1 DEF ScanInv, WalkFirst, Progressed, TypeOK
<1>3. PICK c \in ReadNow(g), failed \in BOOLEAN, found \in SUBSET {"Hash", "Yara"} :
        /\ failed = (access[g] = "denied" \/ c.big)
        /\ found = IF failed THEN findings[g] ELSE Matches(g, c)
        /\ Return(g, Judge(found, failed))
        /\ findings' = [findings EXCEPT ![g] = found]
        /\ read' = [read EXCEPT ![g] = @ \cup (IF failed \/ c.big THEN {} ELSE {"yara"})]
  BY <1>2 DEF YaraDone, TooBig, Matches
<1>4. found \subseteq {"Hash", "Yara"} /\ findings[g] \subseteq found
  BY <1>2, <1>3 DEF Matches
<1>5. /\ findings'[g] = found /\ "hash" \in read'[g]
      /\ ~failed => "yara" \in read'[g]
      /\ \A f \in Files \ {g} : findings'[f] = findings[f] /\ read'[f] = read[f]
      /\ findings' \in [Files -> SUBSET {"Hash", "Yara"}]
      /\ read' \in [Files -> SUBSET {"hash", "yara"}]
  BY <1>2, <1>3, <1>4 DEF ScanInv, TypeOK
<1>6. g \notin touched => Judge(found, failed) = Deserves(g)
  <2>1. SUFFICES ASSUME g \notin touched PROVE Judge(found, failed) = Deserves(g)
    OBVIOUS
  <2>2. /\ c = content[g] /\ access[g] = "ok" /\ ~content[g].big
        /\ findings[g] = IF content[g].blacklisted THEN {"Hash"} ELSE {}
    BY <1>1, <1>2, <1>3, <2>1 DEF ScanInv, Undisturbed, OnItsWay, ReadNow
  <2> QED BY <1>3, <2>2 DEF Judge, Deserves, Matches
<1>7. Judge(found, failed) \in Verdicts /\ (Judge(found, failed) = "Clean" => ~failed)
  BY JudgeLemma
<1>8. "Hash" \in found => Judge(found, failed) = "Malicious"
  BY JudgeLemma
<1> QED BY <1>1, <1>2, <1>3, <1>5, <1>6, <1>7, <1>8, ReturnLemma, EntryLemma

-----------------------------------------------------------------------------
\* The invariant holds throughout every scan.
THEOREM ScanInvariant == Spec => []ScanInv
<1>1. ScanInv /\ [Next]_vars => ScanInv'
  <2> SUFFICES ASSUME ScanInv, [Next]_vars PROVE ScanInv'
    OBVIOUS
  <2>1. CASE EndScan
    <3>1. UNCHANGED <<world, dirsLeft, seen, entries, scanVars>> /\ phase = "scan" /\ phase' = "end"
      BY <2>1 DEF EndScan
    <3>2. \A f \in Files : entries[f] # "none" => pc[f] = "judged"
      BY <2>1 DEF EndScan, Listed
    <3>3. UNCHANGED <<content, access, dirOk, changes, touched, always, dirsLeft, seen, entries,
                      pc, dirty, findings, verdict, read>>
      BY <3>1 DEF world, scanVars
    <3>4. (TypeOK /\ WalkFirst /\ Progressed)'
      BY <3>1, <3>2, <3>3 DEF ScanInv, TypeOK, WalkFirst, Progressed
    <3>5. (Undisturbed /\ CleanWasRead /\ DetectionIsKept)'
      BY <3>3 DEF ScanInv, Undisturbed, OnItsWay, Deserves, CleanWasRead, DetectionIsKept
    <3> QED BY <3>4, <3>5 DEF ScanInv
  <2>2. CASE UNCHANGED vars
    BY <2>2 DEF vars, world, walkVars, scanVars, ScanInv, TypeOK, WalkFirst, Progressed,
                Undisturbed, OnItsWay, Deserves, CleanWasRead, DetectionIsKept
  <2> QED BY <2>1, <2>2, WalkStep, MachineStep, HashOpenStep, HashDoneStep, YaraOpenStep,
             YaraDoneStep DEF Next, Scan
<1> QED BY ScanInit, <1>1, PTL DEF Spec

-----------------------------------------------------------------------------
\* A finding that all contents of a file deserve is made of whatever is read of it.
CaughtFor(f) ==
    /\ always[f] # {} => f \notin dirty
    /\ always[f] \subseteq Kinds(content[f])
    /\ "Yara" \in always[f] => entries[f] # "big"
    /\ pc[f] \in {"hashed", "yara"} /\ "Hash" \in always[f] => "Hash" \in findings[f]
    /\ verdict[f] = "Clean" => always[f] = {}

Caught == \A f \in Files : CaughtFor(f)

\* The walk sees the size of a file that no rule can be kept from.
LEMMA CaughtWalk == ScanInv /\ Caught /\ Walk => Caught'
<1> SUFFICES ASSUME ScanInv, Caught, Walk PROVE Caught'
  OBVIOUS
<1>1. CASE \E d \in Dirs : OpenDir(d)
  BY <1>1 DEF OpenDir, world, scanVars, Caught, CaughtFor, Kinds
<1>2. ASSUME NEW g \in Files, Visit(g) PROVE Caught'
  <2>1. UNCHANGED <<content, always, pc, dirty, findings, verdict>>
    BY <1>2 DEF Visit, world, scanVars
  <2>2. \A f \in Files : entries'[f] # entries[f] => entries'[f] = IF content[f].big THEN "big" ELSE "small"
    BY <1>2 DEF Visit, ScanInv, TypeOK
  <2> QED BY <2>1, <2>2 DEF Caught, CaughtFor, Kinds
<1>3. CASE EndWalk
  BY <1>3 DEF EndWalk, world, scanVars, Caught, CaughtFor, Kinds
<1> QED BY <1>1, <1>2, <1>3 DEF Walk

\* An edit leaves only the findings that the new content deserves too.
LEMMA CaughtMachine == ScanInv /\ Caught /\ Machine => Caught'
<1> SUFFICES ASSUME ScanInv, Caught, Machine PROVE Caught'
  OBVIOUS
<1>1. ASSUME NEW g \in Files, Edit(g) PROVE Caught'
  <2>1. UNCHANGED <<entries, pc, findings, verdict>>
    BY <1>1 DEF Edit, Touch, walkVars
  <2>2. PICK c \in Contents :
          /\ content' = [content EXCEPT ![g] = c]
          /\ always' = [always EXCEPT ![g] = IF pc[g] \in {"hash", "yara"} THEN {} ELSE @ \cap Kinds(c)]
    BY <1>1 DEF Edit
  <2>3. dirty' = dirty \cup (IF pc[g] \in {"hash", "yara"} THEN {g} ELSE {})
    BY <1>1 DEF Edit
  <2>4. /\ content'[g] = c /\ always'[g] = IF pc[g] \in {"hash", "yara"} THEN {} ELSE always[g] \cap Kinds(c)
        /\ \A f \in Files \ {g} : content'[f] = content[f] /\ always'[f] = always[f]
    BY <2>2 DEF ScanInv, TypeOK
  <2>5. ASSUME NEW f \in Files PROVE CaughtFor(f)'
    <3>1. CASE f = g
      BY <2>1, <2>3, <2>4, <3>1 DEF Caught, CaughtFor, Kinds
    <3>2. CASE f # g
      BY <2>1, <2>3, <2>4, <3>2 DEF Caught, CaughtFor, Kinds
    <3> QED BY <3>1, <3>2
  <2> QED BY <2>5 DEF Caught
<1>2. ASSUME NEW g \in Files, SetAccess(g) PROVE Caught'
  BY <1>2 DEF SetAccess, Touch, walkVars, Caught, CaughtFor, Kinds
<1> QED BY <1>1, <1>2 DEF Machine

\* scan_entry reads such a content each time.
LEMMA CaughtEntry ==
    ASSUME ScanInv, Caught, NEW g \in Files, UNCHANGED <<world, walkVars>>,
           dirty' \subseteq dirty,
           \A f \in Files \ {g} : pc'[f] = pc[f] /\ findings'[f] = findings[f] /\ verdict'[f] = verdict[f],
           pc'[g] \in {"hashed", "yara"} /\ "Hash" \in always[g] => "Hash" \in findings'[g],
           verdict'[g] = "Clean" => always[g] = {}
    PROVE  Caught'
<1>1. UNCHANGED <<content, always, entries>>
  BY DEF world, walkVars
<1> QED BY <1>1 DEF Caught, CaughtFor, Kinds

\* The steps of a scan keep what is known of a threat that stays.
LEMMA CaughtScan == ScanInv /\ Caught /\ (\E f \in Files : Scan(f)) => Caught'
<1> SUFFICES ASSUME ScanInv, Caught, NEW g \in Files, Scan(g) PROVE Caught'
  OBVIOUS
<1>1. /\ always[g] # {} => g \notin dirty
      /\ always[g] \subseteq Kinds(content[g]) /\ always[g] \subseteq {"Hash", "Yara"}
      /\ "Yara" \in always[g] => entries[g] # "big"
      /\ pc[g] \in {"hashed", "yara"} /\ "Hash" \in always[g] => "Hash" \in findings[g]
  BY DEF Caught, CaughtFor, ScanInv, TypeOK
<1>2. CASE HashOpen(g)
  <2>1. UNCHANGED <<world, walkVars>> /\ UNCHANGED <<dirty, findings>>
    BY <1>2 DEF HashOpen
  <2>2. CASE pc' = [pc EXCEPT ![g] = "hash"] /\ UNCHANGED verdict
    <3>1. pc'[g] = "hash" /\ pc[g] = "wait" /\ \A f \in Files \ {g} : pc'[f] = pc[f]
      BY <1>2, <2>2 DEF HashOpen, ScanInv, TypeOK
    <3>2. verdict'[g] # "Clean"
      BY <2>2, <3>1 DEF ScanInv, Progressed
    <3> QED BY <2>1, <2>2, <3>1, <3>2, CaughtEntry
  <2>3. CASE Return(g, "Error")
    BY <2>1, <2>3, ReturnLemma, CaughtEntry DEF Verdicts
  <2> QED BY <1>2, <2>2, <2>3 DEF HashOpen
<1>3. CASE HashDone(g)
  <2>1. UNCHANGED <<world, walkVars>> /\ dirty' \subseteq dirty
    BY <1>3 DEF HashDone
  <2>2. CASE pc' = [pc EXCEPT ![g] = "hashed"] /\ UNCHANGED verdict
    <3>1. PICK c \in ReadNow(g) :
            findings' = [findings EXCEPT ![g] = IF c.blacklisted THEN {"Hash"} ELSE {}]
      BY <1>3, <2>2 DEF HashDone, Return, ScanInv, TypeOK
    <3>2. /\ findings'[g] = IF c.blacklisted THEN {"Hash"} ELSE {}
          /\ \A f \in Files \ {g} : pc'[f] = pc[f] /\ findings'[f] = findings[f]
      BY <2>2, <3>1 DEF ScanInv, TypeOK
    <3>3. "Hash" \in always[g] => "Hash" \in findings'[g]
      BY <1>1, <3>1, <3>2 DEF ReadNow, Kinds
    <3>4. verdict'[g] # "Clean"
      BY <1>3, <2>2 DEF HashDone, ScanInv, Progressed
    <3> QED BY <2>1, <2>2, <3>2, <3>3, <3>4, CaughtEntry
  <2>3. CASE Return(g, "Error") /\ UNCHANGED findings
    BY <2>1, <2>3, ReturnLemma, CaughtEntry DEF Verdicts
  <2> QED BY <1>3, <2>2, <2>3 DEF HashDone
<1>4. CASE YaraOpen(g)
  <2>1. UNCHANGED <<world, walkVars>> /\ UNCHANGED <<dirty, findings>> /\ pc[g] = "hashed"
    BY <1>4 DEF YaraOpen
  <2>2. CASE pc' = [pc EXCEPT ![g] = "yara"] /\ UNCHANGED verdict
    <3>1. \A f \in Files \ {g} : pc'[f] = pc[f]
      BY <2>2 DEF ScanInv, TypeOK
    <3>2. verdict'[g] # "Clean"
      BY <2>1, <2>2 DEF ScanInv, Progressed
    <3> QED BY <1>1, <2>1, <2>2, <3>1, <3>2, CaughtEntry
  <2>3. CASE entries[g] = "big" /\ Return(g, Judge(findings[g], FALSE))
    <3>1. Judge(findings[g], FALSE) \in Verdicts /\ (Judge(findings[g], FALSE) = "Clean" => findings[g] = {})
      BY JudgeLemma
    <3>2. Judge(findings[g], FALSE) = "Clean" => always[g] = {}
      BY <1>1, <2>1, <2>3, <3>1
    <3> QED BY <2>1, <2>3, <3>1, <3>2, ReturnLemma, CaughtEntry
  <2>4. CASE Return(g, Judge(findings[g], TRUE))
    <3>1. Judge(findings[g], TRUE) \in Verdicts /\ Judge(findings[g], TRUE) # "Clean"
      BY JudgeLemma
    <3> QED BY <2>1, <2>4, <3>1, ReturnLemma, CaughtEntry
  <2> QED BY <1>4, <2>2, <2>3, <2>4 DEF YaraOpen
<1>5. CASE YaraDone(g)
  <2>1. UNCHANGED <<world, walkVars>> /\ dirty' \subseteq dirty /\ pc[g] = "yara"
    BY <1>5 DEF YaraDone
  <2>2. PICK c \in ReadNow(g), failed \in BOOLEAN, found \in SUBSET {"Hash", "Yara"} :
          /\ failed = (access[g] = "denied" \/ c.big)
          /\ found = IF failed THEN findings[g] ELSE Matches(g, c)
          /\ Return(g, Judge(found, failed))
          /\ findings' = [findings EXCEPT ![g] = found]
    BY <1>5 DEF YaraDone, TooBig, Matches, ScanInv, TypeOK
  <2>3. \A f \in Files \ {g} : findings'[f] = findings[f]
    BY <2>2 DEF ScanInv, TypeOK
  <2>4. Judge(found, failed) \in Verdicts /\ (Judge(found, failed) = "Clean" => found = {} /\ ~failed)
    BY JudgeLemma
  <2>5. ~failed /\ always[g] # {} => found # {}
    BY <1>1, <2>1, <2>2 DEF ReadNow, Kinds, Matches
  <2> QED BY <2>1, <2>2, <2>3, <2>4, <2>5, ReturnLemma, CaughtEntry
<1> QED BY <1>2, <1>3, <1>4, <1>5 DEF Scan

\* A file that deserved the same finding all the time is never called clean, however
\* it is replaced between the reads of its scan.
THEOREM StableThreatsAreCaught == Spec => []StableThreatIsCaught
<1>1. Init => Caught
  BY DEF Init, Caught, CaughtFor, Kinds
<1>2. ScanInv /\ Caught /\ [Next]_vars => Caught'
  <2> SUFFICES ASSUME ScanInv, Caught, [Next]_vars PROVE Caught'
    OBVIOUS
  <2>1. CASE EndScan
    BY <2>1 DEF EndScan, world, scanVars, Caught, CaughtFor, Kinds
  <2>2. CASE UNCHANGED vars
    BY <2>2 DEF vars, world, walkVars, scanVars, Caught, CaughtFor, Kinds
  <2> QED BY <2>1, <2>2, CaughtWalk, CaughtMachine, CaughtScan DEF Next
<1>3. Caught => StableThreatIsCaught
  BY DEF Caught, CaughtFor, StableThreatIsCaught
<1> QED BY ScanInvariant, <1>1, <1>2, <1>3, PTL DEF Spec

\* Whatever fails on the way, a result is Clean, Malicious or Error.
THEOREM ScanTypes == Spec => []TypeOK
<1>1. ScanInv => TypeOK
  BY DEF ScanInv
<1> QED BY ScanInvariant, <1>1, PTL

\* scan_entry never says Clean of a file whose bytes it has not read: "never a
\* false clean", whatever the machine does to the files meanwhile.
THEOREM NeverFalseClean == Spec => []CleanWasRead
<1>1. ScanInv => CleanWasRead
  BY DEF ScanInv
<1> QED BY ScanInvariant, <1>1, PTL

\* A hash found in the blacklist decides the verdict; no later failure of the same
\* scan_entry takes it back.
THEOREM DetectionsAreKept == Spec => []DetectionIsKept
<1>1. ScanInv => DetectionIsKept
  BY DEF ScanInv
<1> QED BY ScanInvariant, <1>1, PTL

\* A file that nothing happens to gets the verdict it deserves, whatever happens
\* to the others and however many threads judge them.
THEOREM UndisturbedAreJudged == Spec => []UndisturbedIsJudged
<1>1. ScanInv => UndisturbedIsJudged
  BY DEF ScanInv, WalkFirst, Undisturbed, OnItsWay, UndisturbedIsJudged
<1> QED BY ScanInvariant, <1>1, PTL

\* The results are those of the entries of the walk: no entry is left out by an
\* error, a removal or a lock, and nothing else is judged.
THEOREM ListedAreJudged == Spec => []ListedIsJudged
<1>1. ScanInv => ListedIsJudged
  BY DEF ScanInv, WalkFirst, Progressed, ListedIsJudged, Listed
<1> QED BY ScanInvariant, <1>1, PTL
=============================================================================
