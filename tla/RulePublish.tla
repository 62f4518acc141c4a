---------------------------- MODULE RulePublish ------------------------------
(***************************************************************************)
(* From rule sources to a release.  tools/build-rules.sh builds the rules  *)
(* and publishes three files that belong together, with a rollback; the    *)
(* packaging script tools/package-release.ps1 seals them with seal-bundle, *)
(* verifies the sealed bundle against the manifest and stages both.  Builds*)
(* are interrupted and killed, steps fail, hashes.txt is edited, and no    *)
(* lock keeps a build and a packaging apart.                               *)
(***************************************************************************)
EXTENDS Integers

CONSTANTS
    NoFile,       \* stands for a file that is not there
    Torn,         \* stands for the content of a file copied in part
    MaxBuilds,    \* bound: builds begun
    MaxPackages,  \* bound: packagings begun
    MaxEdits,     \* bound: edits of hashes.txt
    MaxKills      \* bound: builds killed, or backups not copied back

ASSUME PublishBoundsAssumption ==
    \A n \in {MaxBuilds, MaxPackages, MaxEdits, MaxKills} : n \in Nat

VARIABLES
    target,     \* the published files: bundled.yar, bundled.yarc, MANIFEST.json
    new,        \* the same with .new beside them
    backup,     \* the copies a build keeps of what it found
    published,  \* the files the build may have replaced
    built,      \* what it publishes
    hashes,     \* the version of hashes.txt
    bpc,        \* the build: "idle" | "copy" | "move" | "rollback"
    bexit,      \* how the last one with its traps set ended:
                \* "none" | "ok" | "failed" | "unrestored" | "killed"
    psenc,      \* bundle.psenc: the rules and hashes it seals
    ppc,        \* the packaging: "idle" | "sources" | "seal" | "verify" | "clear" | "stage"
    staged,     \* the staged release: its bundle and its manifest
    released,   \* the last packaging has succeeded
    overlap,    \* history: something was published or edited while it ran
    builds, packages, edits, kills

published3 == <<target, new, backup, published, built>>
buildVars  == <<published3, bpc, bexit>>
packVars   == <<psenc, ppc, staged, released>>
counts     == <<builds, packages, edits, kills>>
vars       == <<buildVars, packVars, hashes, overlap, counts>>

Targets == {"yar", "yarc", "manifest"}
Order   == [yar |-> 1, yarc |-> 2, manifest |-> 3]
First(ts) == CHOOSE t \in ts : \A u \in ts : Order[t] <= Order[u]

Rules  == 0..MaxBuilds
Hashes == 0..MaxEdits
\* What a manifest or a sealed bundle says: the rules and hashes it is of.
Release == [rules : Rules, hashes : Hashes]
Sealed  == [rules : Rules \cup {Torn}, hashes : Hashes]
Content(t) == IF t = "manifest" THEN Release ELSE Rules

\* NoFile and Torn are no content of a file.
ASSUME NoFileAssumption ==
    /\ \A t \in Targets : NoFile \notin Content(t) /\ Torn \notin Content(t)
    /\ NoFile # Torn

\* What a build publishes.
Artifacts(r, h) == [t \in Targets |-> IF t = "manifest" THEN [rules |-> r, hashes |-> h] ELSE r]

NoFiles == [t \in Targets |-> NoFile]
NoStage == [bundle |-> NoFile, manifest |-> NoFile]

\* A tracked checkout: manifest and sealed bundle, with or without plaintext rules.
Init ==
    /\ \E plain \in BOOLEAN :
          target = IF plain THEN Artifacts(0, 0)
                   ELSE [NoFiles EXCEPT !["manifest"] = [rules |-> 0, hashes |-> 0]]
    /\ new = NoFiles
    /\ backup = NoFiles
    /\ published = {}
    /\ built = NoFiles
    /\ hashes = 0
    /\ bpc = "idle"
    /\ bexit = "none"
    /\ psenc = [rules |-> 0, hashes |-> 0]
    /\ ppc = "idle"
    /\ staged = NoStage
    /\ released = FALSE
    /\ overlap = FALSE
    /\ builds = 0 /\ packages = 0 /\ edits = 0 /\ kills = 0

-----------------------------------------------------------------------------
(***************************************************************************)
(* build-rules.sh                                                          *)
(***************************************************************************)
\* Everything is built in the work directory, what is published now is copied
\* there, and the traps are set.
Build ==
    /\ bpc = "idle"
    /\ builds < MaxBuilds
    /\ builds' = builds + 1
    /\ built' = Artifacts(builds + 1, hashes)
    /\ backup' = target
    /\ published' = {}
    /\ bpc' = "copy"
    /\ bexit' = "none"
    /\ UNCHANGED <<target, new, packVars, hashes, overlap, packages, edits, kills>>

\* A build fails before its traps are set: a source cannot be fetched or is not
\* what its ref says, two flattened names collide, the whole does not compile or
\* has no rules, the date is invalid, a copy fails, or it is killed.  Only the work
\* directory, which the next build empties, has changed: nothing is rolled back,
\* and the .new files of a killed build stay.
BuildFails ==
    /\ bpc = "idle"
    /\ builds < MaxBuilds
    /\ builds' = builds + 1
    /\ UNCHANGED <<buildVars, packVars, hashes, overlap, packages, edits, kills>>

\* The next file is copied beside the one it will replace.
CopyNew ==
    /\ bpc = "copy"
    /\ LET left == {t \in Targets : new[t] # built[t]} IN
          IF left = {} THEN bpc' = "move" /\ UNCHANGED new
          ELSE new' = [new EXCEPT ![First(left)] = built[First(left)]] /\ UNCHANGED bpc
    /\ UNCHANGED <<target, backup, published, built, bexit, packVars, hashes, overlap, counts>>

\* By now all three .new files are there; a move takes one away.
Unmoved == {t \in Targets : new[t] # NoFile}

\* The next file is marked as published, before it is moved ...
Mark ==
    /\ bpc = "move"
    /\ published \cap Unmoved = {}
    /\ published # Targets
    /\ published' = published \cup {First(Targets \ published)}
    /\ UNCHANGED <<target, new, backup, built, bpc, bexit, packVars, hashes, overlap, counts>>

\* ... so that a failure of the move, and a signal around it, roll it back too.
MayMove_Unmarked(t) == t = First(Unmoved)       \* Mutant: the mark follows the mv.
MayMove(t) == t \in published /\ t = First(Unmoved)

\* The next file is moved into place.
Move ==
    /\ bpc = "move"
    /\ \E t \in Unmoved :
          /\ MayMove(t)
          /\ target' = [target EXCEPT ![t] = new[t]]
          /\ new' = [new EXCEPT ![t] = NoFile]
    /\ overlap' = (overlap \/ ppc # "idle")
    /\ UNCHANGED <<backup, published, built, bpc, bexit, packVars, hashes, counts>>

\* After the last file the traps are cleared.
BuildEnd ==
    /\ bpc = "move"
    /\ Unmoved = {}
    /\ bpc' = "idle"
    /\ bexit' = "ok"
    /\ UNCHANGED <<published3, packVars, hashes, overlap, counts>>

\* A cp or mv fails, or a signal comes: the EXIT trap rolls back.
Interrupt ==
    /\ bpc \in {"copy", "move"}
    /\ bpc' = "rollback"
    /\ UNCHANGED <<published3, bexit, packVars, hashes, overlap, counts>>

\* rollback: the next published file gets its backup back, or is removed if it
\* was not there.  The cp may fail
\* (the rollback runs under set +e) and leave the file as it was or in part.
Restore ==
    /\ bpc = "rollback"
    /\ published # {}
    /\ LET t == First(published) IN
          /\ published' = published \ {t}
          /\ \/ target' = [target EXCEPT ![t] = backup[t]] /\ UNCHANGED <<kills, bexit>>
             \/ /\ kills < MaxKills
                /\ kills' = kills + 1
                /\ bexit' = "unrestored"
                /\ backup[t] # NoFile
                /\ \E left \in {target[t], Torn} : target' = [target EXCEPT ![t] = left]
    /\ overlap' = (overlap \/ ppc # "idle")
    /\ UNCHANGED <<new, backup, built, bpc, packVars, hashes, builds, packages, edits>>

\* The .new files are removed and the build exits with the status it had.
RollbackEnd_KeepNew ==             \* Mutant: the .new files stay.
    /\ bpc = "rollback"
    /\ published = {}
    /\ bpc' = "idle"
    /\ bexit' = IF bexit = "none" THEN "failed" ELSE bexit
    /\ UNCHANGED <<published3, packVars, hashes, overlap, counts>>
RollbackEnd ==
    /\ bpc = "rollback"
    /\ published = {}
    /\ new' = NoFiles
    /\ bpc' = "idle"
    /\ bexit' = IF bexit = "none" THEN "failed" ELSE bexit
    /\ UNCHANGED <<target, backup, published, built, packVars, hashes, overlap, counts>>

\* Killed where no trap runs, and by a second signal in the rollback: what is
\* done stays, and the file being restored may be there in part.
Kill ==
    /\ kills < MaxKills
    /\ kills' = kills + 1
    /\ bpc # "idle"
    /\ bpc' = "idle"
    /\ bexit' = "killed"
    /\ \/ UNCHANGED <<target, overlap>>
       \/ /\ bpc = "rollback" /\ published # {}
          /\ target' = [target EXCEPT ![First(published)] = Torn]
          /\ overlap' = (overlap \/ ppc # "idle")
    /\ UNCHANGED <<new, backup, published, built, packVars, hashes, builds, packages, edits>>

BuildStep == CopyNew \/ Mark \/ Move \/ BuildEnd \/ Restore \/ RollbackEnd

EditHashes ==
    /\ edits < MaxEdits
    /\ edits' = edits + 1
    /\ hashes' = edits + 1
    /\ overlap' = (overlap \/ ppc # "idle")
    /\ UNCHANGED <<buildVars, packVars, builds, packages, kills>>

-----------------------------------------------------------------------------
(***************************************************************************)
(* package-release.ps1                                                     *)
(***************************************************************************)
Package ==
    /\ ppc = "idle"
    /\ packages < MaxPackages
    /\ packages' = packages + 1
    /\ ppc' = "sources"
    /\ released' = FALSE
    /\ overlap' = (bpc # "idle")
    /\ UNCHANGED <<buildVars, psenc, staged, hashes, builds, edits, kills>>

Throw == ppc' = "idle" /\ UNCHANGED <<psenc, staged, released>>

\* Plaintext rules are sealed if the manifest knows them; without any the bundle
\* that is there is used.
Sources ==
    /\ ppc = "sources"
    /\ CASE target["yar"] = NoFile ->
              ppc' = "verify" /\ UNCHANGED <<psenc, staged, released>>
         [] target["yar"] # NoFile /\ target["manifest"] \in Release
              /\ target["manifest"].rules = target["yar"] ->
              ppc' = "seal" /\ UNCHANGED <<psenc, staged, released>>
         [] OTHER -> Throw
    /\ UNCHANGED <<buildVars, hashes, overlap, counts>>

\* seal-bundle: the rules and hashes of this moment.  Rules copied in part may
\* compile, and those that do are sealed.
MaySeal == target["yar"] # NoFile

Seal ==
    /\ ppc = "seal"
    /\ \/ /\ MaySeal
          /\ psenc' = [rules |-> target["yar"], hashes |-> hashes]
          /\ ppc' = "verify"
          /\ UNCHANGED <<staged, released>>
       \/ Throw
    /\ UNCHANGED <<buildVars, hashes, overlap, counts>>

\* seal-bundle --verify: what is sealed has the digests of the manifest.
Matches_RulesOnly == psenc.rules = target["manifest"].rules   \* Mutant: no hashes.
Matches == psenc = target["manifest"]

Verify ==
    /\ ppc = "verify"
    /\ \/ /\ target["manifest"] \in Release
          /\ Matches
          /\ ppc' = "clear"
          /\ UNCHANGED <<psenc, staged, released>>
       \/ ~(target["manifest"] \in Release /\ Matches) /\ Throw
    /\ UNCHANGED <<buildVars, hashes, overlap, counts>>

\* What has to be staged is there: the old release directory is removed.
Clear ==
    /\ ppc = "clear"
    /\ \/ /\ target["manifest"] # NoFile
          /\ staged' = NoStage
          /\ ppc' = "stage"
          /\ UNCHANGED <<psenc, released>>
       \/ Throw
    /\ UNCHANGED <<buildVars, hashes, overlap, counts>>

\* Bundle and manifest are copied into the new one.
Stage ==
    /\ ppc = "stage"
    /\ \/ /\ staged.bundle = NoFile
          /\ staged' = [staged EXCEPT !.bundle = psenc]
          /\ UNCHANGED <<ppc, released>>
       \/ /\ staged.bundle # NoFile
          /\ target["manifest"] # NoFile
          /\ staged' = [staged EXCEPT !.manifest = target["manifest"]]
          /\ ppc' = "idle"
          /\ released' = TRUE
       \/ ppc' = "idle" /\ UNCHANGED <<staged, released>>       \* a copy fails: throw
    /\ UNCHANGED <<buildVars, psenc, hashes, overlap, counts>>

PackageStep == Sources \/ Seal \/ Verify \/ Clear \/ Stage
-----------------------------------------------------------------------------
Next == Build \/ BuildFails \/ BuildStep \/ Interrupt \/ Kill \/ EditHashes \/ Package \/ PackageStep

Spec == Init /\ [][Next]_vars
-----------------------------------------------------------------------------
(***************************************************************************)
(* Properties                                                              *)
(***************************************************************************)
\* A published file, a .new file, a backup and what is built have their content.
FilesOK ==
    \A files \in {target, new, backup, built} :
          /\ files = [t \in Targets |-> files[t]]
          /\ \A t \in Targets : files[t] \in Content(t) \cup {NoFile, Torn}

\* Every variable has its type.
TypeOK ==
    /\ FilesOK
    /\ published \subseteq Targets
    /\ hashes \in Hashes
    /\ bpc \in {"idle", "copy", "move", "rollback"}
    /\ bexit \in {"none", "ok", "failed", "unrestored", "killed"}
    /\ psenc \in Sealed
    /\ ppc \in {"idle", "sources", "seal", "verify", "clear", "stage"}
    /\ staged \in [bundle : Sealed \cup {NoFile}, manifest : Release \cup {NoFile, Torn}]
    /\ released \in BOOLEAN /\ overlap \in BOOLEAN
    /\ builds \in 0..MaxBuilds /\ packages \in 0..MaxPackages
    /\ edits \in 0..MaxEdits /\ kills \in 0..MaxKills

\* A build publishes all three files or none: wherever a step fails or a signal
\* comes, it leaves what it found or what it built, unless it is killed or a
\* backup cannot be copied back.  What it finds may be any mixture, and the builds
\* that fail before they publish leave it.
PublishIsAtomic ==
    /\ (bpc = "idle" /\ bexit = "ok"     => target = built)
    /\ (bpc = "idle" /\ bexit = "failed" => target = backup)

\* A build that has set its traps and is not killed leaves no .new file, neither its
\* own nor one of a build killed before it; those that fail before their traps bring
\* none back.  So .new files, while no build runs, mean that the last build to set
\* its traps was killed.
NothingLeftOver ==
    bpc = "idle" /\ bexit \in {"ok", "failed", "unrestored"} => new = NoFiles

\* A release that nobody disturbed while it was packaged holds the bundle its
\* manifest describes, though the published files may be the mixture that a
\* killed build has left and hashes.txt may have changed since.
ReleaseIsConsistent ==
    released /\ ~overlap /\ ppc = "idle" => staged.bundle = staged.manifest
=============================================================================
