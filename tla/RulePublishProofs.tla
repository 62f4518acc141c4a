-------------------------- MODULE RulePublishProofs --------------------------
(***************************************************************************)
(* Publishing the rules is atomic, and leaves nothing over, for any number *)
(* of builds, packagings, edits and kills.                                 *)
(***************************************************************************)
EXTENDS RulePublish, TLAPS

\* The files of a variable, all of them or with one exchanged, have their content.
Contents(files) ==
    /\ files = [t \in Targets |-> files[t]]
    /\ \A t \in Targets : files[t] \in Content(t) \cup {NoFile, Torn}

\* What a build that is still running has done: an unmarked file is as it was
\* found, and a file that is no longer waiting to be moved has been.
Undisturbed == bpc # "idle" /\ bexit = "none" => \A t \in Targets \ published : target[t] = backup[t]
MovedIsBuilt ==
    bpc = "move" => /\ \A t \in Targets : new[t] \in {NoFile, built[t]}
                    /\ \A t \in Targets : new[t] = NoFile => target[t] = built[t]
Running ==
    /\ bpc \in {"idle", "copy", "move", "rollback"}
    /\ bpc \in {"copy", "move"} => bexit = "none"
    /\ bpc = "rollback" => bexit \in {"none", "unrestored"}
    /\ published \subseteq Targets
    /\ bpc # "idle" => \A t \in Targets : built[t] # NoFile

Safe == Undisturbed /\ MovedIsBuilt /\ Running /\ PublishIsAtomic /\ NothingLeftOver

PublishInv == TypeOK /\ Safe

-----------------------------------------------------------------------------
\* What a build publishes is a content for each of the three names.
LEMMA ArtifactsLemma ==
    ASSUME NEW r \in Rules, NEW h \in Hashes
    PROVE  /\ Artifacts(r, h) = [t \in Targets |-> Artifacts(r, h)[t]]
           /\ \A t \in Targets : Artifacts(r, h)[t] \in Content(t)
<1>1. \A t \in Targets : Artifacts(r, h)[t] = IF t = "manifest" THEN [rules |-> r, hashes |-> h] ELSE r
  BY DEF Artifacts
<1>2. [rules |-> r, hashes |-> h] \in Release
  BY DEF Release
<1>3. \A t \in Targets : Artifacts(r, h)[t] \in Content(t)
  BY <1>1, <1>2 DEF Content
<1> DEFINE A == Artifacts(r, h)
<1>4. A \in [Targets -> Rules \cup Release]
  BY <1>2 DEF Artifacts
<1>5. A = [t \in Targets |-> A[t]]
  <2> HIDE DEF A
  <2> QED BY <1>4
<1> QED BY <1>3, <1>5

\* The first of some names is one of them.
LEMMA FirstLemma ==
    ASSUME NEW ts \in SUBSET Targets, ts # {}
    PROVE  First(ts) \in ts
<1> DEFINE P(t) == \A u \in ts : Order[t] <= Order[u]
<1>1. \E t \in ts : P(t)
  <2>1. CASE "yar" \in ts
    BY <2>1 DEF Targets, Order
  <2>2. CASE "yar" \notin ts /\ "yarc" \in ts
    BY <2>2 DEF Targets, Order
  <2>3. CASE "yar" \notin ts /\ "yarc" \notin ts
    <3>1. ts = {"manifest"}
      BY <2>3 DEF Targets
    <3> QED BY <3>1 DEF Order
  <2> QED BY <2>1, <2>2, <2>3
<1> QED BY <1>1 DEF First

\* Exchanging one file for a content, nothing or a torn one keeps them typed.
LEMMA ExchangeLemma ==
    ASSUME NEW files, Contents(files), NEW t \in Targets, NEW c \in Content(t) \cup {NoFile, Torn}
    PROVE  /\ Contents([files EXCEPT ![t] = c])
           /\ [files EXCEPT ![t] = c][t] = c
           /\ \A u \in Targets \ {t} : [files EXCEPT ![t] = c][u] = files[u]
  BY DEF Contents

\* PublishInv holds before the first build.
LEMMA InitInv == Init => PublishInv
<1> SUFFICES ASSUME Init PROVE PublishInv
  OBVIOUS
<1>1. 0 \in Rules /\ 0 \in Hashes /\ 0 \in 0..MaxPackages /\ 0 \in 0..MaxKills
  BY PublishBoundsAssumption DEF Rules, Hashes
<1>2. [rules |-> 0, hashes |-> 0] \in Release /\ [rules |-> 0, hashes |-> 0] \in Sealed
  BY <1>1 DEF Release, Sealed
<1>3. Contents(target)
  <2>1. PICK plain \in BOOLEAN :
          target = IF plain THEN Artifacts(0, 0)
                   ELSE [NoFiles EXCEPT !["manifest"] = [rules |-> 0, hashes |-> 0]]
    BY DEF Init
  <2>2. CASE plain
    BY <2>1, <2>2, <1>1, ArtifactsLemma DEF Contents
  <2>3. CASE ~plain
    BY <2>1, <2>3, <1>2 DEF NoFiles, Content, Contents, Targets
  <2> QED BY <2>2, <2>3
<1>4. Contents(new) /\ Contents(backup) /\ Contents(built)
  BY DEF Init, NoFiles, Contents
<1>5. staged \in [bundle : Sealed \cup {NoFile}, manifest : Release \cup {NoFile, Torn}]
  BY DEF Init, NoStage
<1>6. FilesOK
  BY <1>3, <1>4 DEF FilesOK, Contents
<1>7. TypeOK
  BY <1>1, <1>2, <1>5, <1>6 DEF Init, TypeOK, Rules, Hashes
<1>8. Undisturbed /\ MovedIsBuilt /\ Running /\ PublishIsAtomic /\ NothingLeftOver
  BY DEF Init, Undisturbed, MovedIsBuilt, Running, PublishIsAtomic, NothingLeftOver
<1> QED BY <1>7, <1>8 DEF PublishInv, Safe

\* Every step keeps the types.
LEMMA TypeStep == TypeOK /\ [Next]_vars => TypeOK'
<1> SUFFICES ASSUME TypeOK, [Next]_vars PROVE TypeOK'
  OBVIOUS
<1>0. Contents(target) /\ Contents(new) /\ Contents(backup) /\ Contents(built)
  BY DEF TypeOK, FilesOK, Contents
<1>a. ASSUME Contents(target'), Contents(new'), Contents(backup'), Contents(built')
      PROVE  FilesOK'
  BY <1>a DEF FilesOK, Contents
<1>b. ASSUME UNCHANGED <<target, new, backup, built>>
      PROVE  FilesOK'
  BY <1>b DEF TypeOK, FilesOK
<1>1. CASE Build
  <2>1. builds + 1 \in Rules /\ hashes \in Hashes /\ builds' \in 0..MaxBuilds
    BY <1>1, PublishBoundsAssumption DEF Build, TypeOK, Rules
  <2>2. Contents(built')
    BY <1>1, <2>1, ArtifactsLemma DEF Build, Contents
  <2>3. FilesOK'
    BY <1>0, <1>1, <1>a, <2>2 DEF Build
  <2> QED BY <1>1, <2>1, <2>3 DEF Build, TypeOK, packVars
<1>2. CASE CopyNew
  <2> DEFINE left == {t \in Targets : new[t] # built[t]}
  <2>1. Contents(new')
    <3>1. CASE left = {}
      BY <1>0, <1>2, <3>1 DEF CopyNew
    <3>2. CASE left # {}
      <4> DEFINE f == First(left)
      <4>1. f \in Targets /\ built[f] \in Content(f) \cup {NoFile, Torn}
        BY <1>0, <3>2, FirstLemma DEF Contents
      <4>2. new' = [new EXCEPT ![f] = built[f]]
        BY <1>2, <3>2 DEF CopyNew
      <4> HIDE DEF f
      <4> QED BY <1>0, <4>1, <4>2, ExchangeLemma
    <3> QED BY <3>1, <3>2
  <2>2. FilesOK'
    BY <1>0, <1>2, <1>a, <2>1 DEF CopyNew
  <2>3. bpc' \in {"copy", "move"}
    BY <1>2 DEF CopyNew
  <2> QED BY <1>2, <2>2, <2>3 DEF CopyNew, TypeOK, packVars, counts
<1>3. CASE Mark
  <2>1. First(Targets \ published) \in Targets
    BY <1>3, FirstLemma DEF Mark, TypeOK
  <2>2. FilesOK'
    BY <1>3, <1>b DEF Mark
  <2> QED BY <1>3, <2>1, <2>2 DEF Mark, TypeOK, packVars, counts
<1>4. CASE Move
  <2>1. PICK t \in Targets : /\ target' = [target EXCEPT ![t] = new[t]]
                             /\ new' = [new EXCEPT ![t] = NoFile]
    BY <1>4 DEF Move, Unmoved
  <2>2. Contents(target')
    BY <1>0, <2>1, ExchangeLemma DEF Contents
  <2>3. Contents(new')
    BY <1>0, <2>1, ExchangeLemma
  <2>4. FilesOK'
    BY <1>0, <1>4, <1>a, <2>2, <2>3 DEF Move
  <2> QED BY <1>4, <2>4 DEF Move, TypeOK, packVars, counts
<1>5. CASE BuildEnd
  BY <1>5, <1>b DEF BuildEnd, TypeOK, published3, packVars, counts
<1>6. CASE Interrupt
  BY <1>6, <1>b DEF Interrupt, TypeOK, published3, packVars, counts
<1>7. CASE Restore
  <2> DEFINE f == First(published)
  <2>1. f \in Targets
    BY <1>7, FirstLemma DEF Restore, TypeOK
  <2>2. \E c \in {backup[f], target[f], Torn} : target' = [target EXCEPT ![f] = c]
    <3>1. \/ target' = [target EXCEPT ![f] = backup[f]]
          \/ \E left \in {target[f], Torn} : target' = [target EXCEPT ![f] = left]
      BY <1>7 DEF Restore
    <3> QED BY <3>1
  <2>3. kills' \in 0..MaxKills /\ bexit' \in {bexit, "unrestored"} /\ published' \subseteq Targets
    BY <1>7, PublishBoundsAssumption DEF Restore, TypeOK
  <2> HIDE DEF f
  <2>4. Contents(target')
    BY <1>0, <2>1, <2>2, ExchangeLemma DEF Contents
  <2>5. FilesOK'
    BY <1>0, <1>7, <1>a, <2>4 DEF Restore
  <2> QED BY <1>7, <2>3, <2>5 DEF Restore, TypeOK, packVars
<1>8. CASE RollbackEnd
  <2>1. Contents(new')
    BY <1>8 DEF RollbackEnd, NoFiles, Contents
  <2>2. FilesOK'
    BY <1>0, <1>8, <1>a, <2>1 DEF RollbackEnd
  <2> QED BY <1>8, <2>2 DEF RollbackEnd, TypeOK, packVars, counts
<1>9. CASE Kill
  <2>1. Contents(target')
    <3>1. CASE UNCHANGED target
      BY <1>0, <3>1
    <3>2. CASE published # {} /\ target' = [target EXCEPT ![First(published)] = Torn]
      <4>1. First(published) \in Targets
        BY <3>2, FirstLemma DEF TypeOK
      <4> QED BY <1>0, <3>2, <4>1, ExchangeLemma
    <3> QED BY <1>9, <3>1, <3>2 DEF Kill
  <2>2. FilesOK'
    BY <1>0, <1>9, <1>a, <2>1 DEF Kill
  <2>3. kills' \in 0..MaxKills
    BY <1>9, PublishBoundsAssumption DEF Kill, TypeOK
  <2>4. overlap' \in BOOLEAN
    BY <1>9, Zenon DEF Kill, TypeOK
  <2> QED BY <1>9, <2>2, <2>3, <2>4 DEF Kill, TypeOK, packVars
<1>10. CASE EditHashes
  <2>1. hashes' \in Hashes /\ edits' \in 0..MaxEdits /\ overlap' \in BOOLEAN
    BY <1>10, PublishBoundsAssumption DEF EditHashes, TypeOK, Hashes
  <2> QED BY <1>10, <1>b, <2>1 DEF EditHashes, TypeOK, buildVars, published3, packVars
<1>11. CASE Package
  <2>1. packages' \in 0..MaxPackages /\ overlap' \in BOOLEAN
    BY <1>11, PublishBoundsAssumption DEF Package, TypeOK
  <2> QED BY <1>11, <1>b, <2>1 DEF Package, TypeOK, buildVars, published3
<1>12. CASE Sources
  <2>1. ppc' \in {"idle", "seal", "verify"} /\ UNCHANGED <<psenc, staged, released>>
    BY <1>12 DEF Sources, Throw
  <2> QED BY <1>12, <1>b, <2>1 DEF Sources, TypeOK, buildVars, published3, counts
<1>13. CASE Seal
  <2>1. psenc' \in Sealed /\ ppc' \in {"idle", "verify"} /\ UNCHANGED <<staged, released>>
    <3>1. CASE Throw
      BY <3>1 DEF Throw, TypeOK
    <3>2. CASE ~Throw
      <4>1. target["yar"] \in Rules \cup {Torn}
        BY <1>0, <1>13, <3>2 DEF Seal, MaySeal, Contents, Content, Targets
      <4> QED BY <1>13, <3>2, <4>1 DEF Seal, Sealed, TypeOK
    <3> QED BY <3>1, <3>2
  <2> QED BY <1>13, <1>b, <2>1 DEF Seal, TypeOK, buildVars, published3, counts
<1>14. CASE Verify
  <2>1. ppc' \in {"idle", "clear"} /\ UNCHANGED <<psenc, staged, released>>
    BY <1>14 DEF Verify, Throw
  <2> QED BY <1>14, <1>b, <2>1 DEF Verify, TypeOK, buildVars, published3, counts
<1>15. CASE Clear
  <2>1. ppc' \in {"idle", "stage"} /\ staged' \in {staged, NoStage} /\ UNCHANGED <<psenc, released>>
    BY <1>15 DEF Clear, Throw
  <2>2. staged' \in [bundle : Sealed \cup {NoFile}, manifest : Release \cup {NoFile, Torn}]
    BY <2>1 DEF NoStage, TypeOK
  <2> QED BY <1>15, <1>b, <2>1, <2>2 DEF Clear, TypeOK, buildVars, published3, counts
<1>16. CASE Stage
  <2>1. target["manifest"] \in Release \cup {NoFile, Torn}
    BY <1>0 DEF Contents, Content, Targets
  <2>2. staged' \in [bundle : Sealed \cup {NoFile}, manifest : Release \cup {NoFile, Torn}]
    BY <1>16, <2>1 DEF Stage, TypeOK
  <2>3. ppc' \in {"stage", "idle"} /\ released' \in BOOLEAN
    BY <1>16 DEF Stage, TypeOK
  <2> QED BY <1>16, <1>b, <2>2, <2>3 DEF Stage, TypeOK, buildVars, published3, counts
<1>17. CASE BuildFails
  <2>1. builds' \in 0..MaxBuilds
    BY <1>17, PublishBoundsAssumption DEF BuildFails, TypeOK
  <2> QED BY <1>17, <1>b, <2>1 DEF BuildFails, TypeOK, buildVars, published3, packVars
<1>18. CASE UNCHANGED vars
  BY <1>18, <1>b DEF vars, buildVars, published3, packVars, counts, TypeOK
<1> QED BY <1>1, <1>2, <1>3, <1>4, <1>5, <1>6, <1>7, <1>8, <1>9, <1>10, <1>11, <1>12,
           <1>13, <1>14, <1>15, <1>16, <1>17, <1>18 DEF Next, BuildStep, PackageStep

-----------------------------------------------------------------------------
\* Every step keeps what the publication promises.
LEMMA SafeStep == TypeOK /\ Safe /\ [Next]_vars => Safe'
<1> SUFFICES ASSUME TypeOK, Undisturbed, MovedIsBuilt, Running, PublishIsAtomic, NothingLeftOver,
                    [Next]_vars
             PROVE  Safe'
  BY DEF Safe
<1>0. Contents(target) /\ Contents(new) /\ Contents(backup) /\ Contents(built)
  BY DEF TypeOK, FilesOK, Contents
<1>a. ASSUME UNCHANGED <<published3, bpc, bexit>> PROVE Safe'
  BY <1>a DEF published3, Safe, Undisturbed, MovedIsBuilt, Running, PublishIsAtomic, NothingLeftOver
<1>1. CASE Build
  <2>1. bpc' = "copy" /\ bexit' = "none" /\ published' = {} /\ target' = backup'
    BY <1>1 DEF Build
  <2>2. \A t \in Targets : built'[t] # NoFile
    <3>1. builds + 1 \in Rules /\ hashes \in Hashes
      BY <1>1, PublishBoundsAssumption DEF Build, TypeOK, Rules
    <3> QED BY <1>1, <3>1, ArtifactsLemma, NoFileAssumption DEF Build
  <2> QED BY <2>1, <2>2
          DEF Safe, Undisturbed, MovedIsBuilt, Running, PublishIsAtomic, NothingLeftOver
<1>2. CASE CopyNew
  <2>1. UNCHANGED <<target, backup, published, built, bexit>> /\ bpc = "copy" /\ bpc' \in {"copy", "move"}
    BY <1>2 DEF CopyNew
  <2>2. Undisturbed' /\ Running' /\ PublishIsAtomic' /\ NothingLeftOver'
    BY <2>1 DEF Undisturbed, Running, PublishIsAtomic, NothingLeftOver
  <2>3. MovedIsBuilt'
    <3>1. bpc' = "move" => \A t \in Targets : new'[t] = built[t]
      BY <1>2 DEF CopyNew
    <3> QED BY <2>1, <3>1 DEF MovedIsBuilt, Running
  <2> QED BY <2>2, <2>3 DEF Safe
<1>3. CASE Mark
  <2>1. published \subseteq published' /\ published' \subseteq Targets
    BY <1>3, FirstLemma DEF Mark, Running
  <2>2. UNCHANGED <<target, new, backup, built, bpc, bexit>>
    BY <1>3 DEF Mark
  <2> QED BY <2>1, <2>2
          DEF Safe, Undisturbed, MovedIsBuilt, Running, PublishIsAtomic, NothingLeftOver
<1>4. CASE Move
  <2>1. PICK t \in Unmoved : /\ t \in published
                             /\ target' = [target EXCEPT ![t] = new[t]]
                             /\ new' = [new EXCEPT ![t] = NoFile]
    BY <1>4 DEF Move, MayMove
  <2>2. UNCHANGED <<backup, published, built, bpc, bexit>> /\ bpc = "move"
    BY <1>4 DEF Move
  <2>3. t \in Targets /\ new[t] # NoFile /\ new[t] = built[t]
    BY <2>1, <2>2 DEF Unmoved, MovedIsBuilt
  <2>4. /\ target'[t] = built[t] /\ new'[t] = NoFile
        /\ \A u \in Targets \ {t} : target'[u] = target[u] /\ new'[u] = new[u]
    BY <1>0, <2>1, <2>3 DEF Contents
  <2>5. Undisturbed'
    BY <2>1, <2>2, <2>4 DEF Undisturbed
  <2>6. MovedIsBuilt'
    BY <2>2, <2>3, <2>4 DEF MovedIsBuilt
  <2> QED BY <2>2, <2>5, <2>6 DEF Safe, Running, PublishIsAtomic, NothingLeftOver
<1>5. CASE BuildEnd
  <2>1. /\ UNCHANGED <<target, new, backup, published, built>>
        /\ bpc = "move" /\ bpc' = "idle" /\ bexit' = "ok" /\ Unmoved = {}
    BY <1>5 DEF BuildEnd, published3
  <2>2. \A t \in Targets : new[t] = NoFile /\ target[t] = built[t]
    BY <2>1 DEF Unmoved, MovedIsBuilt
  <2>3. new = NoFiles /\ target = built
    BY <1>0, <2>2 DEF Contents, NoFiles
  <2> QED BY <2>1, <2>3
          DEF Safe, Undisturbed, MovedIsBuilt, Running, PublishIsAtomic, NothingLeftOver
<1>6. CASE Interrupt
  BY <1>6 DEF Interrupt, published3, Safe, Undisturbed, MovedIsBuilt, Running,
              PublishIsAtomic, NothingLeftOver
<1>7. CASE Restore
  <2> DEFINE f == First(published)
  <2>1. f \in published /\ f \in Targets
    BY <1>7, FirstLemma DEF Restore, Running
  <2>2. /\ UNCHANGED <<new, backup, built, bpc>> /\ bpc = "rollback"
        /\ published' = published \ {f}
        /\ bexit' \in {bexit, "unrestored"}
    BY <1>7 DEF Restore
  <2>3. CASE bexit' = "unrestored"
    BY <2>1, <2>2, <2>3
    DEF Safe, Undisturbed, MovedIsBuilt, Running, PublishIsAtomic, NothingLeftOver
  <2>4. CASE bexit' # "unrestored"
    <3>1. target' = [target EXCEPT ![f] = backup[f]] /\ bexit' = bexit
      BY <1>7, <2>4 DEF Restore
    <3>2. target'[f] = backup[f] /\ \A u \in Targets \ {f} : target'[u] = target[u]
      BY <1>0, <2>1, <3>1 DEF Contents
    <3> HIDE DEF f
    <3>3. Undisturbed'
      BY <2>1, <2>2, <3>1, <3>2 DEF Undisturbed
    <3> QED BY <2>2, <3>1, <3>3 DEF Safe, MovedIsBuilt, Running, PublishIsAtomic, NothingLeftOver
  <2> QED BY <2>3, <2>4
<1>8. CASE RollbackEnd
  <2>1. /\ UNCHANGED <<target, backup, published, built>>
        /\ bpc = "rollback" /\ bpc' = "idle" /\ published = {} /\ new' = NoFiles
        /\ bexit' = IF bexit = "none" THEN "failed" ELSE bexit
    BY <1>8 DEF RollbackEnd
  <2>2. bexit' = "failed" => target = backup
    <3>1. bexit' = "failed" => bexit = "none"
      BY <2>1 DEF Running
    <3>2. bexit = "none" => \A t \in Targets : target[t] = backup[t]
      BY <2>1 DEF Undisturbed
    <3> QED BY <1>0, <3>1, <3>2 DEF Contents
  <2>3. bexit' # "ok"
    BY <2>1 DEF Running
  <2> QED BY <2>1, <2>2, <2>3
          DEF Safe, Undisturbed, MovedIsBuilt, Running, PublishIsAtomic, NothingLeftOver
<1>9. CASE Kill
  BY <1>9 DEF Kill, Safe, Undisturbed, MovedIsBuilt, Running, PublishIsAtomic, NothingLeftOver
<1>10. CASE EditHashes
  BY <1>10, <1>a DEF EditHashes, buildVars
<1>11. CASE Package
  BY <1>11, <1>a DEF Package, buildVars
<1>12. CASE PackageStep
  BY <1>12, <1>a DEF PackageStep, Sources, Seal, Verify, Clear, Stage, buildVars
<1>13. CASE BuildFails
  BY <1>13, <1>a DEF BuildFails, buildVars
<1>14. CASE UNCHANGED vars
  BY <1>14, <1>a DEF vars, buildVars
<1> QED BY <1>1, <1>2, <1>3, <1>4, <1>5, <1>6, <1>7, <1>8, <1>9, <1>10, <1>11, <1>12, <1>13, <1>14
        DEF Next, BuildStep

-----------------------------------------------------------------------------
\* The invariant holds in every reachable state.
THEOREM PublishInvariance == Spec => []PublishInv
<1>1. PublishInv /\ [Next]_vars => PublishInv'
  BY TypeStep, SafeStep DEF PublishInv
<1> QED BY InitInv, <1>1, PTL DEF Spec

\* The variables of the builds and packagings keep their types.
THEOREM PublishTypes == Spec => []TypeOK
<1>1. PublishInv => TypeOK
  BY DEF PublishInv
<1> QED BY PublishInvariance, <1>1, PTL

\* build-rules.sh publishes all three files or none: however many builds were
\* killed before, a build that ends leaves what it built or what it found.
THEOREM PublicationIsAtomic == Spec => []PublishIsAtomic
<1>1. PublishInv => PublishIsAtomic
  BY DEF PublishInv, Safe
<1> QED BY PublishInvariance, <1>1, PTL

\* No .new file survives a build that has set its traps and was not killed, however
\* many builds were killed before it or failed before their traps.
THEOREM PublicationIsTidy == Spec => []NothingLeftOver
<1>1. PublishInv => NothingLeftOver
  BY DEF PublishInv, Safe
<1> QED BY PublishInvariance, <1>1, PTL

-----------------------------------------------------------------------------
\* A packaging that nobody disturbs has verified the bundle it stages against
\* the manifest it stages.
Verified ==
    /\ ppc # "idle" => ~released
    /\ ~overlap /\ ppc \in {"clear", "stage"} => psenc = target["manifest"]
    /\ ~overlap /\ ppc = "stage" => staged.bundle \in {NoFile, psenc}

ReleaseInv == TypeOK /\ Verified /\ ReleaseIsConsistent

\* A step that publishes nothing keeps what the packaging relies on, and so does
\* one that publishes and is seen as an overlap.
LEMMA BystanderLemma ==
    ASSUME ReleaseInv, UNCHANGED packVars, overlap => overlap',
           UNCHANGED target \/ overlap' = (overlap \/ ppc # "idle")
    PROVE  (Verified /\ ReleaseIsConsistent)'
<1>1. UNCHANGED <<psenc, ppc, staged, released>>
  BY DEF packVars
<1>2. ~overlap' => ~overlap
  OBVIOUS
<1>3. ~overlap' => target' = target \/ ppc = "idle"
  OBVIOUS
<1> QED BY <1>1, <1>2, <1>3 DEF ReleaseInv, Verified, ReleaseIsConsistent

\* Every step keeps the packaging's invariant.
LEMMA ReleaseStep == ReleaseInv /\ [Next]_vars => ReleaseInv'
<1> SUFFICES ASSUME ReleaseInv, [Next]_vars PROVE (Verified /\ ReleaseIsConsistent)'
  BY TypeStep DEF ReleaseInv
<1>1. CASE Build
  BY <1>1, BystanderLemma DEF Build
<1>2. CASE CopyNew
  BY <1>2, BystanderLemma DEF CopyNew
<1>3. CASE Mark
  BY <1>3, BystanderLemma DEF Mark
<1>4. CASE Move
  <2>1. UNCHANGED packVars /\ overlap' = (overlap \/ ppc # "idle")
    BY <1>4 DEF Move
  <2> QED BY <2>1, BystanderLemma
<1>5. CASE BuildEnd
  BY <1>5, BystanderLemma DEF BuildEnd, published3
<1>6. CASE Interrupt
  BY <1>6, BystanderLemma DEF Interrupt, published3
<1>7. CASE Restore
  <2>1. UNCHANGED packVars /\ overlap' = (overlap \/ ppc # "idle")
    BY <1>7 DEF Restore
  <2> QED BY <2>1, BystanderLemma
<1>8. CASE RollbackEnd
  BY <1>8, BystanderLemma DEF RollbackEnd
<1>9. CASE Kill
  <2>1. /\ UNCHANGED packVars
        /\ UNCHANGED <<target, overlap>> \/ overlap' = (overlap \/ ppc # "idle")
    BY <1>9 DEF Kill
  <2>2. CASE UNCHANGED <<target, overlap>>
    BY <2>1, <2>2, BystanderLemma
  <2>3. CASE overlap' = (overlap \/ ppc # "idle")
    BY <2>1, <2>3, BystanderLemma
  <2> QED BY <2>1, <2>2, <2>3
<1>10. CASE EditHashes
  <2>1. UNCHANGED packVars /\ overlap' = (overlap \/ ppc # "idle")
    BY <1>10 DEF EditHashes
  <2> QED BY <2>1, BystanderLemma
<1>11. CASE Package
  BY <1>11 DEF Package, Verified, ReleaseIsConsistent
<1>12. CASE Sources
  BY <1>12 DEF Sources, Throw, buildVars, published3, counts, ReleaseInv, Verified, ReleaseIsConsistent
<1>13. CASE Seal
  BY <1>13 DEF Seal, Throw, buildVars, published3, counts, ReleaseInv, Verified, ReleaseIsConsistent
<1>14. CASE Verify
  BY <1>14
  DEF Verify, Matches, Throw, buildVars, published3, counts, ReleaseInv, Verified, ReleaseIsConsistent
<1>15. CASE Clear
  BY <1>15
  DEF Clear, Throw, NoStage, buildVars, published3, counts, ReleaseInv, Verified, ReleaseIsConsistent
<1>16. CASE Stage
  <2>1. UNCHANGED <<target, psenc, overlap>> /\ ppc = "stage"
    BY <1>16 DEF Stage, buildVars, published3
  <2>2. CASE staged' = [staged EXCEPT !.bundle = psenc] /\ UNCHANGED <<ppc, released>>
    <3>1. staged'.bundle = psenc
      BY <2>2 DEF ReleaseInv, TypeOK
    <3> QED BY <2>1, <2>2, <3>1 DEF ReleaseInv, Verified, ReleaseIsConsistent
  <2>3. CASE /\ staged.bundle # NoFile
             /\ staged' = [staged EXCEPT !.manifest = target["manifest"]]
             /\ ppc' = "idle"
    <3>1. staged'.bundle = staged.bundle /\ staged'.manifest = target["manifest"]
      BY <2>3 DEF ReleaseInv, TypeOK
    <3> QED BY <2>1, <2>3, <3>1 DEF ReleaseInv, Verified, ReleaseIsConsistent
  <2>4. CASE ppc' = "idle" /\ UNCHANGED <<staged, released>>
    BY <2>1, <2>4 DEF ReleaseInv, Verified, ReleaseIsConsistent
  <2> QED BY <1>16, <2>2, <2>3, <2>4 DEF Stage
<1>17. CASE BuildFails
  BY <1>17, BystanderLemma DEF BuildFails, buildVars, published3
<1>18. CASE UNCHANGED vars
  BY <1>18
  DEF vars, buildVars, published3, packVars, counts, ReleaseInv, Verified, ReleaseIsConsistent
<1> QED BY <1>1, <1>2, <1>3, <1>4, <1>5, <1>6, <1>7, <1>8, <1>9, <1>10, <1>11, <1>12,
           <1>13, <1>14, <1>15, <1>16, <1>17, <1>18 DEF Next, BuildStep, PackageStep

\* package-release.ps1 stages a bundle and the manifest that describes it, as
\* long as nothing is published or edited while it runs: a mixture that a killed
\* build has left and hashes edited since the manifest are refused.
THEOREM ReleaseConsistency == Spec => []ReleaseIsConsistent
<1>1. Init => ReleaseInv
  BY InitInv DEF PublishInv, Init, ReleaseInv, Verified, ReleaseIsConsistent
<1>2. ReleaseInv => ReleaseIsConsistent
  BY DEF ReleaseInv
<1> QED BY <1>1, ReleaseStep, <1>2, PTL DEF Spec
=============================================================================
