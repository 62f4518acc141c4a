------------------------ MODULE EngineeringLoopProofs ------------------------
(***************************************************************************)
(* The records of the engineering loop are right for any tasks with any    *)
(* dependencies, any number of runs and any interruptions.                 *)
(***************************************************************************)
EXTENDS EngineeringLoop, FiniteSetTheorems, TLAPS

\* Every PASS that was not forced rests on a PASS or on a forced task.
Closed(results) ==
    \A t \in Passed(results) \ forced : DependsOn[t] \ forced \subseteq Passed(results)

\* Every PASS rests on as many tests as it takes, of those that were written.
Verified(results) ==
    \A t \in Passed(results) : MinTests[t] <= Cardinality(Selects[t] \cap written)

\* What a run has in memory is as sound as what it has loaded, and it has forgotten
\* none of it.
MemoryIsSound ==
    pc # "off" =>
        /\ Closed(state) /\ Verified(state)
        /\ aiState = "kept" => Passed(state) \subseteq announced
        /\ saved # Torn /\ Passed(saved) \ forced \subseteq Passed(state)
FileIsRecorded == saved # Torn => Passed(saved) \subseteq recorded

\* The task at work was ready when it was selected, or somebody asked for it.
TaskIsReady ==
    pc \in {"codex", "verify"} /\ ~opts.dry =>
        \/ task \in forced
        \/ task \notin Passed(state) /\ DependsOn[task] \subseteq Passed(state)
OnlyVerifiedRuns ==
    /\ pc = "verify" => ~opts.dry
    /\ pc = "record" /\ result = "DRY" => opts.dry
OnlyDryIsDry == pc # "off" /\ ~opts.dry => dryDone = {}

\* The tiers tried so far are those below the one at work.
Climbed ==
    /\ pc = "codex"  => tried = Routed[task]..(tier - 1) /\ Routed[task] <= tier
    /\ pc = "verify" => tried = Routed[task]..tier /\ Routed[task] <= tier

LoopInv ==
    /\ TypeOK /\ MemoryIsSound /\ TaskIsReady /\ OnlyVerifiedRuns /\ OnlyDryIsDry /\ Climbed
    /\ FileIsRecorded
    /\ DependenciesPass /\ PassIsTested /\ PassIsOnRecord /\ AllIsSaved /\ BlockedIsExhausted

-----------------------------------------------------------------------------
\* The options of a run that is not asked for anything are options.
LEMMA OptionsType == [only |-> AnyTask, max |-> 0, dry |-> FALSE] \in Options
  BY DEF Options, AnyTask

\* A task is PASS or not, and its results change where they are recorded only.
LEMMA RecordLemma ==
    ASSUME TypeOK, NEW r \in {"PASS", "BLOCKED"}, Record(r)
    PROVE  /\ state' \in Results /\ announced' \subseteq Tasks
           /\ result' = r /\ pc' = "record"
           /\ announced \subseteq announced'
           /\ Passed(state') = IF r = "PASS" THEN Passed(state) \cup {task} ELSE Passed(state) \ {task}
           /\ r = "PASS" /\ aiState = "kept" => announced' = announced \cup {task}
           /\ \A t \in Tasks \ {task} : state'[t] = state[t]
           /\ state'[task] = r
  BY DEF Record, Announce, TypeOK, Results, Passed

\* A failed attempt ends in a higher tier or with BLOCKED.
LEMMA EscalateLemma ==
    ASSUME TypeOK, Escalate
    PROVE  \/ /\ tier' = tier + 1 /\ tier' \in LADDER /\ pc' = "codex"
              /\ UNCHANGED <<state, announced, result>>
           \/ tier = 3 /\ UNCHANGED tier /\ Record("BLOCKED")
  BY DEF Escalate, TypeOK, LADDER

\* LoopInv holds before the first run.
LEMMA LoopInit == Init => LoopInv
<1> SUFFICES ASSUME Init PROVE LoopInv
  OBVIOUS
<1>1. NoResults \in Results /\ Passed(NoResults) = {}
  BY DEF NoResults, Results, Passed
<1>2. TypeOK
  BY <1>1, OptionsType, TasksAssumption, LoopBoundsAssumption DEF Init, TypeOK, LADDER, Tasks
<1> QED BY <1>1, <1>2 DEF Init, LoopInv, MemoryIsSound, TaskIsReady, OnlyVerifiedRuns,
      OnlyDryIsDry, Climbed,
           FileIsRecorded, DependenciesPass, PassIsTested, PassIsOnRecord, AllIsSaved, BlockedIsExhausted

-----------------------------------------------------------------------------
\* Closedness in any later state in which more tasks have been forced.
LEMMA ClosedLater ==
    ASSUME NEW r \in Results, Closed(r), forced \subseteq forced'
    PROVE  \A t \in Passed(r) \ forced' : DependsOn[t] \ forced' \subseteq Passed(r)
  BY DEF Closed

\* A result of a task that was ready, or forced, leaves the results closed.
LEMMA ClosedRecord ==
    ASSUME TypeOK, Closed(state), NEW r \in {"PASS", "BLOCKED"}, Record(r),
           task \in forced \/ (task \notin Passed(state) /\ DependsOn[task] \subseteq Passed(state))
    PROVE  Closed(state')
<1>1. Passed(state') = IF r = "PASS" THEN Passed(state) \cup {task} ELSE Passed(state) \ {task}
  BY RecordLemma
<1>2. CASE r = "PASS"
  BY <1>1, <1>2 DEF Closed
<1>3. CASE r = "BLOCKED" /\ task \in forced
  BY <1>1, <1>3 DEF Closed
<1>4. CASE r = "BLOCKED" /\ task \notin Passed(state)
  BY <1>1, <1>4 DEF Closed
<1> QED BY <1>2, <1>3, <1>4

\* More tasks that are there mean no fewer tests.
LEMMA MoreTests ==
    ASSUME NEW n \in Nat, NEW some, NEW fewer \in SUBSET Tasks, NEW more \in SUBSET Tasks,
           fewer \subseteq more, n <= Cardinality(some \cap fewer)
    PROVE  n <= Cardinality(some \cap more)
<1>1. IsFiniteSet(some \cap more)
  <2>1. IsFiniteSet(1..NTasks)
    BY TasksAssumption, FS_Interval
  <2>2. some \cap more \subseteq 1..NTasks
    BY DEF Tasks
  <2> QED BY <2>1, <2>2, FS_Subset
<1>2. some \cap fewer \subseteq some \cap more
  OBVIOUS
<1>3. /\ IsFiniteSet(some \cap fewer)
      /\ Cardinality(some \cap fewer) <= Cardinality(some \cap more)
  BY <1>1, <1>2, FS_Subset
<1>4. Cardinality(some \cap fewer) \in Nat /\ Cardinality(some \cap more) \in Nat
  BY <1>1, <1>3, FS_CardinalityType
<1> QED BY <1>3, <1>4

\* Tests that were written stay written: a PASS that was verified still is later.
LEMMA VerifiedLater ==
    ASSUME TypeOK, NEW r \in Results, Verified(r), written \subseteq written', written' \subseteq Tasks
    PROVE  \A t \in Passed(r) : MinTests[t] <= Cardinality(Selects[t] \cap written')
<1> SUFFICES ASSUME NEW t \in Passed(r)
             PROVE  MinTests[t] <= Cardinality(Selects[t] \cap written')
  OBVIOUS
<1>1. MinTests[t] \in Nat /\ MinTests[t] <= Cardinality(Selects[t] \cap written)
  BY TestsAssumption DEF Passed, Verified
<1> QED BY <1>1, MoreTests DEF TypeOK

\* So what memory and file say stays true when more is written.
LEMMA WrittenLater ==
    ASSUME LoopInv, pc # "off", written \subseteq written', written' \subseteq Tasks,
           UNCHANGED <<saved, state, aiState, announced, forced>>
    PROVE  (MemoryIsSound /\ PassIsTested)'
<1>1. /\ Closed(state) /\ Verified(state)
      /\ aiState = "kept" => Passed(state) \subseteq announced
      /\ saved # Torn /\ Passed(saved) \ forced \subseteq Passed(state)
  BY DEF LoopInv, MemoryIsSound
<1>2. /\ \A t \in Passed(state) : MinTests[t] <= Cardinality(Selects[t] \cap written')
      /\ \A t \in Passed(saved) : MinTests[t] <= Cardinality(Selects[t] \cap written')
  BY <1>1, VerifiedLater DEF LoopInv, TypeOK, PassIsTested, Verified
<1>3. Passed(state') = Passed(state) /\ Passed(saved') = Passed(saved)
  BY DEF Passed
<1> QED BY <1>1, <1>2, <1>3 DEF MemoryIsSound, PassIsTested, Closed, Verified

\* The result of an attempt of a run that is not dry keeps the invariant.
LEMMA RecordStep ==
    ASSUME LoopInv, pc \in {"codex", "verify"}, ~opts.dry, NEW r \in {"PASS", "BLOCKED"}, Record(r),
           UNCHANGED <<saved, aiState, recorded, opts, task, tier, processed, dryDone, exit, forced, runs>>,
           tried' \subseteq LADDER, breaks' \in 0..MaxBreaks,
           built' \subseteq written', written' \subseteq Tasks, written \subseteq written',
           r = "PASS" => MinTests[task] <= Cardinality(Selects[task] \cap written'),
           r = "BLOCKED" => tried' = Routed[task]..3
    PROVE  LoopInv'
<1> USE DEF LoopInv
<1>1. /\ state' \in Results /\ announced' \subseteq Tasks /\ result' = r /\ pc' = "record"
      /\ announced \subseteq announced'
      /\ Passed(state') = IF r = "PASS" THEN Passed(state) \cup {task} ELSE Passed(state) \ {task}
      /\ r = "PASS" /\ aiState = "kept" => announced' = announced \cup {task}
  BY RecordLemma
<1>2. /\ Closed(state) /\ Verified(state)
      /\ aiState = "kept" => Passed(state) \subseteq announced
      /\ saved # Torn /\ Passed(saved) \ forced \subseteq Passed(state)
      /\ task \in forced \/ (task \notin Passed(state) /\ DependsOn[task] \subseteq Passed(state))
  BY DEF MemoryIsSound, TaskIsReady
<1>3. Closed(state')
  BY <1>2, ClosedRecord
<1>4. TypeOK'
  BY <1>1 DEF TypeOK
<1>5. \A t \in Passed(state') : MinTests[t] <= Cardinality(Selects[t] \cap written')
  <2>1. \A t \in Passed(state) : MinTests[t] <= Cardinality(Selects[t] \cap written')
    BY <1>2, VerifiedLater DEF TypeOK
  <2> SUFFICES ASSUME NEW t \in Passed(state')
               PROVE  MinTests[t] <= Cardinality(Selects[t] \cap written')
    OBVIOUS
  <2>2. CASE t \in Passed(state)
    BY <2>1, <2>2
  <2>3. CASE r = "PASS" /\ t = task
    BY <2>3
  <2> QED BY <1>1, <2>2, <2>3
<1>6. aiState = "kept" => Passed(state') \subseteq announced'
  BY <1>1, <1>2
<1>7. Passed(saved) \ forced \subseteq Passed(state')
  BY <1>1, <1>2
<1>8. MemoryIsSound'
  BY <1>2, <1>3, <1>5, <1>6, <1>7 DEF MemoryIsSound, Closed, Verified
<1>9. (TaskIsReady /\ OnlyVerifiedRuns /\ OnlyDryIsDry /\ Climbed)'
  BY <1>1 DEF TaskIsReady, OnlyVerifiedRuns, OnlyDryIsDry, Climbed
<1>10. PassIsTested'
  BY <1>2, VerifiedLater DEF TypeOK, PassIsTested, Verified
<1>11. (FileIsRecorded /\ DependenciesPass /\ PassIsOnRecord /\ AllIsSaved /\ BlockedIsExhausted)'
  BY <1>1 DEF FileIsRecorded, DependenciesPass, PassIsOnRecord, AllIsSaved, BlockedIsExhausted
<1> QED BY <1>4, <1>8, <1>9, <1>10, <1>11

\* So does a failed attempt.
LEMMA EscalateStep ==
    ASSUME LoopInv, pc \in {"codex", "verify"}, ~opts.dry, Escalate,
           UNCHANGED <<saved, aiState, recorded, opts, task, processed, dryDone, exit, forced, runs>>,
           tried' = Routed[task]..tier, breaks' \in 0..MaxBreaks,
           built' \subseteq written', written' \subseteq Tasks, written \subseteq written'
    PROVE  LoopInv'
<1> USE DEF LoopInv
<1>0. tier \in LADDER /\ Routed[task] \in LADDER /\ Routed[task] <= tier
  BY RoutedAssumption DEF TypeOK, Climbed
<1>1. tried' \subseteq LADDER
  BY <1>0 DEF LADDER
<1>2. CASE tier = 3 /\ UNCHANGED tier /\ Record("BLOCKED")
  BY <1>1, <1>2, RecordStep
<1>3. CASE /\ tier' = tier + 1 /\ tier' \in LADDER /\ pc' = "codex"
           /\ UNCHANGED <<state, announced, result>>
  <2>1. TypeOK'
    BY <1>1, <1>3 DEF TypeOK
  <2>2. tried' = Routed[task]..(tier' - 1) /\ Routed[task] <= tier'
    BY <1>0, <1>3 DEF LADDER
  <2>3. (MemoryIsSound /\ PassIsTested)'
    BY <1>3, WrittenLater
  <2>4. (TaskIsReady /\ OnlyVerifiedRuns /\ OnlyDryIsDry /\ Climbed)'
    BY <1>3, <2>2 DEF TaskIsReady, OnlyVerifiedRuns, OnlyDryIsDry, Climbed
  <2>5. (FileIsRecorded /\ DependenciesPass /\ PassIsOnRecord /\ AllIsSaved /\ BlockedIsExhausted)'
    BY <1>3 DEF FileIsRecorded, DependenciesPass, PassIsOnRecord, AllIsSaved, BlockedIsExhausted
  <2> QED BY <2>1, <2>3, <2>4, <2>5
<1> QED BY <1>2, <1>3, EscalateLemma

-----------------------------------------------------------------------------
\* The beginning of a run keeps LoopInv.
LEMMA BeginStep == LoopInv /\ Begin => LoopInv'
<1> SUFFICES ASSUME LoopInv, Begin PROVE LoopInv'
  OBVIOUS
<1> USE DEF LoopInv
<1>0. /\ pc = "off" /\ runs' = runs + 1 /\ runs < MaxRuns /\ opts' \in Options
      /\ processed' = 0 /\ dryDone' = {}
      /\ UNCHANGED <<saved, aiState, announced, recorded, built, written, task, tier, tried, result,
                     forced, breaks>>
  BY DEF Begin, files, code
<1>1. runs' \in 0..MaxRuns /\ processed' \in 0..NTasks
  BY <1>0, LoopBoundsAssumption, TasksAssumption DEF TypeOK
<1>2. CASE saved = Torn /\ exit' = "died" /\ UNCHANGED <<pc, state>>
  BY <1>0, <1>1, <1>2 DEF TypeOK, MemoryIsSound, TaskIsReady, OnlyVerifiedRuns, OnlyDryIsDry, Climbed,
     FileIsRecorded, DependenciesPass, PassIsTested, PassIsOnRecord, AllIsSaved, BlockedIsExhausted
<1>3. CASE saved # Torn /\ exit' = "none" /\ pc' = "select" /\ state' = saved
  <2>1. TypeOK'
    BY <1>0, <1>1, <1>3 DEF TypeOK
  <2>2. MemoryIsSound'
    BY <1>0, <1>3 DEF DependenciesPass, PassIsTested, PassIsOnRecord, FileIsRecorded,
          MemoryIsSound, Closed, Verified
  <2>3. (TaskIsReady /\ OnlyVerifiedRuns /\ OnlyDryIsDry /\ Climbed)'
    BY <1>0, <1>3 DEF TaskIsReady, OnlyVerifiedRuns, OnlyDryIsDry, Climbed
  <2>4. (FileIsRecorded /\ DependenciesPass /\ PassIsTested /\ PassIsOnRecord /\ AllIsSaved /\ BlockedIsExhausted)'
    BY <1>0, <1>3 DEF FileIsRecorded, DependenciesPass, PassIsTested, PassIsOnRecord,
       AllIsSaved, BlockedIsExhausted
  <2> QED BY <2>1, <2>2, <2>3, <2>4
<1> QED BY <1>2, <1>3 DEF Begin, Load

\* Choosing a task, or none, keeps LoopInv.
LEMMA SelectStep == LoopInv /\ Select => LoopInv'
<1> SUFFICES ASSUME LoopInv, Select PROVE LoopInv'
  OBVIOUS
<1> USE DEF LoopInv
<1>1. /\ pc = "select" /\ tried' = {} /\ pc' = "codex"
      /\ forced' = IF opts.only # AnyTask /\ ~opts.dry THEN forced \cup {opts.only} ELSE forced
      /\ UNCHANGED <<saved, aiState, announced, recorded, state, built, written, opts, result, processed,
                     dryDone, exit, runs, breaks>>
  BY DEF Select, files, code
<1>2. PICK t \in Pending : task' = t /\ tier' = Routed[t]
  BY DEF Select
<1>3. opts.only \in Tasks \cup {AnyTask}
  BY DEF TypeOK, Options
<1>4. t \in Tasks /\ Routed[t] \in LADDER
  BY <1>2, <1>3, RoutedAssumption DEF Pending, ReadyTasks
<1>5. forced \subseteq forced' /\ forced' \subseteq Tasks
  BY <1>1, <1>3 DEF TypeOK
<1>6. TypeOK'
  BY <1>1, <1>2, <1>4, <1>5 DEF TypeOK
<1>7. MemoryIsSound'
  BY <1>1, <1>5, ClosedLater DEF MemoryIsSound, Closed, Verified, TypeOK
<1>8. TaskIsReady'
  <2>1. SUFFICES ASSUME ~opts.dry
                 PROVE  t \in forced' \/ (t \notin Passed(state) /\ DependsOn[t] \subseteq Passed(state))
    BY <1>1, <1>2 DEF TaskIsReady
  <2>2. CASE opts.only # AnyTask
    BY <1>1, <1>2, <2>1, <2>2 DEF Pending
  <2>3. CASE opts.only = AnyTask
    BY <1>1, <1>2, <2>1, <2>3 DEF Pending, ReadyTasks, OnlyDryIsDry
  <2> QED BY <2>2, <2>3
<1>9. Climbed'
  BY <1>1, <1>2, <1>4 DEF Climbed, LADDER
<1>10. DependenciesPass'
  BY <1>1, <1>5 DEF DependenciesPass
<1>11. (OnlyVerifiedRuns /\ OnlyDryIsDry /\ AllIsSaved /\ BlockedIsExhausted)'
  BY <1>1 DEF OnlyVerifiedRuns, OnlyDryIsDry, AllIsSaved, BlockedIsExhausted
<1>12. (FileIsRecorded /\ PassIsTested /\ PassIsOnRecord)'
  BY <1>1 DEF FileIsRecorded, PassIsTested, PassIsOnRecord
<1> QED BY <1>6, <1>7, <1>8, <1>9, <1>10, <1>11, <1>12

\* An attempt at a task keeps LoopInv.
LEMMA RunCodexStep == LoopInv /\ RunCodex => LoopInv'
<1> SUFFICES ASSUME LoopInv, RunCodex PROVE LoopInv'
  OBVIOUS
<1>1. /\ pc = "codex" /\ ~opts.dry /\ tried' = tried \cup {tier}
      /\ UNCHANGED <<saved, aiState, recorded, opts, task, processed, dryDone, exit, forced, runs>>
  BY DEF RunCodex
<1>2. /\ built' \subseteq written' /\ written \subseteq written' /\ written' \subseteq Tasks
      /\ breaks' \in 0..MaxBreaks
  <2>1. PICK made \in SUBSET {task}, broken \in SUBSET (built \ {task}) :
          /\ Cardinality(broken) <= 1 /\ breaks + Cardinality(broken) <= MaxBreaks
          /\ built' = (built \ broken) \cup made
          /\ written' = written \cup made
          /\ breaks' = breaks + Cardinality(broken)
    BY DEF RunCodex
  <2>2. IsFiniteSet(broken)
    <3>1. IsFiniteSet(1..NTasks)
      BY TasksAssumption, FS_Interval
    <3>2. broken \subseteq 1..NTasks
      BY DEF LoopInv, TypeOK, Tasks
    <3> QED BY <3>1, <3>2, FS_Subset
  <2>3. Cardinality(broken) \in Nat
    BY <2>2, FS_CardinalityType
  <2> QED BY <2>1, <2>3, LoopBoundsAssumption DEF LoopInv, TypeOK
<1>3. tier \in LADDER /\ Routed[task] \in LADDER /\ Routed[task] <= tier /\ tried = Routed[task]..(tier - 1)
  BY <1>1, RoutedAssumption DEF LoopInv, TypeOK, Climbed
<1>4. tried' = Routed[task]..tier
  BY <1>1, <1>3 DEF LADDER
<1>5. CASE Escalate
  BY <1>1, <1>2, <1>4, <1>5, EscalateStep
<1>6. CASE pc' = "verify" /\ UNCHANGED <<state, announced, tier, result>>
  <2>1. TypeOK'
    <3>1. tried' \subseteq LADDER
      BY <1>3, <1>4 DEF LADDER
    <3> QED BY <1>1, <1>2, <1>6, <3>1 DEF LoopInv, TypeOK
  <2>2. (MemoryIsSound /\ PassIsTested)'
    BY <1>1, <1>2, <1>6, WrittenLater
  <2>3. (TaskIsReady /\ OnlyVerifiedRuns /\ OnlyDryIsDry /\ Climbed)'
    BY <1>1, <1>3, <1>4, <1>6 DEF LoopInv, TaskIsReady, OnlyVerifiedRuns, OnlyDryIsDry, Climbed
  <2>4. (FileIsRecorded /\ DependenciesPass /\ PassIsOnRecord /\ AllIsSaved /\ BlockedIsExhausted)'
    BY <1>1, <1>6 DEF LoopInv, FileIsRecorded, DependenciesPass, PassIsOnRecord, AllIsSaved,
          BlockedIsExhausted
  <2> QED BY <2>1, <2>2, <2>3, <2>4 DEF LoopInv
<1> QED BY <1>5, <1>6 DEF RunCodex

\* A verification that holds has seen min_tests of the tests that were written.
LEMMA PassedLemma ==
    ASSUME LoopInv, TRUE \in Verifies
    PROVE  MinTests[task] <= Cardinality(Selects[task] \cap written)
<1>1. MinTests[task] <= Cardinality(Selects[task] \cap built)
  BY DEF Verifies, PassedTests
<1>2. MinTests[task] \in Nat /\ built \subseteq written /\ written \subseteq Tasks
  BY TestsAssumption DEF LoopInv, TypeOK
<1> QED BY <1>1, <1>2, MoreTests

\* The verification of an attempt keeps LoopInv.
LEMMA RunVerifyStep == LoopInv /\ RunVerify => LoopInv'
<1> SUFFICES ASSUME LoopInv, RunVerify PROVE LoopInv'
  OBVIOUS
<1>1. /\ pc = "verify"
      /\ UNCHANGED <<saved, aiState, recorded, opts, task, tried, processed, dryDone, exit, built, written,
                     forced, runs, breaks>>
  BY DEF RunVerify, code
<1>2. ~opts.dry
  BY <1>1 DEF LoopInv, OnlyVerifiedRuns
<1>3. CASE TRUE \in Verifies /\ Record("PASS") /\ UNCHANGED tier
  <2>1. MinTests[task] <= Cardinality(Selects[task] \cap written')
    BY <1>1, <1>3, PassedLemma
  <2> QED BY <1>1, <1>2, <1>3, <2>1, RecordStep DEF LoopInv, TypeOK
<1>4. CASE Escalate
  BY <1>1, <1>2, <1>4, EscalateStep DEF LoopInv, TypeOK, Climbed
<1>5. PICK ok \in Verifies : IF ok THEN Record("PASS") /\ UNCHANGED tier ELSE Escalate
  BY DEF RunVerify
<1>6. ok \in BOOLEAN
  BY DEF Verifies
<1> QED BY <1>3, <1>4, <1>5, <1>6

\* A file to which the memory was saved says what the memory says.
LEMMA SavedLemma ==
    ASSUME LoopInv, pc # "off",
           saved' = IF opts.dry THEN saved ELSE state,
           recorded' = IF opts.dry THEN recorded ELSE recorded \cup Passed(state),
           UNCHANGED <<state, aiState, announced, written, forced>>
    PROVE  (MemoryIsSound /\ FileIsRecorded /\ DependenciesPass /\ PassIsTested /\ PassIsOnRecord)'
<1>1. /\ Closed(state) /\ Verified(state)
      /\ aiState = "kept" => Passed(state) \subseteq announced
      /\ saved # Torn /\ Passed(saved) \ forced \subseteq Passed(state)
      /\ state # Torn
  BY TornAssumption DEF LoopInv, MemoryIsSound, TypeOK
<1>2. Passed(state') = Passed(state)
  BY DEF Passed
<1>3. CASE opts.dry
  <2>1. Passed(saved') = Passed(saved)
    BY <1>3 DEF Passed
  <2> QED BY <1>1, <1>2, <1>3, <2>1
          DEF LoopInv, MemoryIsSound, FileIsRecorded, DependenciesPass, PassIsTested,
                PassIsOnRecord, Closed, Verified
<1>4. CASE ~opts.dry
  <2>1. Passed(saved') = Passed(state)
    BY <1>4 DEF Passed
  <2> QED BY <1>1, <1>2, <1>4, <2>1
          DEF LoopInv, MemoryIsSound, FileIsRecorded, DependenciesPass, PassIsTested,
                PassIsOnRecord, Closed, Verified
<1> QED BY <1>3, <1>4

\* Recording the outcome of a task keeps LoopInv.
LEMMA EndTaskStep == LoopInv /\ EndTask => LoopInv'
<1> SUFFICES ASSUME LoopInv, EndTask PROVE LoopInv'
  OBVIOUS
<1>1. /\ pc = "record" /\ Save /\ Recorded
      /\ UNCHANGED <<state, aiState, announced, built, written, opts, task, tier, tried, result,
                     forced, runs, breaks>>
      /\ dryDone' = IF result = "DRY" THEN dryDone \cup {task} ELSE dryDone
      /\ pc' = AfterTask /\ exit' = IF AfterTask = "off" THEN "blocked" ELSE "none"
  BY DEF EndTask, code
<1>2. /\ saved' = IF opts.dry THEN saved ELSE state
      /\ recorded' = IF opts.dry THEN recorded ELSE recorded \cup Passed(state)
  BY <1>1 DEF Save, Recorded
<1>3. AfterTask \in {"off", "finish", "select"}
  BY DEF AfterTask
<1>4. processed' \in 0..NTasks
  BY TasksAssumption DEF EndTask, LoopInv, TypeOK
<1>5. TypeOK'
  BY <1>1, <1>2, <1>3, <1>4 DEF LoopInv, TypeOK, Passed
<1>6. (MemoryIsSound /\ FileIsRecorded /\ DependenciesPass /\ PassIsTested /\ PassIsOnRecord)'
  BY <1>1, <1>2, SavedLemma
<1>7. OnlyDryIsDry'
  BY <1>1, <1>3 DEF LoopInv, OnlyDryIsDry, OnlyVerifiedRuns
<1>8. (TaskIsReady /\ Climbed /\ OnlyVerifiedRuns)'
  BY <1>1, <1>3 DEF LoopInv, TaskIsReady, Climbed, OnlyVerifiedRuns
<1>9. (AllIsSaved /\ BlockedIsExhausted)'
  BY <1>1, <1>2, <1>3 DEF LoopInv, AllIsSaved, BlockedIsExhausted
<1> QED BY <1>5, <1>6, <1>7, <1>8, <1>9 DEF LoopInv

\* The end of a run, by itself or not, and of a task of a dry run.
LEMMA EndStep == LoopInv /\ (Stop \/ DryRun \/ Finish \/ Die) => LoopInv'
<1> SUFFICES ASSUME LoopInv PROVE Stop \/ DryRun \/ Finish \/ Die => LoopInv'
  OBVIOUS
<1> USE DEF LoopInv
<1>1. ASSUME Stop PROVE LoopInv'
  <2>1. /\ pc = "select" /\ pc' = "finish"
        /\ UNCHANGED <<saved, aiState, announced, recorded, state, built, written, run, forced,
              runs, breaks>>
    BY <1>1 DEF Stop, files, code
  <2> QED BY <2>1 DEF run, TypeOK, MemoryIsSound, TaskIsReady, OnlyDryIsDry, OnlyVerifiedRuns,
        Climbed, Closed,
          Verified, FileIsRecorded, DependenciesPass, PassIsTested, PassIsOnRecord,
             AllIsSaved, BlockedIsExhausted
<1>2. ASSUME DryRun PROVE LoopInv'
  <2>1. /\ pc = "codex" /\ opts.dry /\ result' = "DRY" /\ pc' = "record"
        /\ UNCHANGED <<saved, aiState, announced, recorded, state, built, written, opts, task, tier, tried,
                       processed, dryDone, exit, forced, runs, breaks>>
    BY <1>2 DEF DryRun, files, code
  <2> QED BY <2>1 DEF TypeOK, MemoryIsSound, TaskIsReady, OnlyDryIsDry, OnlyVerifiedRuns, Climbed, Closed,
          Verified, FileIsRecorded, DependenciesPass, PassIsTested, PassIsOnRecord,
             AllIsSaved, BlockedIsExhausted
<1>3. ASSUME Finish PROVE LoopInv'
  <2>1. /\ pc = "finish" /\ pc' = "off" /\ exit' = "ok"
        /\ saved' = IF opts.dry THEN saved ELSE state
        /\ recorded' = IF opts.dry THEN recorded ELSE recorded \cup Passed(state)
        /\ UNCHANGED <<state, aiState, announced, built, written, opts, task, tier, tried,
              result, processed,
                       dryDone, forced, runs, breaks>>
    BY <1>3 DEF Finish, Save, Recorded, code
  <2>2. (MemoryIsSound /\ FileIsRecorded /\ DependenciesPass /\ PassIsTested /\ PassIsOnRecord)'
    BY <2>1, SavedLemma
  <2>3. TypeOK'
    BY <2>1 DEF TypeOK, Passed
  <2> QED BY <2>1, <2>2, <2>3
          DEF TaskIsReady, OnlyDryIsDry, OnlyVerifiedRuns, Climbed, AllIsSaved, BlockedIsExhausted
<1>4. ASSUME Die PROVE LoopInv'
  <2>1. /\ pc' = "off" /\ exit' = "died" /\ saved' \in {saved, Torn}
        /\ UNCHANGED <<state, aiState, announced, recorded, built, written, opts, task, tier, tried, result,
                       processed, dryDone, forced, runs, breaks>>
    BY <1>4 DEF Die, code
  <2> QED BY <2>1 DEF TypeOK, MemoryIsSound, TaskIsReady, OnlyDryIsDry, OnlyVerifiedRuns, Climbed,
          FileIsRecorded, DependenciesPass, PassIsTested, PassIsOnRecord, AllIsSaved, BlockedIsExhausted
<1> QED BY <1>1, <1>2, <1>3, <1>4

\* What others do to the two state files keeps LoopInv.
LEMMA FilesStep == LoopInv /\ (Repair \/ MoveAiState) => LoopInv'
<1> SUFFICES ASSUME LoopInv PROVE Repair \/ MoveAiState => LoopInv'
  OBVIOUS
<1> USE DEF LoopInv
<1>1. ASSUME Repair PROVE LoopInv'
  <2>1. /\ saved = Torn /\ pc = "off" /\ saved' = NoResults
        /\ UNCHANGED <<aiState, announced, recorded, state, built, written, pc, opts, task,
              tier, tried, result,
                       processed, dryDone, exit, forced, runs, breaks>>
    BY <1>1 DEF Repair, run, code
  <2>2. NoResults \in Results /\ Passed(NoResults) = {} /\ state # Torn
    BY TornAssumption DEF NoResults, Results, Passed, TypeOK
  <2> QED BY <2>1, <2>2 DEF TypeOK, MemoryIsSound, TaskIsReady, OnlyDryIsDry, OnlyVerifiedRuns, Climbed,
          FileIsRecorded, DependenciesPass, PassIsTested, PassIsOnRecord, AllIsSaved, BlockedIsExhausted
<1>2. ASSUME MoveAiState PROVE LoopInv'
  <2>1. /\ aiState' \in {"missing", "anew"} /\ announced' \subseteq announced
        /\ UNCHANGED <<saved, recorded, state, built, written, pc, opts, task, tier, tried, result,
                       processed, dryDone, exit, forced, runs, breaks>>
    BY <1>2 DEF MoveAiState, run, code
  <2> QED BY <2>1 DEF TypeOK, MemoryIsSound, TaskIsReady, OnlyDryIsDry, OnlyVerifiedRuns, Climbed, Closed,
          Verified, FileIsRecorded, DependenciesPass, PassIsTested, PassIsOnRecord,
             AllIsSaved, BlockedIsExhausted
<1> QED BY <1>1, <1>2

\* Every step keeps LoopInv.
LEMMA LoopStep == LoopInv /\ [Next]_vars => LoopInv'
<1>1. ASSUME LoopInv, UNCHANGED vars PROVE LoopInv'
  BY <1>1 DEF vars, files, code, run, LoopInv, TypeOK, MemoryIsSound, TaskIsReady, OnlyDryIsDry,
     OnlyVerifiedRuns, Climbed, Closed, Verified, FileIsRecorded, DependenciesPass,
           PassIsTested, PassIsOnRecord,
     AllIsSaved, BlockedIsExhausted
<1> QED BY <1>1, BeginStep, SelectStep, RunCodexStep, RunVerifyStep, EndTaskStep, EndStep, FilesStep
        DEF Next, Step

\* The invariant of the loop: what it has in memory is sound, the task at work was
\* ready, and the tiers it has tried are those it climbed.
THEOREM LoopInvariant == Spec => []LoopInv
  BY LoopInit, LoopStep, PTL DEF Spec

\* The loop's variables keep their types: the tier never leaves the ladder, and a
\* state file holds results of the known tasks or is Torn.
THEOREM LoopTypes == Spec => []TypeOK
<1>1. LoopInv => TypeOK
  BY DEF LoopInv
<1> QED BY <1>1, LoopInvariant, PTL

\* What is recorded as PASS rests on recorded dependencies and on enough tests that
\* somebody has written, through any number of runs and interruptions.
THEOREM RecordsAreClosed == Spec => []PassIsClosed
<1>1. LoopInv => PassIsClosed
  BY DEF LoopInv, PassIsClosed
<1> QED BY <1>1, LoopInvariant, PTL

\* A run that ends by itself has saved what it knows, and while .ai/STATE.md is kept
\* every PASS that was ever saved is in it, though the state file was torn, and
\* removed, since.
THEOREM NothingIsForgotten == Spec => []NothingForgotten
<1>1. LoopInv => NothingForgotten
  BY DEF LoopInv, NothingForgotten
<1> QED BY <1>1, LoopInvariant, PTL

\* A task is BLOCKED only after its ladder was climbed to the end.
THEOREM LaddersAreClimbed == Spec => []BlockedIsExhausted
<1>1. LoopInv => BlockedIsExhausted
  BY DEF LoopInv
<1> QED BY <1>1, LoopInvariant, PTL

-----------------------------------------------------------------------------
\* A saved PASS stays in the file, but for tasks run with --task and for torn saves.
THEOREM PassesAreKept == Spec => PassIsKept
<1>1. LoopInv /\ [Next]_vars =>
        [saved # Torn /\ saved' # Torn => Passed(saved) \ forced \subseteq Passed(saved')]_vars
  <2> SUFFICES ASSUME LoopInv, Next, saved # Torn, saved' # Torn
               PROVE  Passed(saved) \ forced \subseteq Passed(saved')
    OBVIOUS
  <2>1. CASE saved' = saved
    BY <2>1 DEF Passed
  <2>2. CASE pc # "off" /\ saved' = state
    <3>1. Passed(saved') = Passed(state)
      BY <2>2 DEF Passed
    <3> QED BY <2>2, <3>1 DEF LoopInv, MemoryIsSound
  <2>3. CASE Begin \/ Select \/ Stop \/ RunCodex \/ RunVerify \/ DryRun \/ MoveAiState
    BY <2>1, <2>3 DEF Begin, Select, Stop, RunCodex, RunVerify, DryRun, MoveAiState, files
  <2>4. CASE EndTask \/ Finish
    BY <2>1, <2>2, <2>4 DEF EndTask, Finish, Save
  <2>5. CASE Die \/ Repair
    BY <2>1, <2>5 DEF Die, Repair
  <2> QED BY <2>3, <2>4, <2>5 DEF Next, Step
<1> QED BY <1>1, LoopInvariant, PTL DEF Spec, PassIsKept
=============================================================================
