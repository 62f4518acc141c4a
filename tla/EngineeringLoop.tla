-------------------------- MODULE EngineeringLoop ---------------------------
(***************************************************************************)
(* tools/engineering_loop.py: drives an external agent through the tasks   *)
(* of the plan, climbs the ladder of models when a task fails, and records *)
(* the outcome in tasks/loop_state.json and .ai/STATE.md.  Runs follow one *)
(* another, with --task, --max and --dry-run or without; one can be        *)
(* interrupted at any point, also while it writes its state.               *)
(***************************************************************************)
EXTENDS Integers, FiniteSets

CONSTANTS
    NTasks,      \* the tasks of loop_tasks.json, in order: 1..NTasks
    DependsOn,   \* per task, the tasks it depends on
    Routed,      \* per task, the tier its impl_model starts at
    Selects,     \* per task, the tasks whose tests its verify command runs
    MinTests,    \* per task, how many of them must have passed (min_tests; 0 without a
                 \* command, which counts as verified)
    Torn,        \* stands for a loop_state.json that does not parse
    MaxRuns,     \* bound: runs of the loop
    MaxBreaks    \* bound: tasks the agent breaks while it works on another

Tasks == 1..NTasks
LADDER == 1..3            \* Luna, Terra, Sol
AnyTask == 0              \* no --task

ASSUME TasksAssumption == NTasks \in Nat \ {0} /\ DependsOn \in [Tasks -> SUBSET Tasks]
ASSUME RoutedAssumption == Routed \in [Tasks -> LADDER]
ASSUME TestsAssumption == Selects \in [Tasks -> SUBSET Tasks] /\ MinTests \in [Tasks -> Nat]
ASSUME LoopBoundsAssumption == MaxRuns \in Nat /\ MaxBreaks \in Nat

VARIABLES
    saved,      \* loop_state.json: per task "none" | "PASS" | "BLOCKED", or Torn
    state,      \* the same, in the memory of the run
    aiState,    \* .ai/STATE.md: "kept" | "missing" | "anew" (there, after it was missing)
    announced,  \* the tasks it calls PASS
    recorded,   \* history: the tasks that loop_state.json has ever called PASS
    built,      \* the tasks whose code and tests are really there
    written,    \* history: the tasks whose code and tests have ever been there
    pc,         \* "off" | "select" | "codex" | "verify" | "record" | "finish"
    opts,       \* the run's arguments
    task,       \* the task it works on
    tier,       \* the tier it tries
    tried,      \* history: the tiers tried on this task
    result,     \* "none" | "PASS" | "BLOCKED" | "DRY"
    processed,  \* tasks processed by this run
    dryDone,    \* tasks a dry run has pretended to do
    forced,     \* history: tasks run with --task
    runs, breaks,
    exit        \* how the last run ended: "none" | "ok" | "blocked" | "died"

files == <<saved, aiState, announced, recorded>>
code  == <<built, written>>
run   == <<opts, task, tier, tried, result, processed, dryDone, exit>>
vars  == <<files, state, code, pc, run, forced, runs, breaks>>

\* Per task "none", "PASS" or "BLOCKED"; a file that does not parse is none of it.
Results == [Tasks -> {"none", "PASS", "BLOCKED"}]
ASSUME TornAssumption == Torn \notin Results

NoResults == [t \in Tasks |-> "none"]
Options   == [only : Tasks \cup {AnyTask}, max : 0..1, dry : BOOLEAN]
Passed(results) == {t \in Tasks : results[t] = "PASS"}

\* ready_tasks: not done, and all their dependencies done.
ReadyTasks_AnyDep(done) ==      \* Mutant: one dependency is enough.
    {t \in Tasks \ done : DependsOn[t] = {} \/ DependsOn[t] \cap done # {}}
ReadyTasks(done) == {t \in Tasks \ done : DependsOn[t] \subseteq done}

Pending ==
    IF opts.only # AnyTask THEN {opts.only}
    ELSE ReadyTasks(Passed(state) \cup dryDone) \ dryDone

Init ==
    /\ saved = NoResults
    /\ state = NoResults
    /\ aiState \in {"kept", "missing"}
    /\ announced = {}
    /\ recorded = {}
    /\ built = {}
    /\ written = {}
    /\ pc = "off"
    /\ opts = [only |-> AnyTask, max |-> 0, dry |-> FALSE]
    /\ task = 1
    /\ tier = 1
    /\ tried = {}
    /\ result = "none"
    /\ processed = 0
    /\ dryDone = {}
    /\ forced = {}
    /\ runs = 0
    /\ breaks = 0
    /\ exit = "none"

-----------------------------------------------------------------------------
Load_Fresh == state' = NoResults     \* Mutant: every run begins with no results.
Load == state' = saved

\* main: the state is loaded; one that does not parse ends the run at once.
Begin ==
    /\ pc = "off"
    /\ runs < MaxRuns
    /\ runs' = runs + 1
    /\ opts' \in Options
    /\ processed' = 0
    /\ dryDone' = {}
    /\ IF saved = Torn
       THEN exit' = "died" /\ UNCHANGED <<pc, state>>
       ELSE exit' = "none" /\ pc' = "select" /\ Load
    /\ UNCHANGED <<files, code, task, tier, tried, result, forced, breaks>>

\* The next task is taken, unless there is none or the operator says no.
Select ==
    /\ pc = "select"
    /\ \E t \in Pending :
          /\ \A other \in Pending : t <= other
          /\ task' = t
          /\ tier' = Routed[t]
    /\ tried' = {}
    /\ pc' = "codex"
    /\ forced' = IF opts.only # AnyTask /\ ~opts.dry THEN forced \cup {opts.only} ELSE forced
    /\ UNCHANGED <<files, state, code, opts, result, processed, dryDone, exit, runs, breaks>>

Stop ==
    /\ pc = "select"
    /\ Pending = {} \/ ~opts.dry
    /\ pc' = "finish"
    /\ UNCHANGED <<files, state, code, run, forced, runs, breaks>>

\* Mutant: the file is opened to be written, not to be appended to.
Announce_Overwrite(r) ==
    announced' = IF aiState = "missing" THEN announced ELSE IF r = "PASS" THEN {task} ELSE {}
\* append_ai_state: nothing happens without a .ai/STATE.md.
Announce(r) ==
    announced' = IF r = "PASS" /\ aiState # "missing" THEN announced \cup {task} ELSE announced

\* A result, in memory and in .ai/STATE.md.
Record(r) ==
    /\ state' = [state EXCEPT ![task] = r]
    /\ Announce(r)
    /\ result' = r
    /\ pc' = "record"

\* Mutant: the task is BLOCKED without climbing.
Escalate_GiveUp == Record("BLOCKED") /\ UNCHANGED tier
\* A failed attempt: the next tier, or BLOCKED when the ladder is exhausted.
Escalate ==
    IF tier + 1 \in LADDER
    THEN tier' = tier + 1 /\ pc' = "codex" /\ UNCHANGED <<state, announced, result>>
    ELSE Record("BLOCKED") /\ UNCHANGED tier

\* The agent works: it may build the task if what it depends on is there, and it
\* may break another.  It exits 0 or not.
RunCodex ==
    /\ pc = "codex"
    /\ ~opts.dry
    /\ tried' = tried \cup {tier}
    /\ \E made \in SUBSET {task}, broken \in SUBSET (built \ {task}) :
          /\ made # {} => DependsOn[task] \subseteq built
          /\ Cardinality(broken) <= 1 /\ breaks + Cardinality(broken) <= MaxBreaks
          /\ built' = (built \ broken) \cup made
          /\ written' = written \cup made
          /\ breaks' = breaks + Cardinality(broken)
    /\ \/ pc' = "verify" /\ UNCHANGED <<state, announced, tier, result>>
       \/ Escalate
    /\ UNCHANGED <<saved, aiState, recorded, opts, task, processed, dryDone, exit, forced, runs>>

\* run_verify: the exit code may be anything; where it is 0, enough tests must have
\* passed of those the command runs, be they the task's own or not.  A task that is
\* there counts as one test.
PassedTests == Cardinality(Selects[task] \cap built)
Verifies_ExitCode == BOOLEAN        \* Mutant: `cargo test <filter>` exits 0, no more is asked.
Verifies == {ok \in BOOLEAN : ok => MinTests[task] <= PassedTests}

RunVerify ==
    /\ pc = "verify"
    /\ \E ok \in Verifies : IF ok THEN Record("PASS") /\ UNCHANGED tier ELSE Escalate
    /\ UNCHANGED <<saved, aiState, recorded, opts, task, tried, processed, dryDone, exit, code,
                   forced, runs, breaks>>

\* A dry run invokes neither and records nothing.
DryRun ==
    /\ pc = "codex"
    /\ opts.dry
    /\ result' = "DRY"
    /\ pc' = "record"
    /\ UNCHANGED <<files, state, code, opts, task, tier, tried, processed, dryDone, exit,
                   forced, runs, breaks>>

\* Where the run goes after a task.
AfterTask_KeepGoing == "select"     \* Mutant: a BLOCKED task does not stop the loop.
AfterTask ==
    IF result = "BLOCKED" THEN "off"
    ELSE IF opts.only # AnyTask \/ (opts.max > 0 /\ processed + 1 >= opts.max) THEN "finish"
    ELSE "select"

\* save_json, unless the run is dry.
Save_OnPass ==                       \* Mutant: only a PASS is saved.
    saved' = IF opts.dry \/ result = "BLOCKED" THEN saved ELSE state
Save == saved' = IF opts.dry THEN saved ELSE state
Recorded == recorded' = IF opts.dry THEN recorded ELSE recorded \cup Passed(state)

\* The counter is only compared with --max: it saturates at NTasks.
EndTask ==
    /\ pc = "record"
    /\ Save /\ Recorded
    /\ processed' = IF processed < NTasks THEN processed + 1 ELSE processed
    /\ dryDone' = IF result = "DRY" THEN dryDone \cup {task} ELSE dryDone
    /\ pc' = AfterTask
    /\ exit' = IF AfterTask = "off" THEN "blocked" ELSE "none"
    /\ UNCHANGED <<state, aiState, announced, code, opts, task, tier, tried, result, forced, runs, breaks>>

Finish ==
    /\ pc = "finish"
    /\ Save /\ Recorded
    /\ pc' = "off"
    /\ exit' = "ok"
    /\ UNCHANGED <<state, aiState, announced, code, opts, task, tier, tried, result, processed,
                   dryDone, forced, runs, breaks>>

\* Interrupted; in save_json, which truncates the file and writes it anew, it may
\* leave half of it.
Die ==
    /\ pc # "off"
    /\ pc' = "off"
    /\ exit' = "died"
    /\ saved' \in {saved} \cup (IF pc \in {"record", "finish"} /\ ~opts.dry THEN {Torn} ELSE {})
    /\ UNCHANGED recorded
    /\ UNCHANGED <<state, aiState, announced, code, opts, task, tier, tried, result, processed,
                   dryDone, forced, runs, breaks>>

\* The operator removes a state file that does not parse: all is to be done again.
Repair ==
    /\ saved = Torn
    /\ pc = "off"
    /\ runs < MaxRuns
    /\ saved' = NoResults
    /\ UNCHANGED <<aiState, announced, recorded, state, code, pc, run, forced, runs, breaks>>

\* .ai/STATE.md is taken away or begun anew, by a checkout, the agent or its owner.
MoveAiState ==
    /\ \/ aiState # "missing" /\ aiState' = "missing" /\ announced' = {}
       \/ aiState = "missing" /\ aiState' = "anew" /\ UNCHANGED announced
    /\ UNCHANGED <<saved, recorded, state, code, pc, run, forced, runs, breaks>>

Step == Select \/ Stop \/ RunCodex \/ RunVerify \/ DryRun \/ EndTask \/ Finish
Next == Begin \/ Step \/ Die \/ Repair \/ MoveAiState

\* A run goes on: the agent and the verify command return.
Spec     == Init /\ [][Next]_vars
FairSpec == Spec /\ WF_vars(Step)
-----------------------------------------------------------------------------
(***************************************************************************)
(* Properties                                                              *)
(***************************************************************************)
\* Every variable has its type.
TypeOK ==
    /\ saved \in Results \cup {Torn}
    /\ state \in Results
    /\ aiState \in {"kept", "missing", "anew"}
    /\ announced \subseteq Tasks /\ recorded \subseteq Tasks
    /\ built \subseteq written /\ written \subseteq Tasks
    /\ pc \in {"off", "select", "codex", "verify", "record", "finish"}
    /\ opts \in Options
    /\ task \in Tasks /\ tier \in LADDER /\ tried \subseteq LADDER
    /\ result \in {"none", "PASS", "BLOCKED", "DRY"}
    /\ processed \in 0..NTasks
    /\ dryDone \subseteq Tasks /\ forced \subseteq Tasks
    /\ runs \in 0..MaxRuns /\ breaks \in 0..MaxBreaks
    /\ exit \in {"none", "ok", "blocked", "died"}

\* The dependencies of what is recorded as PASS are recorded as PASS; the only
\* exceptions are tasks somebody ran with --task.
DependenciesPass ==
    saved # Torn => \A t \in Passed(saved) \ forced : DependsOn[t] \ forced \subseteq Passed(saved)

\* min_tests tests that its command runs have been written by somebody.  They may be
\* the tests of other tasks: the code does not tell them apart (l. 227).
PassIsTested ==
    saved # Torn => \A t \in Passed(saved) : MinTests[t] <= Cardinality(Selects[t] \cap written)

\* What is recorded as PASS rests on dependencies recorded as PASS and on tests, across
\* runs, interruptions, dry runs, and whatever the agent has broken since.
PassIsClosed == DependenciesPass /\ PassIsTested

\* A run that ends by itself, also one that ends BLOCKED without the save at the end
\* of main, has saved everything it found out.
AllIsSaved == pc = "off" /\ exit \in {"ok", "blocked"} /\ ~opts.dry => saved = state

\* As long as nobody takes .ai/STATE.md away, every PASS that loop_state.json has ever
\* held is in it.  Without one a PASS is saved and never announced.
PassIsOnRecord == aiState = "kept" => recorded \subseteq announced

\* What a run found out is written down: in the state file by its end, and a PASS in
\* .ai/STATE.md before, from which a state file that was torn and removed can be
\* made again.
NothingForgotten == AllIsSaved /\ PassIsOnRecord

\* A run takes no PASS back that an earlier one has saved, unless somebody ran the
\* task with --task: what else is lost, an interrupted save has torn.
PassIsKept ==
    [][saved # Torn /\ saved' # Torn => Passed(saved) \ forced \subseteq Passed(saved')]_vars

\* "Never silently skipped": a task is BLOCKED only after every tier from its own
\* up was tried.
BlockedIsExhausted ==
    pc = "record" /\ result = "BLOCKED" => tried = Routed[task]..3

\* A run ends: by itself, BLOCKED, or at --max.
RunEnds == pc # "off" ~> pc = "off"
=============================================================================
