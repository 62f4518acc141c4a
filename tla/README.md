# PowerScanner: a TLA+ verification project

PowerScanner is an on-demand malware scanner for one machine: a window (egui)
starts a scan, a worker thread walks the disk, hashes each file, matches it
against a sealed bundle of hashes and YARA rules, shows the results and appends
them to a signed log. Around it stand the tools that build the rules, seal the
bundle and stage a release, and a Python loop that drives the development tasks.

This directory models those parts in TLA+, checks them with TLC and proves some
of their properties with TLAPS. `PROJECT.json` lists the components, runs,
mutants, hazards, theorems and, for every definition, the source lines it stands
for. Paths below are relative to the repository.

## 1. The system

| component | state | operations | interacts with |
|---|---|---|---|
| window (`gui/src/main.rs`, `gui/src/app.rs`) | `AppState`: phase, stream, results, counters, receiver, timer, filter of the table | `update`, `pump`, `reduce`, `begin`, `start_scan`, `visible_results` | reads the scan channel; starts workers |
| scan worker (`gui/src/app.rs`) | locals of `run_scan` | `run_scan`, `persist_results`, `send_*` | walker, store, engine, log; sends on the channel |
| engine (`core/src/scan/engine.rs`) | progress mutex, results | `scan_all_with_progress`, `scan_entry`, `read_yara_bytes` | rayon pool, file system, hash db, rules, callback |
| walker and targets (`core/src/scan/walk.rs`, `targets.rs`) | none | `roots_for`, `enumerate` | file system, environment |
| incremental cache (`core/src/scan/incremental.rs`) | path to (size, mtime) | `is_unchanged`, `record`, JSON | engine (the window always passes an empty one) |
| result log (`core/src/sink/jsonl.rs`, `crypto/signer.rs`) | `results.jsonl` | `create`, `write`, `verify_file` | file locks; any number of processes |
| signature store (`core/src/signatures/store.rs`, `crypto/vault.rs`) | `bundle.psenc`, temporary files | `load_or_import`, `import_plaintext`, `persist_bundle`, `seal`, `open` | file system; several processes |
| rules and hashes (`core/src/signatures/rules.rs`, `hashdb.rs`) | compiled rules, hash set | `compile_from_sources`, `contains_rule_declaration`, `scan_bytes`, `contains` | yara-x |
| key derivation (`core/src/crypto/machine_key.rs`) | none | `derive_machine_key` | OS identifiers |
| sealing tool (`tools/seal-bundle`) | output bundle, its temporary file | `run`, `atomic_write`, `verify_bundle` | store, rules |
| rule build (`tools/build-rules.sh`) | `signatures/rules/bundled.yar`, `bundled.yarc`, `signatures/MANIFEST.json`, their `.new` files and backups | filter, merge, count, publish, rollback | the release script and the scanner read them |
| release packaging (`tools/package-release.ps1`) | the release directory | build, check, seal, verify, stage | rule build, sealing tool |
| engineering loop (`tools/engineering_loop.py`) | `tasks/loop_state.json`, `.ai/STATE.md` | `main`, `process_task` | codex, git, cargo |

### What is hard in it

* **Threads.** The UI thread, the worker and the rayon threads meet in a bounded
  channel and a mutex that is held across a blocking send. A full channel stalls
  the pool until the next frame drains it; a panic in a rule match ends the worker
  without a message; a closed window drops the receiver under everybody's feet.
* **Files that change while they are read.** An entry's size, its hash and its
  bytes come from three separate accesses.
* **Crashes and failing writes.** The log is appended in place; the bundle is
  replaced through a temporary file by any of several processes; the rule build
  replaces three files one after the other and rolls back on a signal.
* **Three readers of one text.** A rule file is read with `awk` and `grep` by the build,
  compiled by YARA-X, and looked through by the scanner; where they disagree about a
  comment or a string, rules are dropped, miscounted or refused.
* **Links.** A preset is a list of places, any of which may be missing, overlap with
  another, lie behind a link or be one.
* **Retries and restarts.** The engineering loop escalates a failing task through
  a ladder of models and saves its state between steps.

What each part has to get right:

* **window, worker, pool**: a scan ends on the screen, as done only if all of it
  happened; counters and ring agree with the results; scans do not overlap.
* **walk and engine**: each listed file gets exactly one verdict, a detection is
  not lost to a later failure, and nothing unread is called clean.
* **targets**: what a preset is about is scanned, and nothing outside of it.
* **result log**: records of several writers do not mix; an acknowledged record is
  in the file; a torn write damages no more than its own line.
* **signature store and sealing**: a reader never meets half a bundle; a damaged one
  is reported and not replaced; temporary files do not pile up.
* **rule build and packaging**: the bundle compiles, the scanner takes it, and its
  manifest counts the rules that are in it; three files are published together or not at all; a
  release holds a bundle and the manifest of that very bundle.
* **engineering loop**: what is recorded as PASS was verified, in the order of the
  dependencies, is kept by later runs, and can be read off `.ai/STATE.md` when an
  interruption has torn the state file.

## 2. The modules

| module | models | composes |
|---|---|---|
| `ScanPipeline` | the window, the channel, the worker and the pool | all four kinds of threads |
| `ScanSession` | what a scan promises the user, without threads (abstract) | |
| `ScanPipelineRefinement` | the mapping of the first to the second | both |
| `ScanPipelineProofs` | types, phases, counters and progress, and that every step is one of the session, proved | |
| `ScanTargets` | presets, environment, links and the walk over whole trees | targets, walk |
| `ScanTargetsProofs` | what the walk lists, proved | |
| `FileScan` | the walk and `scan_entry` against a file system that changes | walk, hasher, engine |
| `FileScanProofs` | the verdicts, proved | |
| `ResultLog` | writers and verifiers of one log file | sink, file lock, verifier |
| `ResultLogProofs` | all safety properties of the log, proved | |
| `SignatureStore` | processes that load, import and seal the bundle | store, sealing tool |
| `AtomicBundle` | one register that is replaced in one step (abstract) | |
| `SignatureStoreProofs` | the files implement the register; temporary files, proved | |
| `RuleBundle` | rule files, their merging, and three readers of them | build script, compiler, scanner |
| `RuleBundleProofs` | the three readers compared, and the invariant of the build, proved | |
| `RulePublish` | a rule build and a packaging that share a directory | build script, packaging script, `seal-bundle --verify` |
| `RulePublishProofs` | atomicity of the build, consistency of a release, proved | |
| `EngineeringLoop` | runs of the loop and its two state files | |
| `EngineeringLoopProofs` | the records of the loop, proved | |

The modules meet where the program's parts do. `ScanTargets` says which files are
found, `FileScan` which verdict each gets, `ScanPipeline` what becomes of the verdicts
on their way to the screen and the log, and `ResultLog` what becomes of a record.
`RuleBundle` says what a build puts together, `RulePublish` how it is put in place and
sealed, and `SignatureStore` how a sealed bundle reaches a scanner. An `MC*` module
instantiates each specification for TLC. Operators with an underscore
(`Judge_ErrFirst`) are mutations of the one without it, used only to check that a
property notices them.

### ScanPipeline

| state | code |
|---|---|
| `ui` | where the UI thread stands in a frame: `pump`, drawing, between frames, closed |
| `phase`, `stream`, `results`, `malicious_seen`, `errors_seen`, `timing` | the fields of `AppState` of that name (`timing`: `started_at.is_some()`) |
| `filter`, `only_bad` | the filter of the table; the query is given by the set of entries whose row contains it |
| `rx` | `AppState.rx`; `"taken"` while `pump` holds the receiver it `take()`s |
| `chan` | the queue behind `sync_channel(CHANNEL_CAP)` |
| `worker` | the point `run_scan` has reached |
| `thread`, `completed` | each rayon thread in the closure of `scan_all_with_progress`, and the number behind its mutex |
| `found`, `verdict`, `panicked`, `logged` | locals of the worker: entries, results, a pending panic, records written |

`Frame`, `Recv`, `RecvEmpty`, `RecvDisconnected` and `EndFrame` are `pump` cut at
each `try_recv`; `Begin` is `begin` together with `start_scan`, whose thread may
fail to spawn; `EditFilter` is the search field and the check box, which are only there
when there is a table. `LoadOk` to `Exit` are the points of `run_scan` with each early
return; `ScanEntry` to `SendProgress` are the closure, which holds the mutex from
`Lock` to the end of its callback. `PanicEntry` is a panic in `scan_entry`, the only
place outside the lock where foreign code runs; rayon lets the other threads
finish their share and resumes it on the worker (`Unwind`). An element of `Entries`
is one `FileEntry`: where roots overlap (`%APPDATA%` and the start-up folder in it)
one file is two entries, and both are scanned.

`ScanSession` knows the user's side only: files are reported, once each, and the
scan ends done, with totals of what was reported and everything logged, or failed.

### ScanTargets

A `world` is a tree of directories, files and links, and an environment; it does not
change. `Begin` is `roots_for` with the existence checks of `env_path` and
`risky_roots`, `NextRoot` and `Visit` are the loop of `enumerate` and one entry of its
`WalkDir`, with `should_walk_entry` on the entry itself, the root included. `Real` is how
the system resolves a path, a name after the other (`Follow`): `exists` follows every
link, `symlink_metadata` all but the last. `push` is the closure that keeps a path only
if it exists. `Names` are the names a file can have; the proofs need no more of them
than that the fixed places can be spelled.

### FileScan

`content`, `access`, `dirOk` are the machine; `Edit` and `SetAccess` change a file
between any two accesses of the scan, and an edit while a thread has the file open
(`dirty`) lets it read a mixture with any properties. `OpenDir` and `Visit` are
`WalkDir` and `entry.metadata()`; `HashOpen` and `HashDone` are `sha256_file`;
`YaraOpen` and `YaraDone` are `read_yara_bytes` with its size limit and sentinel
byte, and the match. `Return` is the end of `scan_entry` together with the map that
makes an `Error` result of an `Err`. A content is no more than what the scan can
tell of it: blacklisted, matched by a rule, above the limit. `always` is history: the
findings that everything the file has held since its scan began deserves; what a
mixture deserves is unknown, so it empties the set.

### ResultLog

`file` is the sequence of pieces that `write` appends: the fixed prefix, the record,
the mac with its envelope, the newline. A write that fails or dies between two of
them leaves a torn line (`tears`). `LockExclusive` and `VerifyLock` are the `fs4`
locks, which go with the handle. `VerifyLine` reads to the next newline and judges
the line as `verify_reader` does, in its order: envelope first (`Config`), then the
mac (`Tamper`). The mac is the record it was computed over.

### SignatureStore

`bundle` (`bundle.psenc`) and `temps` are the files; a sealed file is whole or not, synced
or not. `proc` holds the processes: the step each has reached, whether it is a scanner
(`load_or_import`) or the sealing tool, its process id and its `BUNDLE_TEMP_COUNTER`, what
it has read, its temporary file, and how its last call ended. The two share
the steps that differ only in the file's name and in what happens when the name is
taken (`CreateTemp`) or the rename is refused (`Refused`). Both read hashes and rules in
two steps. `Die`, `PowerLoss`, `DamageBundle`, `EditPlain` and a process id that is
used again are the environment.

`AtomicBundle` has one `value`, and per process a `call` and what it `got`. A call that
succeeds reads or replaces the value at one moment and returns it; one that fails or dies
has not touched it; only a sealer, and a loader that found no value, may replace it.
The mapping (`Register`) takes the bundle's content for the value, or a mark for a
damaged one, and the rename for the moment.

### RuleBundle

A text is a sequence of symbols: the characters that mean something to a reader (a
slash, a star, a quote, a backslash, a newline...) and whole words. `Awk` is the
automaton in `extract_rule_names`, a symbol at a time with one symbol ahead, and
`RuleNames` the `grep` after it; `contains_rule_declaration` is the scanner's, whose
loops over an index (`Loop`) go on where `Beyond` says; `Lex`,
`Parse` and `Compiles` are what YARA-X does with such a text, as far as the two others
depend on it. `Examine` is one turn of the loop over the fetched files (compiles,
prone to false positives, name taken, base name taken), `Merge` the `find | cat` and
`yr compile`, `Count` the manifest. A token remembers whether a space follows it
(`spaced`), as `grep` wants one between the words of a declaration. `Tidy` and
`KnownRegexes` describe the texts for which the readers are meant to agree.

### RulePublish

`target`, `new`, `backup` are three files each, by name; `published` is the array of
that name in the script. `CopyNew`, `Mark`, `Move` and `BuildEnd` are the commands
from line 192 on; `Interrupt` is a failing command or a signal, which goes to the
EXIT trap; `Restore` and `RollbackEnd` are that trap. `Kill` is `SIGKILL`, or a second
signal during the trap, which may leave a file half copied. `Package`, `Sources`,
`Seal`, `Verify`, `Clear` and `Stage` are the packaging script, any step of which may
throw. `BuildFails` is a build that ends before line 189, where the traps are set: a source
that cannot be fetched or is not what its ref says, two flattened names that collide, a
whole that does not compile or has no rules, an invalid date. It rolls nothing back
and leaves the `.new` files of a build killed before it, so `bexit`, which says how the last build with traps
ended, stays as it was, and `NothingLeftOver` and `PublishIsAtomic` speak of that build. `overlap` records that something was published or edited while a packaging
ran: no lock keeps the two apart.

### EngineeringLoop

`saved` is `loop_state.json`, `state` the dictionary in memory, `announced` the tasks
that `.ai/STATE.md` calls done, `built` what is really in the tree. `Begin` draws
the arguments and loads the state; `Select` is the choice of the next task; `RunCodex`, `RunVerify`,
`Escalate`, `Record` are `process_task`; `EndTask` and `Finish` save. `Die` may leave
the state file truncated, and `Repair` is an operator who deletes it.

`append_ai_state` (`Announce`) does nothing where `.ai/STATE.md` does not exist. `aiState` says
whether it does: it may be missing from the beginning, be taken away, and be begun anew
(`MoveAiState`). A verify command runs the tests of the tasks in `Selects`, its own or not; it may
exit with anything, and where it exits with 0 at least `MinTests` of them have passed
(`Verifies`, a task that is there counting as one test). So a task can be verified that nobody
has built, and one that is built can fail. `recorded` and `written` are history for the
properties: what the state file has ever called PASS, and whose code has ever been there. `PassIsClosed`
says of what is PASS on what it rests (`DependenciesPass`, `PassIsTested`), `NothingForgotten` of what
was found out where it is written (`AllIsSaved`, `PassIsOnRecord`).

## 3. What is checked

| run | instance | states | what it shows |
|---|---|---|---|
| `pipeline_safety` | 3 entries, 2 threads, channel 2, stream 2, 2 scans; symmetry | 86 983 | the nine safety and action properties of the pipeline |
| `pipeline_liveness` | 2 entries, 2 threads, channel 1, stream 1, 2 scans | 35 701 | a scan ends; the pipeline implements `ScanSession`, fairness included |
| `targets` | 60 worlds: 10 trees, 6 environments; 3 presets | 37 080 | what a preset is about is scanned, and nothing outside its roots |
| `files` | 2 files in 2 directories, 1 thread, 3 changes, 5 contents | 509 222 | verdicts against a changing file system; the scan ends though the pool is smaller than the list |
| `files_skipped` | as `files`, 1 change | | finding 2 |
| `log` | 2 writers, 3 records, 2 torn writes, 2 verifications | 167 918 | damage only after a tear, and contained; acknowledged records verify; writes return |
| `log_torn` | 2 writers, 2 records, 1 torn write | | finding 1 |
| `store` | 2 processes, 2 pids, 2 versions, 2 calls, 2 mishaps of any kinds | 315 710 | the bundle is whole, temporary files are removed, the files are an atomic register, a call returns |
| `rules` | all builds of up to 2 files out of the texts of `MCRuleBundle` | 53 963 | the readers agree on what is a rule; from tidy files the merge compiles and the count is exact |
| `rules_count` | as `rules` | | finding 3 |
| `publish` | 3 builds, 2 packagings, 1 edit, 1 kill | 2 432 172 | atomic publication, no `.new` files left over, consistent release |
| `loop` | 3 tasks, 3 tiers, 2 runs, 1 task broken | 149 738 | records of the engineering loop: closed, tested, saved, announced, kept; a run ends |

**Why the bounds suffice.** The channel, the stream and the pool are smaller than the
number of entries, so that the channel is full, the oldest line is dropped and
a thread waits for the mutex while another holds it and blocks. Two scans are
needed for anything to survive from one to the next: counters, a filter, a late message.
In `targets` a place is missing where its variable is unset, is a link itself (`Temp`
moved to another drive), lies behind a link (all of the user's folders moved) or inside
another place (`Startup`); a link may lead back up, and a directory may not be listed. Two files suffice for one to disturb the other, three changes for
one between each two accesses of one file; with one thread the second file waits.
Three records are the least with one before and one after a torn line; two tears let the
second hit what the first has left. Two processes race for a name or a rename; two
mishaps let a process die and the next one with its id meet what it has left. The
texts of `rules` are one or two pieces, each of which has something that one of the
readers may mistake (a comment that seems to end at once, a quote in a regular
expression, a rule name in a comment, a last line without an end); the trouble comes
from what a piece leaves open for the next one, so pairs of pieces show it, and pairs of
files show it over the end of a file. Three tasks whose order in the list is not
the order of their dependencies are the least with both a direct and a transitive
dependency; the last of them has a command without a filter, which runs the tests of all three.
Two runs let one load what another has saved, find it torn, or begin again after a repair,
the same task failing or succeeding in both; TLC finds no error with three either (2 437 395
states).
Three builds let one start from what a killed one has left and fail before its traps,
and the third clean up after both.

**Symmetry** is used in `pipeline_safety` only, on sets that no expression distinguishes,
and never with liveness.

**Fairness.** `ScanPipeline`: a frame that has begun runs to its end, and while a scan
is on the screen `update` asks for a repaint within 120 ms, so frames come; the
worker and each pool thread are ordinary threads (weak fairness) while the window
is open, and nothing is assumed of them after, since the process ends. `ResultLog`: a
writer that has begun goes on and is granted a lock that stays free (the bound on
records ends any competition; with endless writers the lock itself would have to be
fair, which the code cannot promise).
`FileScan`, `SignatureStore`: what has begun goes on, the environment need not act. `EngineeringLoop`:
the agent and the verify commands return. No fairness is assumed for starting
anything, for failures or for the environment. `ScanTargets`, `RuleBundle` and `RulePublish`
state none: they are only asked what is never wrong.

`CHECK_DEADLOCK FALSE` appears where a system may rest: files scanned, no call
open, no run left within the bound, a build at its end. The pipeline and the log are
checked for deadlock; a closed window may stutter (`Ended`).

### Findings

1. **`log_torn`** A write that stops half way leaves a torn line that makes
   `verify_file` fail on this log for ever after: the next record is appended to the
   same line, so an acknowledged record can be unverifiable through no tampering.
   `docs/PRD.md` asks for a log that verifies.
2. **`files_skipped`** The architecture document promises an error finding for what
   cannot be read; a directory that cannot be listed, and the files in it, get none:
   `enumerate` drops the `Err` of the walk.
3. **`rules_count`** The plan of phase 1 wants a manifest whose provenance never drifts from
   the bundle. Its `total_rules` comes from `extract_rule_names`, which takes a rule only if it
   begins its line and has its name on the same line: the second of two rules on a
   line and a name on the next line compile, are published and are not counted.

Seen while modelling, and not the subject of a run: with `--task` the engineering loop
runs a task without looking at its `depends_on` (`tools/engineering_loop.py:349`), which
is why `PassIsClosed` speaks of tasks that were not forced.

### Hazards the model shows and no property rules out

`PROJECT.json` lists the hazards with the properties that watch them. A few have none, because
the code accepts them: records that were acknowledged and lost with the power
(`flush` on a `File` does nothing), a `hashes.txt` and rules of different versions sealed
together, a packaging that copies the manifest of a build that published after the
verification, and rules that the merge loses: a file whose extension is not in lower case is
fetched without regard to case (`build-rules.sh:110`), kept, counted in `total_files`, its
names keep other files out, and it is not merged (l. 135); a comment in a last line
without an end swallows the first line of the next file (l. 137). Others are watched in part.
`PassIsOnRecord` speaks of a `.ai/STATE.md` that was there all the time, since without one a PASS
is saved and never announced (`engineering_loop.py:237`). `PassIsTested` says that enough of the tests
a command runs were written, not that they are those of the task: `min_tests` is to keep
the loop from recording tasks nobody has implemented (l. 222), but "N passed" is added up
whosoever tests they are, so where the command runs those of other tasks too (TASK-016,
and the third task of `MCEngineeringLoop`), they are enough. Known beyond the list: two loops at once overwrite each other's state
file (`engineering_loop.py:337`); an agent that breaks a task that is PASS is not
noticed (l. 116); the rollback of the rule build runs under `set +e` and goes on after
a backup it could not copy back (`build-rules.sh:177`); overlapping roots count a file
twice (`targets.rs:27`); the extension of a rule file is compared as it is by the
import (`store.rs:113`), without its case by the sealing tool.

## 4. What is proved

All of it for any values of the constants that meet the assumptions in the modules:
finite sets of entries, sinks and processes, no more processes than process ids,
positive capacities, natural bounds, and that `NoFile`, `Torn`, `NoEntry` are no data. TLC
evaluates each of the assumptions in the runs.

`ScanPipelineProofs`, for any finite set of entries, any threads, any capacities and
any number of scans:

* `TypeCorrect`: types, and the bounds of stream and channel. `TypeInv` adds that
  the pool rests unless the worker is in the scan and that a busy thread has an
  entry with a verdict.
* `DoneIsCompleteHolds`, `PumpStaysArmed`, `TerminalIsFinalHolds`, `NoOrphanWorkerHolds`, all from one
  inductive invariant `PhaseInv`. None of the four is inductive: each speaks of the
  screen, and what is about to be on the screen is in the channel. `PhaseInv`
  therefore says what is under way: `LastWord`, that a message that ends the scan is
  the last in the channel and its sender has nothing left to do; `FinishedIsComplete`,
  that a `Finished` in the channel carries complete results; `ResultsComplete`, what is
  complete from which point of `run_scan` on; `QuietOffScreen`, that off the screen
  nothing speaks any more; `PumpHasReceiver`, that `rx` is taken exactly during a
  pump. The induction has a lemma for the pool, the worker, the frame, and a message
  received. The two action properties follow from the invariant and `PhaseChanges`,
  which lists the steps that change the phase.

* `ScreenMatchesScanHolds`, `ProgressNotAheadHolds`, `ProgressMonotoneHolds` and, with `FinishedIsLast`,
  `DoneComesUpWholeHolds`, by counting. `CountInv` says that as long as somebody
  reads, every verdict has been told to the user, is in the channel, or is in the
  hand of one thread, and in one of these places only (`VerdictsAreAccounted`); that the mutex
  has one holder, which knows the count behind it (`PoolIsSerial`); that the progress on the
  screen, in the channel and behind the mutex only grows in this order (`ProgressIsOrdered`),
  and a `Progress` comes after the files it counts.
* `SessionSafety`: every step of the pipeline is a step of `ScanSession` under the mapping, or
  leaves it as it is.

`ScanTargetsProofs`, for any tree of any depth with any links, any environment and preset:

* `WalkInvariant`, `PlacesAreScannedHolds` and `WalkStaysInsideHolds`. An entry is named by its root and
  the names below it (`Entry`), and `Place` is where these names lead without a link.
  `ListedInv` says that what is listed is where its names say (`Found`), so a link on the
  way, which would lead elsewhere, is refuted; `TodoInv` the same of what is still to be
  visited, whose last name alone is not yet followed (`Reached`); `CompleteInv` that a
  wanted file of a root that was begun is listed or lies below an entry to be visited.
  `RootsInv` ties the roots to the places of the preset.
* `RealTo` resolves a path by recursion over its names; that it is defined
  (`RealToIsDefined`) and what it does at the next name (`RealToAt`) are lemmas.

`RuleBundleProofs`, for texts of any length and any number of files:

* `CountIsSoundHolds`: awk counts only what the compiler declares. `Together` relates the state
  of awk and that of the compiler after the same symbols of a text: their modes match, and
  what awk has printed on its line is what the compiler has made tokens of. They keep
  step unless the compiler has met an error or a regular expression awk cannot know
  (`Broken`), which stays so (`BrokenStays`) and is excluded by the hypotheses at the end of
  the text. `TogetherPlain`, `TogetherQuoted` and `TogetherCode` are the cases of a step. A line that
  `grep` takes (`BeginsLine`, `Spaces`, `IsOf`) is then a declaration of the parser
  (`CountedIsDeclared`).
* `ScannerAgreesHolds`: `Off` says of the compiler's state that it is in error or has a regular
  expression before any rule, which no text that compiles reaches (`CompilesReadable`: the
  grammar begins with a rule). At each place the scanner's loop comes to, the compiler is
  in its code mode (`AtCode`), after a comment (`AfterLine`, `AfterBlock`), after a string
  (`AfterString`) and otherwise; so it sees the word `rule` exactly where a token is made of it.
* `BuildInvariant`: the files kept compile and share no name (`PassedInv`); the merged text is the
  files merged, in some order, one after the other, and what is counted has been
  compiled (`MergedInv`).
* `TidyIsExactHolds`, in two halves. The first is the converse of `CountIsSound`, for one text
  (`TidyCount`). `Together` says only that what awk prints comes from tokens; `Where` gives each
  token its place in what is printed: the places grow, their lines are told apart as the
  lines of the tokens are, and every symbol that is no space belongs to a token or to
  the string or regular expression in progress. So a declaration that begins its line as
  a token begins it in the printed text, which `grep` takes (`DeclaredIsCounted`). The second
  half is about files one after the other. A tidy file ends its last line, so that the
  compiler's reader is back where it began, some lines and tokens further on (`TidyEnd`,
  `After`); from there every step is the one it would have made at the beginning (`LexMoved`),
  and what follows is not seen before (`ReadsFirst`, `ReadsSecond`). The tokens are therefore those of
  the first file and then those of the second on later lines (`JoinedTokens`), they parse one
  after the other (`ParseJoined`), and tidiness, declarations and distinct names carry over
  (`Joined`, and `JoinedAll` for any number of files). That no two merged files declare one
  name comes from `PassedInv`, because by the first half what awk read of each is what
  it declares.

Both modules need induction over data, the length of a path or of a text. The induction
theorems of the library take an operator, which none of the installed provers can
instantiate; instead a set of numbers stands for the predicate, and `Induction` (from the
well-founded order of the naturals, through `LeastNat`) says that a set which has 0 and
the successor of each of its elements has them all. That a recursive function exists
is shown the same way (`Recursion`).

`FileScanProofs`, for any files in any directories, any pool and any number of changes:

* `ScanTypes`, `NeverFalseClean`, `DetectionsAreKept`, `UndisturbedAreJudged`, `StableThreatsAreCaught`,
  `ListedAreJudged`, from the invariant `ScanInv`. The verdict of an undisturbed file is
  only right at the end, so the invariant says at each point what is known of it
  (`OnItsWay`): it is in the list or will be, its size class is that of its content,
  its findings so far are those its hash deserves. `Progressed` says what an entry has
  behind it at each point of `scan_entry`, `WalkFirst` that nothing is judged before the
  walk has ended. Most of the induction is one lemma (`EntryLemma`): a step of
  `scan_entry` concerns its own file and no other; a change of the machine concerns
  only a file it touches.

`ResultLogProofs`, for any sinks, records, torn writes and runs of the verifier:

* `TypeCorrect`, from `SinksInv`: one sink holds the lock, the file ends with what that
  sink has written of its record, and what was acknowledged is stored in one piece.
* `OkCoversAckedHolds`, from `VerifierInv`: what was due has been accepted or is stored in
  front of the reader. `LineMeetsRecord` is what it rests on: a line that begins before
  a stored record ends before it or with it.
* `DamageMeansTearHolds`, from `CleanInv`: before the first tear the file, up to the line in
  progress (`Settled`), consists of stored records.
* `DamageIsContainedHolds`, from `TearsInv`: a tear is paid for when it leaves the file dirty or
  when it has cost a record; the records lost and the dirt are no more than the tears.

  `LineEnd` is a `CHOOSE` of the first newline; that there is a first one (`LeastNat`,
  `LineEndIsFirst`) comes from the well-founded order of the naturals.

`SignatureStoreProofs`, for any processes, process ids, versions, calls and mishaps:

* `BundleIsWholeHolds` and `TypeCorrect`, from `StoreInv`: `Sound` says of each process that it holds
  one temporary file under its own id with what it has read, whole before it is
  synced and synced before it is renamed; `OwnIds` that no other has this id, so that
  nobody else touches the file; `BundleIsGood` that what was published was synced.
* `IsAtomicHolds`: `Spec => IsAtomic`, the refinement of `AtomicBundle`. The rename maps to the
  store, the reading to the load, a death to a crash, and all the rest, with one
  lemma for each kind of step, to no step at all.
* `TempsAreRemovedHolds`, from `OrphansInv`: only a death or a failed removal leaves a file
  behind, and each is counted.

`RulePublishProofs`, for any number of builds, packagings, edits and kills:

* `PublishTypes`, `PublicationIsAtomic` and `PublicationIsTidy`. The property looks at ended
  builds only; the invariant says of a running one that an unmarked file is as it was
  found (`Undisturbed`), which is what makes marking before moving right, and that a
  file without a `.new` has been moved (`MovedIsBuilt`). Builds that fail before their traps
  are steps like any other: they may come between a kill and the build that cleans up.
* `ReleaseConsistency`: an undisturbed packaging that has passed `Verify` has a bundle
  and a manifest that agree (`Verified`).

`EngineeringLoopProofs`, for any tasks with any dependencies (cycles included), any
number of runs and of interruptions:

* `LoopTypes`, `RecordsAreClosed`, `NothingIsForgotten`, `LaddersAreClimbed`, from `LoopInv`: the state
  file is a copy of the memory of some run, so `MemoryIsSound` says of the memory what
  is claimed of the file, and that it has lost no unforced PASS of the file it was loaded from;
  `TaskIsReady` that the task at work was ready or forced when
  it was chosen and is still; `Climbed` which tiers are behind it; `FileIsRecorded` ties the
  history `recorded` to the file. What is broken later does not count against a
  PASS (`PassIsTested`), because `written` only grows (`VerifiedLater`, `WrittenLater`).
* `PassesAreKept`, an action property, from the same invariant: a save writes the memory, which
  holds every PASS of the file except forced ones.

**Only model-checked**: liveness (`ScanEnds`, `WriteReturns`, `ScanFinishes`, `CallsReturn`, `RunEnds`)
and the liveness part of `ImplementsSession`, which need fairness and `ENABLED`, both out of this
prover's reach. Every invariant and every action property the runs check is a theorem.

## 5. What is not modelled

* The incremental cache (`incremental.rs`): the window passes an empty `ScanCache`, no
  code records in it, saves it or loads it, though `README.md` and `docs/PRD.md`
  describe incremental scans. With an empty cache `is_unchanged` is false of every entry.
* Cryptography (AES-GCM, HMAC, key derivation) and the matching of rules: what is
  sealed whole opens, a mac is the record it signs, a content is matched or not. A match
  itself cannot fail here: the scanner gets bytes and no timeout.
* The parsing of `hashes.txt` (lines, trimmed, in lower case) and of `FP_PRONE_GLOBS`.
* In `RuleBundle`: conditions and strings of rules beyond what a reader may mistake, and
  regular expressions after `(`, `:`, `,`, `!` or `[` (as after `=`). The compiler there is a
  grammar of the texts that are enumerated, not of YARA.
* Links in `FileScan` (they are in `ScanTargets`), changes of the disk in `ScanTargets` (they
  are in `FileScan`), files that appear during the walk or come back after they were
  removed. Environment variables name directories, on drives `C:` and `D:`.
* Power loss under the log (`write` flushes and does not sync, and claims no more); for the
  bundle a rename that took place is taken to survive, as on a journaling file system.
* Prompts, preflight checks and the git branch of the engineering loop, which end a
  run before it changes anything; two loops or two rule builds at once.
* What is fetched, and that building takes time: a build is one step up to its traps, with a
  failure (`BuildFails`) or without. The attribution and path checks of the packaging are a throw.
* Drawing, labels and the ring; the directory of the results and its access list; the
  updater, which is a plan in `docs/` without code.
* Egui delivers at most one button press per frame to this window, so `Begin` happens at
  most once in a frame.

## 6. What is left

The plan the project started from (an abstract session and register, counting
invariants, proofs for the log and the store, the readers of rules, the targets) has been
carried out. What would add most next:

1. An abstract log, a bag of acknowledged records, that `ResultLog` implements as long
   as nothing is torn; `Stored` and `SinksInv` are the mapping's material.
2. The incremental cache, once something records in it: a stale entry hides a changed
   file, and the interesting question is what `size` and `mtime` can miss.
3. `hashes.txt` with its normalisation, as a third reader in `RuleBundle`.
4. Two engineering loops over one state file, and two rule builds over one directory,
   if they are ever meant to be safe; today the code does not try.
