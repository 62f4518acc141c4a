---------------------------- MODULE ScanPipeline ----------------------------
(***************************************************************************)
(* One PowerScanner window and the scans it runs.                          *)
(*                                                                         *)
(* The UI thread draws frames; each frame drains a bounded channel         *)
(* (gui/src/app.rs, pump and reduce) and may start a scan (gui/src/main.rs,*)
(* begin).  A scan is a worker thread (app.rs, run_scan) which collects    *)
(* the entries, hands them to a pool of rayon threads                      *)
(* (core/src/scan/engine.rs, scan_all_with_progress), appends the results  *)
(* to the signed log and sends one last message.  The pool threads share a *)
(* progress mutex which they hold while they send.                         *)
(***************************************************************************)
EXTENDS Integers, Sequences, FiniteSets

CONSTANTS
    Entries,      \* the files a scan may find
    NoEntry,      \* the entry of a pool thread that has none
    Threads,      \* the threads of the rayon pool
    ChannelCap,   \* CHANNEL_CAP
    StreamCap,    \* STREAM_CAP
    MaxScans      \* bound: how many scans the user starts

ASSUME EntriesAssumption == IsFiniteSet(Entries) /\ NoEntry \notin Entries
ASSUME CapAssumption == ChannelCap \in Nat \ {0} /\ StreamCap \in Nat \ {0}
ASSUME MaxScansAssumption == MaxScans \in Nat

VARIABLES
    \* --- AppState and the UI thread
    ui,             \* "idle" | "pump" | "draw" | "closed"
    phase,          \* AppState.phase
    stream,         \* AppState.stream
    results,        \* AppState.results
    malicious_seen, \* AppState.malicious_seen
    errors_seen,    \* AppState.errors_seen
    rx,             \* AppState.rx: "None", "Some", or "taken" by a pump
    timing,         \* AppState.started_at.is_some()
    filter,         \* AppState.filter: the entries whose row contains the query
    only_bad,       \* AppState.only_bad
    \* --- the channel of the current scan
    chan,
    \* --- the scan worker and its pool
    worker,         \* where run_scan stands
    found,          \* the enumerated entries
    verdict,        \* the verdicts so far: a function on a subset of found
    thread,         \* per pool thread: [pc, entry, done]
    completed,      \* the value behind the progress mutex
    panicked,       \* a pool thread has panicked
    logged,         \* results of this scan appended to results.jsonl
    \* --- history
    scans,          \* scans started so far
    shown           \* the files of this scan the UI has been told of

screen == <<phase, stream, results, malicious_seen, errors_seen, timing>>
table  == <<filter, only_bad>>
uiVars == <<ui, rx, screen, table, scans, shown>>
pool   == <<found, verdict, thread, completed, panicked>>
vars   == <<uiVars, chan, worker, pool, logged>>

-----------------------------------------------------------------------------
(***************************************************************************)
(* Data                                                                    *)
(***************************************************************************)
Verdicts == {"Clean", "Malicious", "Error"}

\* The results of a scan: each scanned entry with its verdict.
Results == UNION {[S -> Verdicts] : S \in SUBSET Entries}

CountOf(r, v) == Cardinality({e \in DOMAIN r : r[e] = v})

\* ScanMsg
FileScanned(e, v)     == [type |-> "FileScanned", path |-> e, verdict |-> v]
Progress(done, total) == [type |-> "Progress", done |-> done, total |-> total]
Finished(r)           == [type |-> "Finished", results |-> r,
                          malicious |-> CountOf(r, "Malicious"),
                          errors |-> CountOf(r, "Error")]
Error                 == [type |-> "Error"]

Messages ==
    [type : {"FileScanned"}, path : Entries, verdict : Verdicts]
      \cup [type : {"Progress"}, done : Nat, total : Nat]
      \cup [type : {"Finished"}, results : Results, malicious : Nat, errors : Nat]
      \cup [type : {"Error"}]

\* Phase
Idle                    == [kind |-> "Idle"]
Scanning(done, total)   == [kind |-> "Scanning", done |-> done, total |-> total]
Done(scanned, mal, err) == [kind |-> "Done", scanned |-> scanned,
                            malicious |-> mal, errors |-> err]
Failed                  == [kind |-> "Failed"]

Phases ==
    {Idle, Failed}
      \cup [kind : {"Scanning"}, done : Nat, total : Nat]
      \cup [kind : {"Done"}, scanned : Nat, malicious : Nat, errors : Nat]

\* A row of the live stream.
Lines == [path : Entries, verdict : Verdicts]

\* A pool thread between two entries.
Resting == [pc |-> "idle", entry |-> NoEntry, done |-> 0]

ThreadStates ==
    [pc : {"idle", "lock", "file", "progress"}, entry : Entries \cup {NoEntry}, done : Nat]

EmptyResults == [e \in {} |-> "Clean"]
-----------------------------------------------------------------------------
(***************************************************************************)
(* The channel: mpsc::sync_channel(CHANNEL_CAP)                            *)
(***************************************************************************)
ReceiverAlive == rx # "None"
ChannelFull   == Len(chan) >= ChannelCap

\* try_send: never waits; a message that does not fit is dropped.
TrySend(m) == chan' = IF ReceiverAlive /\ ~ChannelFull THEN Append(chan, m) ELSE chan

\* send: waits for room, fails at once when the receiver is gone.
CanSend == ReceiverAlive => ~ChannelFull
Send(m) == /\ CanSend
           /\ chan' = IF ReceiverAlive THEN Append(chan, m) ELSE chan

\* All senders are dropped once run_scan has returned or unwound.
Disconnected == worker = "exited"

-----------------------------------------------------------------------------
Init ==
    /\ ui = "idle"
    /\ phase = Idle
    /\ stream = <<>>
    /\ results = EmptyResults
    /\ malicious_seen = 0
    /\ errors_seen = 0
    /\ rx = "None"
    /\ timing = FALSE
    /\ filter = Entries
    /\ only_bad = FALSE
    /\ chan = <<>>
    /\ worker = "none"
    /\ found = {}
    /\ verdict = EmptyResults
    /\ thread = [t \in Threads |-> Resting]
    /\ completed = 0
    /\ panicked = FALSE
    /\ logged = 0
    /\ scans = 0
    /\ shown = {}

-----------------------------------------------------------------------------
(***************************************************************************)
(* The UI thread                                                           *)
(***************************************************************************)
\* A frame starts with pump, which re-arms a missing timer and takes the
\* receiver out of the state.
Frame ==
    /\ ui = "idle"
    /\ timing' = (timing \/ phase.kind = "Scanning")
    /\ IF rx = "Some" THEN ui' = "pump" /\ rx' = "taken"
                      ELSE ui' = "draw" /\ rx' = rx
    /\ UNCHANGED <<phase, stream, results, malicious_seen, errors_seen, table, scans, shown,
                   chan, worker, pool, logged>>

\* Mutant: the stream is never truncated.
Push_Unbounded(s, line) == Append(s, line)

\* Push a line, dropping the oldest ones beyond StreamCap.
Push(s, line) ==
    LET long == Append(s, line)
    IN  IF Len(long) > StreamCap THEN Tail(long) ELSE long

\* Mutant: a file that cannot be scanned is not counted.
ReduceFileScanned_NoErrors(m) ==
    /\ malicious_seen' = malicious_seen + (IF m.verdict = "Malicious" THEN 1 ELSE 0)
    /\ stream' = Push(stream, [path |-> m.path, verdict |-> m.verdict])
    /\ shown' = shown \cup {m.path}
    /\ UNCHANGED <<phase, results, timing, errors_seen>>

ReduceFileScanned(m) ==
    /\ malicious_seen' = malicious_seen + (IF m.verdict = "Malicious" THEN 1 ELSE 0)
    /\ errors_seen' = errors_seen + (IF m.verdict = "Error" THEN 1 ELSE 0)
    /\ stream' = Push(stream, [path |-> m.path, verdict |-> m.verdict])
    /\ shown' = shown \cup {m.path}
    /\ UNCHANGED <<phase, results, timing>>

ReduceProgress(m) ==
    /\ phase' = Scanning(m.done, m.total)
    /\ UNCHANGED <<stream, results, malicious_seen, errors_seen, timing, shown>>

ReduceFinished(m) ==
    /\ malicious_seen' = m.malicious
    /\ errors_seen' = m.errors
    /\ phase' = Done(Cardinality(DOMAIN m.results), m.malicious, m.errors)
    /\ results' = m.results
    /\ stream' = <<>>
    /\ timing' = FALSE
    /\ UNCHANGED shown

ReduceError ==
    /\ phase' = Failed
    /\ timing' = FALSE
    /\ UNCHANGED <<stream, results, malicious_seen, errors_seen, shown>>

Reduce(m) ==
    \/ m.type = "FileScanned" /\ ReduceFileScanned(m)
    \/ m.type = "Progress" /\ ReduceProgress(m)
    \/ m.type = "Finished" /\ ReduceFinished(m)
    \/ m.type = "Error" /\ ReduceError

\* pump: try_recv returns a message.
Recv ==
    /\ ui = "pump"
    /\ chan # <<>>
    /\ Reduce(Head(chan))
    /\ chan' = Tail(chan)
    /\ UNCHANGED <<ui, rx, table, scans, worker, pool, logged>>

\* Mutant: the receiver is not put back.
RecvEmpty_Lost ==
    /\ ui = "pump"
    /\ chan = <<>>
    /\ ~Disconnected
    /\ ui' = "draw"
    /\ rx' = "None"
    /\ UNCHANGED <<screen, table, scans, shown, chan, worker, pool, logged>>

\* pump: nothing to read yet, the receiver goes back into the state.
RecvEmpty ==
    /\ ui = "pump"
    /\ chan = <<>>
    /\ ~Disconnected
    /\ ui' = "draw"
    /\ rx' = "Some"
    /\ UNCHANGED <<screen, table, scans, shown, chan, worker, pool, logged>>

\* Mutant: a silent disconnection is not reported as a failure.
RecvDisconnected_Silent ==
    /\ ui = "pump" /\ chan = <<>> /\ Disconnected
    /\ ui' = "draw" /\ rx' = "None"
    /\ UNCHANGED <<screen, table, shown, scans, chan, worker, pool, logged>>

\* pump: drained and no sender left.  The receiver is dropped, and a scan that
\* has not reported an end is reported as failed.
RecvDisconnected ==
    /\ ui = "pump"
    /\ chan = <<>>
    /\ Disconnected
    /\ ui' = "draw"
    /\ rx' = "None"
    /\ IF phase.kind \notin {"Done", "Failed"}
         THEN ReduceError
         ELSE UNCHANGED <<screen, shown>>
    /\ UNCHANGED <<table, scans, chan, worker, pool, logged>>

\* The rest of the frame, with no button clicked.
EndFrame ==
    /\ ui = "draw"
    /\ ui' = "idle"
    /\ UNCHANGED <<rx, screen, table, scans, shown, chan, worker, pool, logged>>

\* The rows of the table: what the query matches, without the clean files if the
\* box is ticked.
visible_results == {e \in DOMAIN results \cap filter : only_bad => results[e] # "Clean"}

\* The user edits the query or ticks the box; the table is drawn with the results
\* of a finished scan only.
EditFilter ==
    /\ ui = "draw"
    /\ phase.kind = "Done"
    /\ \E query \in SUBSET Entries, bad \in BOOLEAN : filter' = query /\ only_bad' = bad
    /\ ui' = "idle"
    /\ UNCHANGED <<rx, screen, scans, shown, chan, worker, pool, logged>>

\* The three scan buttons are enabled by the phase alone.
ButtonsEnabled_Always == TRUE   \* Mutant: the buttons stay enabled during a scan.
ButtonsEnabled == phase.kind # "Scanning"

\* Mutant: the counters of the last scan are kept.
ClearScreen_KeepCounters ==
    /\ stream' = <<>>
    /\ results' = EmptyResults
    /\ filter' = Entries /\ only_bad' = FALSE
    /\ UNCHANGED <<malicious_seen, errors_seen>>

\* Mutant: the filter of the last scan is kept.
ClearScreen_KeepFilter ==
    /\ stream' = <<>>
    /\ results' = EmptyResults
    /\ malicious_seen' = 0
    /\ errors_seen' = 0
    /\ UNCHANGED table

ClearScreen ==
    /\ stream' = <<>>
    /\ results' = EmptyResults
    /\ malicious_seen' = 0
    /\ errors_seen' = 0
    /\ filter' = Entries
    /\ only_bad' = FALSE

\* start_scan: a new channel and its worker.  If the thread cannot be spawned,
\* the channel holds that one error and has lost its senders.
StartScan ==
    \/ worker' = "load" /\ chan' = <<>>
    \/ worker' = "exited" /\ chan' = <<Error>>

\* begin: the receiver is replaced and the state of the last scan is cleared.
Begin ==
    /\ ui = "draw"
    /\ ButtonsEnabled
    /\ scans < MaxScans
    /\ StartScan
    /\ rx' = "Some"
    /\ ClearScreen
    /\ timing' = TRUE
    /\ phase' = Scanning(0, 0)
    /\ ui' = "idle"
    /\ found' = {}
    /\ verdict' = EmptyResults
    /\ thread' = [t \in Threads |-> Resting]
    /\ completed' = 0
    /\ panicked' = FALSE
    /\ logged' = 0
    /\ scans' = scans + 1
    /\ shown' = {}

\* The window is closed: AppState is dropped and with it the receiver.  The
\* process ends soon after; the worker may or may not take further steps.
Close ==
    /\ ui = "idle"
    /\ ui' = "closed"
    /\ rx' = "None"
    /\ UNCHANGED <<screen, table, scans, shown, chan, worker, pool, logged>>

\* The process has ended.
Ended == ui = "closed" /\ UNCHANGED vars

UI == \/ Frame \/ Recv \/ RecvEmpty \/ RecvDisconnected \/ EndFrame \/ EditFilter \/ Begin
      \/ Close

-----------------------------------------------------------------------------
(***************************************************************************)
(* The scan worker: run_scan                                               *)
(***************************************************************************)
\* run_scan goes from one of its points to the next and changes nothing else.
Goto(from, to) ==
    /\ worker = from
    /\ worker' = to
    /\ UNCHANGED <<uiVars, chan, pool, logged>>

\* The walk finds some entries, and the bundle loads and compiles.
LoadOk ==
    /\ worker = "load"
    /\ found' \in SUBSET Entries
    /\ worker' = "scan"
    /\ UNCHANGED <<uiVars, chan, verdict, thread, completed, panicked, logged>>

\* The bundle cannot be loaded or its rules do not compile.
LoadFail == Goto("load", "error")

AllResting == \A t \in Threads : thread[t] = Resting

\* The parallel map has returned: every entry has its result.
Join ==
    /\ AllResting
    /\ ~panicked
    /\ DOMAIN verdict = found
    /\ Goto("scan", "persist")

\* rayon waits for the other threads, then resumes a panic on the worker, which
\* unwinds out of run_scan and drops the senders without a word.
Unwind ==
    /\ AllResting
    /\ panicked
    /\ Goto("scan", "exited")

\* persist_results: one result is appended to the log.
PersistOne ==
    /\ worker = "persist"
    /\ logged < Cardinality(found)
    /\ logged' = logged + 1
    /\ UNCHANGED <<uiVars, chan, worker, pool>>

PersistFail_Ignored == Goto("persist", "finish")   \* Mutant: the failure is swallowed.

\* The key, the directory, the sink or a write fails, whatever came before.
PersistFail == Goto("persist", "error")

PersistDone_Early == Goto("persist", "finish")     \* Mutant: the log is not awaited.

PersistDone ==
    /\ logged = Cardinality(found)
    /\ Goto("persist", "finish")

\* One last message, and run_scan returns.
Conclude(from, m, to) ==
    /\ worker = from
    /\ Send(m)
    /\ worker' = to
    /\ UNCHANGED <<uiVars, pool, logged>>

SendFinished == Conclude("finish", Finished(verdict), "returning")

SendError_NoReturn == Conclude("error", Error, "finish")  \* Mutant: no return after it.

SendError == Conclude("error", Error, "returning")

\* run_scan has returned and drops its senders.
Exit == Goto("returning", "exited")

Worker == \/ LoadOk \/ LoadFail \/ Join \/ Unwind \/ PersistOne \/ PersistFail
          \/ PersistDone \/ SendFinished \/ SendError \/ Exit

-----------------------------------------------------------------------------
(***************************************************************************)
(* The pool threads: the closure of scan_all_with_progress                 *)
(***************************************************************************)
Taken == DOMAIN verdict

LockFree_Unserialized == TRUE   \* Mutant: the callback runs after the unlock.

\* The progress mutex is held from the increment to the end of the callback.
LockFree == \A t \in Threads : thread[t].pc \notin {"file", "progress"}

\* Take an entry and scan it; an Err of scan_entry becomes an Error result.
ScanEntry(t) ==
    /\ worker = "scan"
    /\ thread[t].pc = "idle"
    /\ \E e \in found \ Taken, v \in Verdicts :
         /\ verdict' = [x \in Taken \cup {e} |-> IF x = e THEN v ELSE verdict[x]]
         /\ thread' = [thread EXCEPT ![t] = [pc |-> "lock", entry |-> e, done |-> 0]]
    /\ UNCHANGED <<uiVars, chan, worker, found, completed, panicked, logged>>

\* scan_entry panics: the thread's share of the entries is abandoned.
PanicEntry(t) ==
    /\ worker = "scan"
    /\ thread[t].pc = "idle"
    /\ found \ Taken # {}
    /\ panicked' = TRUE
    /\ UNCHANGED <<uiVars, chan, worker, found, verdict, thread, completed, logged>>

\* Lock the mutex and count the entry.
Lock(t) ==
    /\ thread[t].pc = "lock"
    /\ LockFree
    /\ completed' = completed + 1
    /\ thread' = [thread EXCEPT ![t].pc = "file", ![t].done = completed + 1]
    /\ UNCHANGED <<uiVars, chan, worker, found, verdict, panicked, logged>>

\* Mutant: FileScanned is only tried, too.
SendFile_Try(t) ==
    /\ thread[t].pc = "file"
    /\ TrySend(FileScanned(thread[t].entry, verdict[thread[t].entry]))
    /\ thread' = [thread EXCEPT ![t].pc = "progress"]
    /\ UNCHANGED <<uiVars, worker, found, verdict, completed, panicked, logged>>

\* send_result_update: FileScanned waits for room.  If the receiver is gone the
\* callback ends there and the mutex is released.
SendFile(t) ==
    /\ thread[t].pc = "file"
    /\ Send(FileScanned(thread[t].entry, verdict[thread[t].entry]))
    /\ thread' = [thread EXCEPT ![t] = IF ReceiverAlive THEN [@ EXCEPT !.pc = "progress"]
                                                        ELSE Resting]
    /\ UNCHANGED <<uiVars, worker, found, verdict, completed, panicked, logged>>

\* Progress is only tried; the callback ends and the mutex is released.
SendProgress(t) ==
    /\ thread[t].pc = "progress"
    /\ TrySend(Progress(thread[t].done, Cardinality(found)))
    /\ thread' = [thread EXCEPT ![t] = Resting]
    /\ UNCHANGED <<uiVars, worker, found, verdict, completed, panicked, logged>>

Pool(t) == \/ ScanEntry(t) \/ PanicEntry(t) \/ Lock(t) \/ SendFile(t) \/ SendProgress(t)

-----------------------------------------------------------------------------
Next == UI \/ Worker \/ (\E t \in Threads : Pool(t)) \/ Ended

\* While a scan runs, update() asks for a repaint within 120 ms; a frame that
\* has started runs to its end.  The worker and the pool are ordinary threads,
\* but nothing is promised of them once the window is closed.
FrameStep  == Recv \/ RecvEmpty \/ RecvDisconnected \/ EndFrame \/ EditFilter \/ Begin
Repaint    == phase.kind = "Scanning" /\ Frame
Open(A)    == ui # "closed" /\ A

Fairness ==
    /\ WF_vars(FrameStep)
    /\ WF_vars(Repaint)
    /\ WF_vars(Open(Worker))
    /\ \A t \in Threads : WF_vars(Open(Pool(t)))

Spec     == Init /\ [][Next]_vars
FairSpec == Spec /\ Fairness
-----------------------------------------------------------------------------
(***************************************************************************)
(* Properties                                                              *)
(***************************************************************************)
WorkerStates == {"none", "load", "scan", "persist", "error", "finish", "returning", "exited"}

\* Every variable has its type; the stream and the channel keep their bounds.
TypeOK ==
    /\ ui \in {"idle", "pump", "draw", "closed"}
    /\ phase \in Phases
    /\ stream \in Seq(Lines) /\ Len(stream) <= StreamCap
    /\ results \in Results
    /\ malicious_seen \in Nat /\ errors_seen \in Nat
    /\ rx \in {"None", "Some", "taken"}
    /\ timing \in BOOLEAN
    /\ filter \in SUBSET Entries /\ only_bad \in BOOLEAN
    /\ chan \in Seq(Messages) /\ Len(chan) <= ChannelCap
    /\ worker \in WorkerStates
    /\ found \in SUBSET Entries
    /\ verdict \in Results /\ DOMAIN verdict \subseteq found
    /\ thread \in [Threads -> ThreadStates]
    /\ completed \in Nat
    /\ panicked \in BOOLEAN
    /\ logged \in Nat
    /\ scans \in Nat
    /\ shown \in SUBSET Entries

Terminal(m) == m.type \in {"Finished", "Error"}
Gone        == worker \in {"none", "returning", "exited"}

\* A scan is shown as Done only when every result of the walk is in the signed
\* log and in the table, and the three totals are those of the verdicts: an
\* error or a panic on the way never ends as Done (run_scan's early returns).
DoneIsComplete ==
    phase.kind = "Done" =>
        /\ logged = Cardinality(found)
        /\ DOMAIN results = found
        /\ phase = Done(Cardinality(found), CountOf(results, "Malicious"),
                        CountOf(results, "Error"))

\* What the screen shows during a scan is exactly this scan's messages: the
\* uncapped counters count the files it has shown, the stream holds the last
\* StreamCap of them, and nothing of an earlier scan is left.
CappedLen(S) == IF Cardinality(S) > StreamCap THEN StreamCap ELSE Cardinality(S)
ScreenMatchesScan ==
    phase.kind = "Scanning" =>
        /\ malicious_seen = Cardinality({e \in shown : verdict[e] = "Malicious"})
        /\ errors_seen = Cardinality({e \in shown : verdict[e] = "Error"})
        /\ Len(stream) = CappedLen(shown)
        /\ \A i \in DOMAIN stream :
             stream[i].path \in shown /\ stream[i].verdict = verdict[stream[i].path]
        /\ results = EmptyResults

\* The ring never runs ahead of the stream: by the time done = n is on the
\* screen, n files have been shown, although Progress may be dropped and
\* FileScanned may not.
ProgressNotAhead ==
    phase.kind = "Scanning" =>
        /\ phase.done <= Cardinality(shown)
        /\ phase.done > 0 => phase.total = Cardinality(found)

\* The elapsed clock runs exactly while a scan is on the screen, so that pump's
\* re-arming of started_at never has anything to do.
TimerRunsIffScanning == timing <=> phase.kind = "Scanning"

\* Between frames a scan on the screen always has its receiver: no path through
\* pump loses it while the worker may still speak.
ScanHasReceiver == (phase.kind = "Scanning" /\ ui \in {"idle", "draw"}) => rx = "Some"

\* What pump relies on from one frame to the next: a scan on the screen has its
\* receiver and its clock, and nothing else has a clock, in whatever order scans
\* start, fail, finish and are started again.
PumpIsArmed == TimerRunsIffScanning /\ ScanHasReceiver

\* The callback is serialized so that the progress on the screen never goes
\* back within a scan (engine.rs, scan_all_with_progress).
ProgressMonotone ==
    [][(phase.kind = "Scanning" /\ phase'.kind = "Scanning" /\ scans' = scans)
         => phase'.done >= phase.done]_vars

\* A finished scan comes up whole.  The live counters already hold the final
\* values, since FileScanned is sent with a blocking send, and the table opens with
\* a row for every file: no query typed over an earlier scan hides a threat of
\* this one.
DoneComesUpWhole ==
    [][(phase.kind = "Scanning" /\ phase'.kind = "Done") =>
         /\ malicious_seen' = malicious_seen /\ errors_seen' = errors_seen
         /\ visible_results' = found]_vars

\* An ended scan stays ended until the user starts another: no late message
\* revives it or turns a failure into a success.
TerminalIsFinal ==
    [][(phase.kind \in {"Done", "Failed"} /\ phase' # phase) => scans' = scans + 1]_vars

\* A new scan starts only when the worker of the last one has nothing left to
\* do, so that two scans never append to the log at the same time.
NoOrphanWorker == [][scans' # scans => Gone]_vars

\* Every scan ends on the screen, unless the window is closed: neither a full
\* channel, the mutex, a failure nor a panic leaves it scanning for ever.
ScanEnds == phase.kind = "Scanning" ~> (phase.kind \in {"Done", "Failed"} \/ ui = "closed")
=============================================================================
