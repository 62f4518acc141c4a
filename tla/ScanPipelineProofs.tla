-------------------------- MODULE ScanPipelineProofs --------------------------
(***************************************************************************)
(* Proofs about ScanPipeline, for every set of entries, every pool and     *)
(* every capacity, in three parts: the phase on the screen and what may    *)
(* still follow it; the counters, the stream, the ring and the table; and  *)
(* that every step is one of ScanSession or leaves it alone.               *)
(***************************************************************************)
EXTENDS ScanPipelineRefinement, FiniteSetTheorems, TLAPS

-----------------------------------------------------------------------------
(***************************************************************************)
(* Part 1, phases.  The invariant says where a last message can be and what*)
(* the worker may still do once it has been read.                          *)
(***************************************************************************)
(* The inductive invariant. *)

\* Nothing of a scan exists before its entries are known.
FreshWorker ==
    worker \in {"none", "load"} => found = {} /\ verdict = EmptyResults /\ logged = 0

\* The pool works only while run_scan is in the parallel map.
PoolInScan == worker # "scan" => AllResting

\* A thread that is not idle has an entry, and its verdict is known.
ThreadHasEntry == \A t \in Threads : thread[t].pc # "idle" => thread[t].entry \in DOMAIN verdict

\* Past the parallel map every entry has a verdict; past the log, a result in it.
ResultsComplete ==
    /\ worker \in {"persist", "finish"} => DOMAIN verdict = found
    /\ worker = "finish" => logged = Cardinality(found)

\* The local receiver of pump exists exactly while pump runs.
PumpHasReceiver == ui = "pump" <=> rx = "taken"

\* Finished or Error is the last message of its channel, and its sender is done.
LastWord ==
    \A i \in 1..Len(chan) :
        Terminal(chan[i]) => i = Len(chan) /\ worker \in {"returning", "exited"}

\* A Finished in the channel tells of a complete scan.
FinishedIsComplete ==
    \A i \in 1..Len(chan) :
        chan[i].type = "Finished" =>
            chan[i] = Finished(verdict) /\ DOMAIN verdict = found /\ logged = Cardinality(found)

\* Off the scanning screen no message is on its way and no worker at work.
QuietOffScreen ==
    phase.kind # "Scanning" => Gone /\ (rx # "None" => chan = <<>> /\ worker # "none")

\* No scan has been on the screen: no worker, no receiver.
IdleHasNoScan == worker = "none" => rx = "None" /\ chan = <<>>

\* Done shows the results of the worker.
DoneShowsVerdicts ==
    phase.kind = "Done" =>
        /\ results = verdict /\ DOMAIN verdict = found /\ logged = Cardinality(found)
        /\ phase = Done(Cardinality(found), CountOf(verdict, "Malicious"),
                        CountOf(verdict, "Error"))

TypeInv == TypeOK /\ FreshWorker /\ PoolInScan /\ ThreadHasEntry

PhaseInv ==
    /\ TypeInv
    /\ ResultsComplete
    /\ PumpHasReceiver
    /\ LastWord
    /\ FinishedIsComplete
    /\ QuietOffScreen
    /\ IdleHasNoScan
    /\ DoneShowsVerdicts
    /\ TimerRunsIffScanning
    /\ ScanHasReceiver

-----------------------------------------------------------------------------
(* Lemmas about results and messages. *)

\* A results function is one from a set of entries to the verdicts.
LEMMA ResultsIff ==
    ASSUME NEW r
    PROVE  r \in Results <=> DOMAIN r \subseteq Entries /\ r \in [DOMAIN r -> Verdicts]
<1>1. ASSUME r \in Results PROVE DOMAIN r \subseteq Entries /\ r \in [DOMAIN r -> Verdicts]
  <2>1. PICK S \in SUBSET Entries : r \in [S -> Verdicts]
    BY <1>1 DEF Results
  <2> QED BY <2>1
<1>2. ASSUME DOMAIN r \subseteq Entries, r \in [DOMAIN r -> Verdicts] PROVE r \in Results
  BY <1>2 DEF Results
<1> QED BY <1>1, <1>2

\* No results at all are results.
LEMMA EmptyResultsType == EmptyResults \in Results /\ DOMAIN EmptyResults = {}
<1>1. DOMAIN EmptyResults = {} /\ EmptyResults \in [{} -> Verdicts]
  BY DEF EmptyResults
<1> QED BY <1>1, ResultsIff

\* The verdict of one more entry extends the results.
LEMMA ExtendResults ==
    ASSUME NEW r \in Results, NEW e \in Entries, NEW v \in Verdicts,
           NEW q, q = [x \in DOMAIN r \cup {e} |-> IF x = e THEN v ELSE r[x]]
    PROVE  q \in Results /\ DOMAIN q = DOMAIN r \cup {e} /\ q[e] = v
           /\ \A x \in DOMAIN r : x # e => q[x] = r[x]
<1>1. DOMAIN r \subseteq Entries /\ \A x \in DOMAIN r : r[x] \in Verdicts
  BY ResultsIff
<1>2. DOMAIN q = DOMAIN r \cup {e}
  OBVIOUS
<1>3. q \in [DOMAIN q -> Verdicts]
  BY <1>1, <1>2
<1> QED BY <1>1, <1>2, <1>3, ResultsIff

\* Every set of entries has a cardinality.
LEMMA EntriesFinite ==
    ASSUME NEW S \in SUBSET Entries
    PROVE  IsFiniteSet(S) /\ Cardinality(S) \in Nat
BY FS_Subset, FS_CardinalityType, EntriesAssumption

\* A verdict count is a number.
LEMMA CountType ==
    ASSUME NEW r \in Results, NEW v
    PROVE  CountOf(r, v) \in Nat
<1>1. {e \in DOMAIN r : r[e] = v} \in SUBSET Entries
  BY ResultsIff
<1> QED BY <1>1, EntriesFinite DEF CountOf

\* The constructors build messages.
LEMMA MessageTypes ==
    /\ \A e \in Entries, v \in Verdicts : FileScanned(e, v) \in Messages
    /\ \A d, n \in Nat : Progress(d, n) \in Messages
    /\ \A r \in Results : Finished(r) \in Messages
    /\ Error \in Messages
<1>1. \A e \in Entries, v \in Verdicts : FileScanned(e, v) \in Messages
  BY DEF FileScanned, Messages
<1>2. \A d, n \in Nat : Progress(d, n) \in Messages
  BY DEF Progress, Messages
<1>3. \A r \in Results : Finished(r) \in Messages
  BY CountType DEF Finished, Messages
<1>4. Error \in Messages
  BY DEF Error, Messages
<1> QED BY <1>1, <1>2, <1>3, <1>4

\* Appending to the channel keeps it one, while there is room.
LEMMA AppendChannel ==
    ASSUME NEW q \in Seq(Messages), NEW m \in Messages, NEW cap \in Nat, Len(q) < cap
    PROVE  Append(q, m) \in Seq(Messages) /\ Len(Append(q, m)) <= cap
OBVIOUS

\* The empty stream and the empty channel have their types, as has a resting pool.
LEMMA EmptyTypes ==
    /\ <<>> \in Seq(Lines) /\ Len(<<>>) <= StreamCap
    /\ <<>> \in Seq(Messages) /\ Len(<<>>) <= ChannelCap
    /\ <<Error>> \in Seq(Messages) /\ Len(<<Error>>) <= ChannelCap
    /\ [t \in Threads |-> Resting] \in [Threads -> ThreadStates]
<1>1. Error \in Messages
  BY MessageTypes
<1>2. ChannelCap >= 1 /\ StreamCap >= 1 /\ ChannelCap \in Nat /\ StreamCap \in Nat
  BY CapAssumption
<1>3. <<Error>> \in Seq(Messages) /\ Len(<<Error>>) = 1
  BY <1>1
<1>4. <<>> \in Seq(Lines) /\ <<>> \in Seq(Messages) /\ Len(<<>>) = 0
  OBVIOUS
<1>5. Resting \in ThreadStates
  BY DEF Resting, ThreadStates
<1> QED BY <1>2, <1>3, <1>4, <1>5

\* A send leaves a channel of messages within its capacity.
LEMMA SendType ==
    ASSUME TypeOK, NEW m \in Messages, Send(m) \/ TrySend(m)
    PROVE  chan' \in Seq(Messages) /\ Len(chan') <= ChannelCap
<1>1. chan \in Seq(Messages) /\ Len(chan) <= ChannelCap /\ ChannelCap \in Nat
  BY CapAssumption DEF TypeOK
<1>2. chan' = chan \/ (chan' = Append(chan, m) /\ Len(chan) < ChannelCap)
  BY <1>1 DEF Send, TrySend, CanSend, ChannelFull
<1> QED BY <1>1, <1>2, AppendChannel

\* A push leaves a stream of lines within its capacity.
LEMMA PushType ==
    ASSUME NEW s \in Seq(Lines), Len(s) <= StreamCap, NEW l \in Lines
    PROVE  Push(s, l) \in Seq(Lines) /\ Len(Push(s, l)) <= StreamCap
BY CapAssumption DEF Push

-----------------------------------------------------------------------------
(* Type correctness. *)

\* The initial state satisfies the type invariant.
LEMMA TypeInit == Init => TypeInv
<1> SUFFICES ASSUME Init PROVE TypeInv
  OBVIOUS
<1>1. Idle \in Phases
  BY DEF Phases
<1>3. TypeOK
  BY <1>1, EmptyTypes, EmptyResultsType DEF Init, TypeOK, WorkerStates
<1>4. AllResting
  BY DEF Init, AllResting
<1>5. ThreadHasEntry
  BY DEF Init, ThreadHasEntry, Resting
<1> QED BY <1>3, <1>4, <1>5 DEF Init, TypeInv, FreshWorker, PoolInScan

\* What a received message does to the screen keeps the types.
LEMMA ReduceType ==
    ASSUME TypeOK, NEW m \in Messages, Reduce(m)
    PROVE  /\ phase' \in Phases
           /\ stream' \in Seq(Lines) /\ Len(stream') <= StreamCap
           /\ results' \in Results
           /\ malicious_seen' \in Nat /\ errors_seen' \in Nat
           /\ timing' \in BOOLEAN
           /\ shown' \in SUBSET Entries
<1> USE DEF TypeOK
<1>1. CASE m.type = "FileScanned" /\ ReduceFileScanned(m)
  <2>1. m.path \in Entries /\ m.verdict \in Verdicts
    BY <1>1 DEF Messages
  <2>2. [path |-> m.path, verdict |-> m.verdict] \in Lines
    BY <2>1 DEF Lines
  <2>3. stream' \in Seq(Lines) /\ Len(stream') <= StreamCap
    BY <1>1, <2>2, PushType DEF ReduceFileScanned
  <2> QED BY <1>1, <2>1, <2>3 DEF ReduceFileScanned
<1>2. CASE m.type = "Progress" /\ ReduceProgress(m)
  <2>1. m.done \in Nat /\ m.total \in Nat
    BY <1>2 DEF Messages
  <2>2. phase' \in Phases
    BY <1>2, <2>1 DEF ReduceProgress, Phases, Scanning
  <2> QED BY <1>2, <2>2 DEF ReduceProgress
<1>3. CASE m.type = "Finished" /\ ReduceFinished(m)
  <2>1. m.results \in Results /\ m.malicious \in Nat /\ m.errors \in Nat
    BY <1>3 DEF Messages
  <2>2. Cardinality(DOMAIN m.results) \in Nat
    BY <2>1, ResultsIff, EntriesFinite
  <2>3. phase' \in Phases
    BY <1>3, <2>1, <2>2 DEF ReduceFinished, Phases, Done
  <2> QED BY <1>3, <2>1, <2>3, EmptyTypes DEF ReduceFinished
<1>4. CASE m.type = "Error" /\ ReduceError
  BY <1>4 DEF ReduceError, Phases, Failed
<1> QED BY <1>1, <1>2, <1>3, <1>4 DEF Reduce

\* The steps of the UI thread keep the type invariant.
LEMMA TypeUI == TypeInv /\ UI => TypeInv'
<1> SUFFICES ASSUME TypeInv, UI PROVE TypeInv'
  OBVIOUS
<1> USE DEF TypeInv
\* Every UI step but Begin leaves the worker alone.
<1>1. ASSUME UNCHANGED <<worker, pool, logged>>
      PROVE  FreshWorker' /\ PoolInScan' /\ ThreadHasEntry' /\ found' \in SUBSET Entries
             /\ worker' \in WorkerStates /\ verdict' \in Results /\ DOMAIN verdict' \subseteq found'
             /\ thread' \in [Threads -> ThreadStates] /\ completed' \in Nat
             /\ panicked' \in BOOLEAN /\ logged' \in Nat
  BY <1>1 DEF pool, FreshWorker, PoolInScan, AllResting, ThreadHasEntry, TypeOK
<1>2. CASE Frame
  BY <1>1, <1>2 DEF Frame, table, TypeOK
<1>3. CASE Recv
  <2>1. Head(chan) \in Messages /\ Tail(chan) \in Seq(Messages) /\ Len(Tail(chan)) <= ChannelCap
    BY <1>3, CapAssumption DEF Recv, table, TypeOK
  <2>2. /\ phase' \in Phases
        /\ stream' \in Seq(Lines) /\ Len(stream') <= StreamCap
        /\ results' \in Results
        /\ malicious_seen' \in Nat /\ errors_seen' \in Nat
        /\ timing' \in BOOLEAN
        /\ shown' \in SUBSET Entries
    BY <1>3, <2>1, ReduceType DEF Recv
  <2> QED BY <1>1, <1>3, <2>1, <2>2 DEF Recv, table, TypeOK
<1>4. CASE RecvEmpty
  BY <1>1, <1>4 DEF RecvEmpty, screen, table, TypeOK
<1>5. CASE RecvDisconnected
  <2>1. Failed \in Phases
    BY DEF Phases
  <2>2. /\ phase' \in Phases /\ timing' \in BOOLEAN
        /\ UNCHANGED <<stream, results, malicious_seen, errors_seen, shown>>
    BY <1>5, <2>1 DEF RecvDisconnected, ReduceError, screen, TypeOK
  <2> QED BY <1>1, <1>5, <2>2 DEF RecvDisconnected, table, TypeOK
<1>6. CASE EndFrame
  BY <1>1, <1>6 DEF EndFrame, screen, table, TypeOK
<1>7. CASE Begin
  <2>1. Scanning(0, 0) \in Phases
    BY DEF Scanning, Phases
  <2>2. chan' \in Seq(Messages) /\ Len(chan') <= ChannelCap
    BY <1>7, EmptyTypes DEF Begin, StartScan
  <2>3. worker' \in WorkerStates
    BY <1>7 DEF Begin, StartScan, WorkerStates
  <2>4. TypeOK'
    <3>1. /\ stream' \in Seq(Lines) /\ Len(stream') <= StreamCap
          /\ thread' \in [Threads -> ThreadStates]
      BY <1>7, EmptyTypes DEF Begin, ClearScreen
    <3>2. /\ results' \in Results /\ verdict' \in Results
          /\ found' \in SUBSET Entries /\ DOMAIN verdict' \subseteq found'
      BY <1>7, EmptyResultsType DEF Begin, ClearScreen
    <3>3. malicious_seen' \in Nat /\ errors_seen' \in Nat /\ scans' \in Nat
      BY <1>7 DEF Begin, ClearScreen, TypeOK
    <3>4. filter' \in SUBSET Entries /\ only_bad' \in BOOLEAN
      BY <1>7 DEF Begin, ClearScreen
    <3> QED BY <1>7, <2>1, <2>2, <2>3, <3>1, <3>2, <3>3, <3>4 DEF Begin, TypeOK
  <2>5. AllResting' /\ ThreadHasEntry'
    BY <1>7 DEF Begin, AllResting, ThreadHasEntry, Resting
  <2> QED BY <1>7, <2>4, <2>5 DEF Begin, FreshWorker, PoolInScan
<1>8. CASE Close
  BY <1>1, <1>8 DEF Close, screen, table, TypeOK
<1>9. CASE EditFilter
  BY <1>1, <1>9 DEF EditFilter, screen, TypeOK
<1> QED BY <1>2, <1>3, <1>4, <1>5, <1>6, <1>7, <1>8, <1>9 DEF UI

\* The steps of run_scan keep the type invariant.
LEMMA TypeWorker == TypeInv /\ Worker => TypeInv'
<1> SUFFICES ASSUME TypeInv, Worker PROVE TypeInv'
  OBVIOUS
<1> USE DEF TypeInv
\* From one point of run_scan to the next, with the pool at rest.
<1>1. ASSUME NEW from \in WorkerStates \ {"none", "load"}, NEW to \in WorkerStates \ {"none", "load"},
             Goto(from, to), from = "scan" => AllResting
      PROVE  TypeInv'
  <2>1. TypeOK'
    BY <1>1 DEF Goto, uiVars, screen, table, pool, TypeOK
  <2>2. AllResting' /\ ThreadHasEntry'
    BY <1>1 DEF Goto, pool, PoolInScan, AllResting, ThreadHasEntry
  <2> QED BY <1>1, <2>1, <2>2 DEF Goto, FreshWorker, PoolInScan
<1>2. CASE LoadOk
  <2>1. TypeOK'
    BY <1>2, EmptyResultsType DEF LoadOk, uiVars, screen, table, FreshWorker, TypeOK, WorkerStates
  <2> QED BY <1>2, <2>1 DEF LoadOk, FreshWorker, PoolInScan, ThreadHasEntry
<1>3. CASE LoadFail
  <2>1. TypeOK'
    BY <1>3 DEF LoadFail, Goto, uiVars, screen, table, pool, TypeOK, WorkerStates
  <2> QED BY <1>3, <2>1 DEF LoadFail, Goto, pool, FreshWorker, PoolInScan, AllResting,
                            ThreadHasEntry
<1>4. CASE Join
  BY <1>1, <1>4 DEF Join, WorkerStates
<1>5. CASE Unwind
  BY <1>1, <1>5 DEF Unwind, WorkerStates
<1>6. CASE PersistOne
  <2>1. TypeOK'
    BY <1>6 DEF PersistOne, uiVars, screen, table, pool, TypeOK
  <2> QED BY <1>6, <2>1 DEF PersistOne, pool, FreshWorker, PoolInScan, AllResting,
                            ThreadHasEntry
<1>7. CASE PersistFail
  BY <1>1, <1>7 DEF PersistFail, WorkerStates
<1>8. CASE PersistDone
  BY <1>1, <1>8 DEF PersistDone, WorkerStates
\* A last message is sent.
<1>9. ASSUME NEW from \in {"finish", "error"}, NEW m \in Messages, Conclude(from, m, "returning")
      PROVE  TypeInv'
  <2>1. chan' \in Seq(Messages) /\ Len(chan') <= ChannelCap
    BY <1>9, SendType DEF Conclude
  <2>2. TypeOK'
    BY <1>9, <2>1 DEF Conclude, uiVars, screen, table, pool, TypeOK, WorkerStates
  <2> QED BY <1>9, <2>2 DEF Conclude, pool, FreshWorker, PoolInScan, AllResting,
                            ThreadHasEntry
<1>10. CASE SendFinished
  <2>1. Finished(verdict) \in Messages
    BY MessageTypes DEF TypeOK
  <2> QED BY <1>9, <1>10, <2>1 DEF SendFinished
<1>11. CASE SendError
  BY <1>9, <1>11, MessageTypes DEF SendError
<1>12. CASE Exit
  BY <1>1, <1>12 DEF Exit, WorkerStates
<1> QED BY <1>2, <1>3, <1>4, <1>5, <1>6, <1>7, <1>8, <1>10, <1>11, <1>12 DEF Worker

\* The steps of a pool thread keep the type invariant.
LEMMA TypePool == TypeInv /\ (\E t \in Threads : Pool(t)) => TypeInv'
<1> SUFFICES ASSUME TypeInv, NEW t \in Threads, Pool(t) PROVE TypeInv'
  OBVIOUS
<1> USE DEF TypeInv
<1>1. ASSUME thread[t].pc # "idle" PROVE worker = "scan"
  BY <1>1 DEF PoolInScan, AllResting, Resting
<1>2. thread[t] \in ThreadStates /\ Cardinality(found) \in Nat
  BY EntriesFinite DEF TypeOK
<1>3. Resting \in ThreadStates /\ Resting.pc = "idle"
  BY DEF Resting, ThreadStates
<1>4. CASE ScanEntry(t)
  <2>1. PICK e \in found \ Taken, v \in Verdicts :
          /\ verdict' = [x \in Taken \cup {e} |-> IF x = e THEN v ELSE verdict[x]]
          /\ thread' = [thread EXCEPT ![t] = [pc |-> "lock", entry |-> e, done |-> 0]]
    BY <1>4 DEF ScanEntry
  <2>2. e \in Entries
    BY <2>1 DEF TypeOK
  <2>3. verdict' \in Results /\ DOMAIN verdict' = DOMAIN verdict \cup {e}
    BY <2>1, <2>2, ExtendResults DEF Taken, TypeOK
  <2>4. thread' \in [Threads -> ThreadStates]
    BY <2>1, <2>2 DEF ThreadStates, TypeOK
  <2>5. TypeOK'
    BY <1>4, <2>1, <2>3, <2>4 DEF ScanEntry, uiVars, screen, table, TypeOK
  <2>6. ThreadHasEntry'
    BY <2>1, <2>3 DEF ThreadHasEntry, TypeOK
  <2> QED BY <1>4, <2>5, <2>6 DEF ScanEntry, FreshWorker, PoolInScan
<1>5. CASE PanicEntry(t)
  BY <1>5 DEF PanicEntry, uiVars, screen, table, TypeOK, FreshWorker, PoolInScan, AllResting,
              ThreadHasEntry
\* The thread moves on within its entry.
<1>6. ASSUME worker = "scan", UNCHANGED <<uiVars, worker, found, verdict, panicked, logged>>,
             chan' \in Seq(Messages) /\ Len(chan') <= ChannelCap,
             completed' \in Nat,
             NEW s \in ThreadStates, thread' = [thread EXCEPT ![t] = s],
             s.pc # "idle" => thread[t].pc # "idle" /\ s.entry = thread[t].entry
      PROVE  TypeInv'
  <2>1. TypeOK'
    BY <1>6 DEF uiVars, screen, table, TypeOK
  <2>2. ThreadHasEntry'
    BY <1>6 DEF ThreadHasEntry, TypeOK
  <2> QED BY <1>6, <2>1, <2>2 DEF FreshWorker, PoolInScan
<1>7. CASE Lock(t)
  <2> DEFINE s == [thread[t] EXCEPT !.pc = "file", !.done = completed + 1]
  <2>0. completed + 1 \in Nat
    BY DEF TypeOK
  <2>1. s \in ThreadStates /\ s.entry = thread[t].entry
    BY <1>2, <2>0 DEF ThreadStates
  <2>2. thread' = [thread EXCEPT ![t] = s]
    BY <1>7 DEF Lock, TypeOK
  <2>3. chan' = chan /\ completed' \in Nat
    BY <1>7 DEF Lock, TypeOK
  <2>4. thread[t].pc # "idle" /\ UNCHANGED <<uiVars, worker, found, verdict, panicked, logged>>
    BY <1>7 DEF Lock
  <2> HIDE DEF s
  <2> QED BY <1>1, <1>6, <2>1, <2>2, <2>3, <2>4 DEF TypeOK
<1>8. CASE SendFile(t)
  <2> DEFINE s == IF ReceiverAlive THEN [thread[t] EXCEPT !.pc = "progress"] ELSE Resting
  <2>1. s \in ThreadStates /\ (s.pc # "idle" => s.entry = thread[t].entry)
    BY <1>2, <1>3 DEF ThreadStates
  <2>2. thread' = [thread EXCEPT ![t] = s]
    BY <1>8 DEF SendFile, TypeOK
  <2>3. thread[t].pc # "idle" /\ UNCHANGED <<uiVars, worker, found, verdict, completed, panicked, logged>>
    BY <1>8 DEF SendFile
  <2>4. verdict[thread[t].entry] \in Verdicts /\ thread[t].entry \in Entries
    BY <2>3, ResultsIff DEF ThreadHasEntry, TypeOK
  <2>5. chan' \in Seq(Messages) /\ Len(chan') <= ChannelCap
    BY <1>8, <2>4, MessageTypes, SendType DEF SendFile
  <2> HIDE DEF s
  <2> QED BY <1>1, <1>6, <2>1, <2>2, <2>3, <2>5 DEF TypeOK
<1>9. CASE SendProgress(t)
  <2>1. thread[t].done \in Nat
    BY <1>2 DEF ThreadStates
  <2>2. chan' \in Seq(Messages) /\ Len(chan') <= ChannelCap
    BY <1>2, <1>9, <2>1, MessageTypes, SendType DEF SendProgress
  <2> QED BY <1>1, <1>3, <1>6, <1>9, <2>2 DEF SendProgress, TypeOK
<1> QED BY <1>4, <1>5, <1>7, <1>8, <1>9 DEF Pool

\* A step that changes nothing keeps the type invariant.
LEMMA TypeStutter == TypeInv /\ UNCHANGED vars => TypeInv'
BY DEF TypeInv, vars, uiVars, screen, table, pool, TypeOK, FreshWorker, PoolInScan, AllResting,
       ThreadHasEntry

\* Every variable keeps its type: the stream never exceeds STREAM_CAP and the
\* channel never CHANNEL_CAP, for any number of files, threads and scans.
THEOREM TypeCorrect == Spec => []TypeOK
<1>1. Init => TypeInv
  BY TypeInit
<1>2. TypeInv /\ [Next]_vars => TypeInv'
  BY TypeUI, TypeWorker, TypePool, TypeStutter DEF Next, Ended
<1>3. TypeInv => TypeOK
  BY DEF TypeInv
<1> QED BY <1>1, <1>2, <1>3, PTL DEF Spec

-----------------------------------------------------------------------------
(* The phase on the screen and the last message. *)

\* The type invariant is inductive.
LEMMA TypeStep == TypeInv /\ [Next]_vars => TypeInv'
BY TypeUI, TypeWorker, TypePool, TypeStutter DEF Next, Ended

\* PhaseInv holds when the program starts.
LEMMA PhaseInit == Init => PhaseInv
<1> SUFFICES ASSUME Init PROVE PhaseInv
  OBVIOUS
<1>1. phase.kind = "Idle" /\ chan = <<>> /\ rx = "None" /\ ui = "idle" /\ worker = "none"
  BY DEF Init, Idle
<1>2. 1..Len(chan) = {}
  BY <1>1
<1> QED
  BY <1>1, <1>2, TypeInit
  DEF Init, PhaseInv, ResultsComplete, PumpHasReceiver, LastWord, FinishedIsComplete,
      QuietOffScreen, Gone, IdleHasNoScan, DoneShowsVerdicts, TimerRunsIffScanning,
      ScanHasReceiver

\* While the worker still works, no last message is in the channel, and a
\* message of another kind brings none.
LEMMA NoLastWordYet ==
    ASSUME TypeOK, LastWord, worker \notin {"returning", "exited"}
    PROVE  /\ \A i \in 1..Len(chan) : ~Terminal(chan[i])
           /\ \A m : chan' = Append(chan, m) /\ ~Terminal(m) =>
                       \A i \in 1..Len(chan') : ~Terminal(chan'[i])
<1>1. \A i \in 1..Len(chan) : ~Terminal(chan[i])
  BY DEF LastWord
<1>2. chan \in Seq(Messages)
  BY DEF TypeOK
<1>3. ASSUME NEW m, chan' = Append(chan, m), ~Terminal(m), NEW i \in 1..Len(chan')
      PROVE  ~Terminal(chan'[i])
  <2>1. Len(chan') = Len(chan) + 1 /\ Len(chan) \in Nat
    BY <1>2, <1>3
  <2>2. CASE i \in 1..Len(chan)
    BY <1>1, <1>2, <1>3, <2>2
  <2>3. CASE i = Len(chan) + 1
    BY <1>2, <1>3, <2>3
  <2> QED BY <2>1, <2>2, <2>3
<1> QED BY <1>1, <1>3

\* Steps that leave the UI alone and the channel free of a last message, from a
\* worker that has not concluded to one that has not concluded or has unwound.
LEMMA PhaseQuietStep ==
    ASSUME PhaseInv, TypeInv', UNCHANGED uiVars, ~Gone,
           \A i \in 1..Len(chan') : ~Terminal(chan'[i]),
           ResultsComplete', worker' # "none"
    PROVE  PhaseInv'
<1>1. phase.kind = "Scanning" /\ phase' = phase
  BY DEF PhaseInv, QuietOffScreen, uiVars, screen, table
<1>2. LastWord' /\ FinishedIsComplete'
  BY DEF LastWord, FinishedIsComplete, Terminal
<1>3. PumpHasReceiver' /\ TimerRunsIffScanning' /\ ScanHasReceiver'
  BY DEF PhaseInv, PumpHasReceiver, TimerRunsIffScanning, ScanHasReceiver, uiVars, screen, table
<1> QED BY <1>1, <1>2, <1>3 DEF PhaseInv, QuietOffScreen, IdleHasNoScan, DoneShowsVerdicts

\* A pool thread keeps the invariant: it speaks only of files and progress.
LEMMA PhasePool == PhaseInv /\ (\E t \in Threads : Pool(t)) => PhaseInv'
<1> SUFFICES ASSUME PhaseInv, NEW t \in Threads, Pool(t) PROVE PhaseInv'
  OBVIOUS
<1>1. TypeInv /\ TypeInv'
  BY TypePool DEF PhaseInv
<1>2. worker = "scan" /\ worker' = "scan" /\ UNCHANGED <<uiVars, found>>
  BY <1>1 DEF TypeInv, PoolInScan, AllResting, Resting, Pool, ScanEntry, PanicEntry, Lock,
              SendFile, SendProgress
<1>3. \A e, v, d, n : ~Terminal(FileScanned(e, v)) /\ ~Terminal(Progress(d, n))
  BY DEF Terminal, FileScanned, Progress
<1>4. chan' = chan \/ \E m : chan' = Append(chan, m) /\ ~Terminal(m)
  <2>1. CASE ScanEntry(t) \/ PanicEntry(t) \/ Lock(t)
    BY <2>1 DEF ScanEntry, PanicEntry, Lock
  <2>2. CASE SendFile(t)
    BY <1>3, <2>2 DEF SendFile, Send
  <2>3. CASE SendProgress(t)
    BY <1>3, <2>3 DEF SendProgress, TrySend
  <2> QED BY <2>1, <2>2, <2>3 DEF Pool
<1>5. \A i \in 1..Len(chan') : ~Terminal(chan'[i])
  BY <1>1, <1>2, <1>4, NoLastWordYet DEF PhaseInv, TypeInv
<1>6. ResultsComplete' /\ ~Gone
  BY <1>2 DEF ResultsComplete, Gone
<1> QED BY <1>1, <1>2, <1>5, <1>6, PhaseQuietStep

\* run_scan keeps the invariant.
LEMMA PhaseWorker == PhaseInv /\ Worker => PhaseInv'
<1> SUFFICES ASSUME PhaseInv, Worker PROVE PhaseInv'
  OBVIOUS
<1>1. TypeInv /\ TypeInv'
  BY TypeWorker DEF PhaseInv
\* Up to the last message.
<1>2. ASSUME ~Gone, UNCHANGED <<uiVars, chan>>, ResultsComplete', worker' # "none"
      PROVE  PhaseInv'
  <2>1. \A i \in 1..Len(chan') : ~Terminal(chan'[i])
    BY <1>1, <1>2, NoLastWordYet DEF PhaseInv, TypeInv, Gone
  <2> QED BY <1>1, <1>2, <2>1, PhaseQuietStep
<1>3. CASE LoadOk
  BY <1>2, <1>3 DEF LoadOk, Gone, ResultsComplete
<1>4. CASE LoadFail
  BY <1>2, <1>4 DEF LoadFail, Goto, Gone, ResultsComplete
<1>5. CASE Join
  BY <1>2, <1>5 DEF Join, Goto, pool, Gone, ResultsComplete
<1>6. CASE Unwind
  BY <1>2, <1>6 DEF Unwind, Goto, Gone, ResultsComplete
<1>7. CASE PersistOne
  BY <1>2, <1>7 DEF PersistOne, pool, Gone, ResultsComplete, PhaseInv
<1>8. CASE PersistFail
  BY <1>2, <1>8 DEF PersistFail, Goto, Gone, ResultsComplete
<1>9. CASE PersistDone
  BY <1>2, <1>9 DEF PersistDone, Goto, pool, Gone, ResultsComplete, PhaseInv
\* The last message itself.
<1>10. ASSUME NEW from \in {"finish", "error"}, NEW m \in Messages, Conclude(from, m, "returning"),
              m.type = "Finished" =>
                m = Finished(verdict) /\ DOMAIN verdict = found /\ logged = Cardinality(found)
       PROVE  PhaseInv'
  <2>1. worker = from /\ worker' = "returning" /\ UNCHANGED <<uiVars, pool, logged>>
    BY <1>10 DEF Conclude
  <2>2. \A i \in 1..Len(chan) : ~Terminal(chan[i])
    BY <1>1, <2>1, NoLastWordYet DEF PhaseInv, TypeInv
  <2>3. chan \in Seq(Messages) /\ (chan' = chan \/ chan' = Append(chan, m))
    BY <1>1, <1>10 DEF Conclude, Send, TypeInv, TypeOK
  <2>4. LastWord'
    BY <2>1, <2>2, <2>3 DEF LastWord
  <2>5. FinishedIsComplete'
    <3>1. UNCHANGED <<verdict, found, logged>>
      BY <2>1 DEF pool
    <3>2. (m = Finished(verdict))' <=> m = Finished(verdict)
      BY <3>1
    <3>3. ASSUME NEW i \in 1..Len(chan'), chan'[i].type = "Finished"
          PROVE  chan'[i] = Finished(verdict') /\ DOMAIN verdict' = found'
                   /\ logged' = Cardinality(found')
      <4>1. chan'[i] = m
        BY <2>2, <2>3, <3>3 DEF Terminal
      <4> QED BY <1>10, <3>1, <3>3, <4>1
    <3> QED BY <3>3 DEF FinishedIsComplete
  <2>6. phase.kind = "Scanning" /\ phase' = phase
    BY <2>1 DEF PhaseInv, QuietOffScreen, Gone, uiVars, screen, table
  <2>7. PumpHasReceiver' /\ TimerRunsIffScanning' /\ ScanHasReceiver'
    BY <2>1 DEF PhaseInv, PumpHasReceiver, TimerRunsIffScanning, ScanHasReceiver, uiVars, screen, table
  <2> QED BY <1>1, <2>1, <2>4, <2>5, <2>6, <2>7
          DEF PhaseInv, ResultsComplete, QuietOffScreen, IdleHasNoScan, DoneShowsVerdicts
<1>11. CASE SendFinished
  <2>1. Finished(verdict) \in Messages
    BY <1>1, MessageTypes DEF TypeInv, TypeOK
  <2>2. DOMAIN verdict = found /\ logged = Cardinality(found)
    BY <1>11 DEF SendFinished, Conclude, PhaseInv, ResultsComplete
  <2> QED BY <1>10, <1>11, <2>1, <2>2 DEF SendFinished
<1>12. CASE SendError
  BY <1>10, <1>12, MessageTypes DEF SendError, Error
<1>13. CASE Exit
  BY <1>1, <1>13 DEF Exit, Goto, uiVars, screen, table, pool, PhaseInv, ResultsComplete,
     PumpHasReceiver, LastWord, FinishedIsComplete, QuietOffScreen, Gone, IdleHasNoScan,
     DoneShowsVerdicts, TimerRunsIffScanning, ScanHasReceiver
<1> QED BY <1>3, <1>4, <1>5, <1>6, <1>7, <1>8, <1>9, <1>11, <1>12, <1>13 DEF Worker

\* A received message keeps the invariant.
LEMMA PhaseRecv == PhaseInv /\ Recv => PhaseInv'
<1> SUFFICES ASSUME PhaseInv, Recv PROVE PhaseInv'
  OBVIOUS
<1> DEFINE m == Head(chan)
<1>1. TypeInv /\ TypeInv'
  BY TypeUI DEF PhaseInv, UI
<1>2. chan \in Seq(Messages) /\ chan # <<>> /\ chan' = Tail(chan) /\ Reduce(m)
  BY <1>1 DEF Recv, TypeInv, TypeOK
<1>3. m = chan[1] /\ m \in Messages /\ Len(chan') = Len(chan) - 1 /\ Len(chan) \in Nat \ {0}
      /\ \A i \in 1..Len(chan') : chan'[i] = chan[i + 1] /\ i + 1 \in 1..Len(chan)
  BY <1>2
<1>4. ui = "pump" /\ rx = "taken" /\ phase.kind = "Scanning" /\ worker # "none"
  BY <1>2 DEF Recv, PhaseInv, PumpHasReceiver, QuietOffScreen, IdleHasNoScan
<1>5. UNCHANGED <<ui, rx, scans, worker, found, verdict, logged>>
  BY DEF Recv, pool
<1>6. LastWord'
  <2> SUFFICES ASSUME NEW i \in 1..Len(chan'), Terminal(chan'[i])
               PROVE  i = Len(chan') /\ worker' \in {"returning", "exited"}
    BY DEF LastWord
  <2>1. i + 1 \in 1..Len(chan) /\ Terminal(chan[i + 1])
    BY <1>3
  <2>2. i + 1 = Len(chan) /\ worker \in {"returning", "exited"}
    BY <2>1 DEF PhaseInv, LastWord
  <2> QED BY <1>3, <1>5, <2>2
<1>7. FinishedIsComplete'
  <2> SUFFICES ASSUME NEW i \in 1..Len(chan'), chan'[i].type = "Finished"
               PROVE  chan'[i] = Finished(verdict') /\ DOMAIN verdict' = found'
                        /\ logged' = Cardinality(found')
    BY DEF FinishedIsComplete
  <2> QED BY <1>3, <1>5 DEF PhaseInv, FinishedIsComplete
<1>8. PumpHasReceiver' /\ ResultsComplete' /\ IdleHasNoScan' /\ ScanHasReceiver'
  BY <1>4, <1>5 DEF PhaseInv, PumpHasReceiver, ResultsComplete, IdleHasNoScan, ScanHasReceiver
\* A last message leaves an empty channel and a worker that is done.
<1>9. ASSUME Terminal(m) PROVE chan' = <<>> /\ worker' \in {"returning", "exited"}
  <2>1. 1 = Len(chan) /\ worker \in {"returning", "exited"}
    BY <1>3, <1>9 DEF PhaseInv, LastWord
  <2> QED BY <1>2, <1>5, <2>1
<1>10. CASE m.type = "FileScanned" /\ ReduceFileScanned(m)
  <2>1. phase' = phase /\ timing' = timing
    BY <1>10 DEF ReduceFileScanned
  <2> QED BY <1>1, <1>4, <1>6, <1>7, <1>8, <2>1
          DEF PhaseInv, QuietOffScreen, DoneShowsVerdicts, TimerRunsIffScanning
<1>11. CASE m.type = "Progress" /\ ReduceProgress(m)
  <2>1. phase'.kind = "Scanning" /\ timing' = timing
    BY <1>11 DEF ReduceProgress, Scanning
  <2> QED BY <1>1, <1>4, <1>6, <1>7, <1>8, <2>1
          DEF PhaseInv, QuietOffScreen, DoneShowsVerdicts, TimerRunsIffScanning
<1>12. CASE m.type = "Finished" /\ ReduceFinished(m)
  <2>1. m = Finished(verdict) /\ DOMAIN verdict = found /\ logged = Cardinality(found)
    BY <1>3, <1>12 DEF PhaseInv, FinishedIsComplete
  <2>2. /\ results' = verdict /\ timing' = FALSE
        /\ phase' = Done(Cardinality(found), CountOf(verdict, "Malicious"),
                         CountOf(verdict, "Error"))
    BY <1>12, <2>1 DEF ReduceFinished, Finished
  <2>3. phase'.kind = "Done"
    BY <2>2 DEF Done
  <2>4. DoneShowsVerdicts'
    BY <1>5, <2>1, <2>2 DEF DoneShowsVerdicts, CountOf
  <2> QED BY <1>1, <1>5, <1>6, <1>7, <1>8, <1>9, <1>12, <2>2, <2>3, <2>4
          DEF PhaseInv, QuietOffScreen, Gone, TimerRunsIffScanning, Terminal
<1>13. CASE m.type = "Error" /\ ReduceError
  <2>1. phase'.kind = "Failed" /\ timing' = FALSE
    BY <1>13 DEF ReduceError, Failed
  <2> QED BY <1>1, <1>5, <1>6, <1>7, <1>8, <1>9, <1>13, <2>1
          DEF PhaseInv, QuietOffScreen, Gone, DoneShowsVerdicts, TimerRunsIffScanning, Terminal
<1> QED BY <1>2, <1>10, <1>11, <1>12, <1>13 DEF Reduce

\* The other steps of the UI thread keep the invariant.
LEMMA PhaseUI == PhaseInv /\ UI => PhaseInv'
<1> SUFFICES ASSUME PhaseInv, UI PROVE PhaseInv'
  OBVIOUS
<1> USE DEF PhaseInv
<1>1. TypeInv /\ TypeInv'
  BY TypeUI
\* Steps that touch neither the worker, nor the channel, nor the phase.
<1>2. ASSUME UNCHANGED <<phase, results, timing, chan, worker, pool, logged>>
      PROVE  /\ ResultsComplete' /\ LastWord' /\ FinishedIsComplete'
             /\ DoneShowsVerdicts' /\ TimerRunsIffScanning'
             /\ (phase'.kind # "Scanning" => Gone')
  BY <1>2 DEF pool, ResultsComplete, LastWord, FinishedIsComplete, Finished, CountOf,
              DoneShowsVerdicts, TimerRunsIffScanning, QuietOffScreen, Gone
<1>3. CASE Frame
  <2>1. timing' = timing
    BY <1>3 DEF Frame, TimerRunsIffScanning, TypeInv, TypeOK
  <2>2. PumpHasReceiver' /\ QuietOffScreen' /\ IdleHasNoScan' /\ ScanHasReceiver'
    BY <1>3 DEF Frame, PumpHasReceiver, QuietOffScreen, Gone, IdleHasNoScan, ScanHasReceiver
  <2> QED BY <1>1, <1>2, <1>3, <2>1, <2>2 DEF Frame
<1>4. CASE Recv
  BY <1>4, PhaseRecv
<1>5. CASE RecvEmpty
  <2>1. PumpHasReceiver' /\ QuietOffScreen' /\ IdleHasNoScan' /\ ScanHasReceiver'
    BY <1>5 DEF RecvEmpty, screen, PumpHasReceiver, QuietOffScreen, Gone, IdleHasNoScan,
                ScanHasReceiver
  <2> QED BY <1>1, <1>2, <1>5, <2>1 DEF RecvEmpty, screen
<1>6. CASE RecvDisconnected
  <2>1. worker = "exited" /\ chan = <<>> /\ chan' = <<>> /\ rx' = "None" /\ ui' = "draw"
        /\ UNCHANGED <<worker, found, verdict, logged, results>>
    BY <1>6 DEF RecvDisconnected, Disconnected, pool, screen, ReduceError
  <2>2. phase'.kind # "Scanning" /\ timing' = FALSE
        /\ (phase'.kind = "Done" => phase' = phase)
    BY <1>6 DEF RecvDisconnected, ReduceError, Failed, screen, TimerRunsIffScanning,
                TypeInv, TypeOK, Phases
  <2>3. LastWord' /\ FinishedIsComplete'
    BY <2>1 DEF LastWord, FinishedIsComplete
  <2> QED BY <1>1, <2>1, <2>2, <2>3
          DEF ResultsComplete, PumpHasReceiver, QuietOffScreen, Gone, IdleHasNoScan,
              DoneShowsVerdicts, TimerRunsIffScanning, ScanHasReceiver
<1>7. CASE EndFrame
  <2>1. PumpHasReceiver' /\ QuietOffScreen' /\ IdleHasNoScan' /\ ScanHasReceiver'
    BY <1>7 DEF EndFrame, screen, PumpHasReceiver, QuietOffScreen, Gone, IdleHasNoScan,
                ScanHasReceiver
  <2> QED BY <1>1, <1>2, <1>7, <2>1 DEF EndFrame, screen
<1>8. CASE Begin
  <2>1. phase'.kind = "Scanning" /\ timing' = TRUE /\ rx' = "Some" /\ ui' = "idle"
        /\ worker' \in {"load", "exited"}
    BY <1>8 DEF Begin, StartScan, Scanning
  <2>2. LastWord'
    <3>1. Len(chan') = 0 \/ (Len(chan') = 1 /\ worker' = "exited")
      BY <1>8 DEF Begin, StartScan
    <3> QED BY <3>1 DEF LastWord
  <2>3. FinishedIsComplete'
    BY <1>8 DEF Begin, StartScan, FinishedIsComplete, Error
  <2> QED BY <1>1, <2>1, <2>2, <2>3
          DEF ResultsComplete, PumpHasReceiver, QuietOffScreen, Gone, IdleHasNoScan,
              DoneShowsVerdicts, TimerRunsIffScanning, ScanHasReceiver
<1>9. CASE Close
  <2>1. PumpHasReceiver' /\ QuietOffScreen' /\ IdleHasNoScan' /\ ScanHasReceiver'
    BY <1>9 DEF Close, screen, PumpHasReceiver, QuietOffScreen, Gone, IdleHasNoScan,
                ScanHasReceiver
  <2> QED BY <1>1, <1>2, <1>9, <2>1 DEF Close, screen
<1>10. CASE EditFilter
  <2>1. PumpHasReceiver' /\ QuietOffScreen' /\ IdleHasNoScan' /\ ScanHasReceiver'
    BY <1>10 DEF EditFilter, screen, PumpHasReceiver, QuietOffScreen, Gone, IdleHasNoScan,
                 ScanHasReceiver
  <2> QED BY <1>1, <1>2, <1>10, <2>1 DEF EditFilter, screen
<1> QED BY <1>3, <1>4, <1>5, <1>6, <1>7, <1>8, <1>9, <1>10 DEF UI

\* A step that changes nothing keeps the invariant.
LEMMA PhaseStutter == PhaseInv /\ UNCHANGED vars => PhaseInv'
BY TypeStutter DEF PhaseInv, vars, uiVars, screen, table, pool, ResultsComplete, PumpHasReceiver,
   LastWord, FinishedIsComplete, Finished, CountOf, QuietOffScreen, Gone, IdleHasNoScan,
   DoneShowsVerdicts, TimerRunsIffScanning, ScanHasReceiver

\* The invariant holds for ever.
THEOREM PhaseInvariant == Spec => []PhaseInv
<1>1. PhaseInv /\ [Next]_vars => PhaseInv'
  BY PhaseUI, PhaseWorker, PhasePool, PhaseStutter DEF Next, Ended
<1> QED BY <1>1, PhaseInit, PTL DEF Spec

-----------------------------------------------------------------------------
(* What follows from the invariant. *)

\* A scan is shown as Done only with every result in the log and the totals of
\* its verdicts: run_scan's early returns never end as Done.
THEOREM DoneIsCompleteHolds == Spec => []DoneIsComplete
<1>1. PhaseInv => DoneIsComplete
  BY DEF PhaseInv, DoneShowsVerdicts, DoneIsComplete
<1> QED BY <1>1, PhaseInvariant, PTL

\* The clock runs exactly while a scan is on the screen, and pump never loses the
\* receiver of such a scan.
THEOREM PumpStaysArmed == Spec => []PumpIsArmed
<1>1. PhaseInv => PumpIsArmed
  BY DEF PhaseInv, PumpIsArmed
<1> QED BY <1>1, PhaseInvariant, PTL

\* The phase changes only when a message is reduced, at a disconnection, or when
\* the user starts a scan.
LEMMA PhaseChanges ==
    ASSUME [Next]_vars, phase' # phase
    PROVE  Recv \/ (RecvDisconnected /\ phase.kind \notin {"Done", "Failed"}) \/ Begin
<1>1. CASE UI
  BY <1>1 DEF UI, Frame, RecvEmpty, RecvDisconnected, EndFrame, EditFilter, Close, screen
<1>2. CASE Worker
  <2>1. UNCHANGED uiVars
    BY <1>2 DEF Worker, LoadOk, LoadFail, Join, Unwind, PersistOne, PersistFail, PersistDone,
                SendFinished, SendError, Conclude, Exit, Goto
  <2> QED BY <2>1 DEF uiVars, screen, table
<1>3. CASE \E t \in Threads : Pool(t)
  <2>1. UNCHANGED uiVars
    BY <1>3 DEF Pool, ScanEntry, PanicEntry, Lock, SendFile, SendProgress
  <2> QED BY <2>1 DEF uiVars, screen, table
<1>4. CASE Ended \/ UNCHANGED vars
  BY <1>4 DEF Ended, vars, uiVars, screen, table
<1> QED BY <1>1, <1>2, <1>3, <1>4 DEF Next

\* No late message revives an ended scan or turns its failure into a success:
\* only the user leaves Done and Failed.
THEOREM TerminalIsFinalHolds == Spec => TerminalIsFinal
<1>1. PhaseInv /\ [Next]_vars =>
        [(phase.kind \in {"Done", "Failed"} /\ phase' # phase) => scans' = scans + 1]_vars
  <2> SUFFICES ASSUME PhaseInv, [Next]_vars, phase.kind \in {"Done", "Failed"}, phase' # phase
               PROVE  scans' = scans + 1
    OBVIOUS
  <2>1. ~Recv
    BY DEF PhaseInv, QuietOffScreen, PumpHasReceiver, Recv
  <2>2. Begin
    BY <2>1, PhaseChanges
  <2> QED BY <2>2 DEF Begin
<1> QED BY <1>1, PhaseInvariant, PTL DEF Spec, TerminalIsFinal

\* A new scan never meets the worker of an earlier one at work, so no two scans
\* write the log at once.
THEOREM NoOrphanWorkerHolds == Spec => NoOrphanWorker
<1>1. PhaseInv /\ [Next]_vars => [scans' # scans => Gone]_vars
  <2> SUFFICES ASSUME PhaseInv, [Next]_vars, scans' # scans PROVE Gone
    OBVIOUS
  <2>1. CASE UI
    <3>1. Begin
      BY <2>1 DEF UI, Frame, Recv, RecvEmpty, RecvDisconnected, EndFrame, EditFilter, Close
    <3> QED BY <3>1 DEF Begin, ButtonsEnabled, PhaseInv, QuietOffScreen
  <2>2. CASE Worker
    BY <2>2 DEF Worker, LoadOk, LoadFail, Join, Unwind, PersistOne, PersistFail, PersistDone,
                SendFinished, SendError, Conclude, Exit, Goto, uiVars
  <2>3. CASE \E t \in Threads : Pool(t)
    BY <2>3 DEF Pool, ScanEntry, PanicEntry, Lock, SendFile, SendProgress, uiVars
  <2>4. CASE Ended \/ UNCHANGED vars
    BY <2>4 DEF Ended, vars, uiVars
  <2> QED BY <2>1, <2>2, <2>3, <2>4 DEF Next
<1> QED BY <1>1, PhaseInvariant, PTL DEF Spec, NoOrphanWorker

-----------------------------------------------------------------------------
(***************************************************************************)
(* Part 2, counting.  The invariant follows each verdict from the thread   *)
(* that reached it through the channel to the screen.                      *)
(***************************************************************************)
(* The inductive invariant. *)

\* The paths told to the user once the messages before the i-th have been read.
ToldBy(i) ==
    shown \cup {chan[j].path : j \in {k \in 1..(i - 1) : chan[k].type = "FileScanned"}}
Told == ToldBy(Len(chan) + 1)

\* The threads that have a verdict and have not sent it yet, and the one of them
\* that has already counted its entry.
Unsent  == {t \in Threads : thread[t].pc \in {"lock", "file"}}
Holders == {t \in Threads : thread[t].pc \in {"file", "progress"}}
InHand  == {thread[t].entry : t \in Unsent}
Counted == {thread[t].entry : t \in {u \in Threads : thread[u].pc = "file"}}

\* The mutex has one holder, which knows the count, and no two threads the same
\* entry to announce.
PoolIsSerial ==
    /\ \A t, u \in Holders : t = u
    /\ \A t \in Holders : thread[t].done = completed
    /\ \A t, u \in Unsent : thread[t].entry = thread[u].entry => t = u

\* A scan whose entries are not known yet has told nothing.
FreshChannel ==
    worker \in {"none", "load"} =>
        /\ chan = <<>> /\ shown = {}
        /\ phase.kind = "Scanning" => phase.done = 0

\* Progress on the screen, in the channel and behind the mutex only grows.
ProgressIsOrdered ==
    phase.kind = "Scanning" =>
        /\ phase.done <= completed
        /\ \A i \in 1..Len(chan) : chan[i].type = "Progress" =>
             /\ phase.done <= chan[i].done /\ chan[i].done <= completed
             /\ chan[i].total = Cardinality(found)
             /\ \A j \in 1..(i - 1) : chan[j].type = "Progress" => chan[j].done <= chan[i].done

\* As long as somebody reads: every verdict is shown, in the channel or in a
\* thread's hand, each in one place only; the count behind the mutex is that of the
\* files announced or about to be; a Progress follows the files it counts.
VerdictsAreAccounted ==
    phase.kind = "Scanning" /\ rx # "None" =>
        /\ \A i \in 1..Len(chan) : chan[i].type = "FileScanned" =>
             /\ chan[i].path \in DOMAIN verdict \ ToldBy(i)
             /\ chan[i].verdict = verdict[chan[i].path]
        /\ Told \cap InHand = {}
        /\ DOMAIN verdict \subseteq Told \cup InHand
        /\ completed = Cardinality(Told \cup Counted)
        /\ \A i \in 1..Len(chan) : chan[i].type = "Progress" =>
             chan[i].done <= Cardinality(ToldBy(i))

\* A scan on the screen has no filter on its table yet.
TableIsFresh == phase.kind = "Scanning" => filter = Entries /\ ~only_bad

CountInv ==
    /\ PhaseInv
    /\ PoolIsSerial
    /\ FreshChannel
    /\ shown \subseteq DOMAIN verdict
    /\ ProgressIsOrdered
    /\ VerdictsAreAccounted
    /\ ScreenMatchesScan
    /\ ProgressNotAhead
    /\ TableIsFresh

-----------------------------------------------------------------------------
(* Lemmas about what has been told. *)

\* What has been told are entries; and there is a number of them.
LEMMA ToldType ==
    ASSUME TypeOK, NEW i \in 1..(Len(chan) + 1)
    PROVE  ToldBy(i) \in SUBSET Entries /\ IsFiniteSet(ToldBy(i))
             /\ Cardinality(ToldBy(i)) \in Nat
<1>1. ASSUME NEW j \in 1..(i - 1), chan[j].type = "FileScanned" PROVE chan[j].path \in Entries
  <2>1. chan[j] \in Messages
    BY DEF TypeOK
  <2> QED BY <1>1, <2>1 DEF Messages
<1>2. ToldBy(i) \in SUBSET Entries
  BY <1>1 DEF ToldBy, TypeOK
<1> QED BY <1>2, EntriesFinite

\* A message at the end of the channel adds to what is told last.
LEMMA ToldAppend ==
    ASSUME TypeOK, NEW m, chan' = Append(chan, m), shown' = shown
    PROVE  /\ \A i \in 1..(Len(chan) + 1) : ToldBy(i)' = ToldBy(i)
           /\ m.type = "FileScanned" => Told' = Told \cup {m.path}
           /\ m.type # "FileScanned" => Told' = Told
<1>1. /\ chan \in Seq(Messages) /\ Len(chan) \in Nat /\ Len(chan') = Len(chan) + 1
      /\ \A i \in 1..Len(chan) : chan'[i] = chan[i]
      /\ chan'[Len(chan) + 1] = m
  BY DEF TypeOK
<1>2. ASSUME NEW i \in 1..(Len(chan) + 1) PROVE ToldBy(i)' = ToldBy(i)
  <2>1. \A k \in 1..(i - 1) : chan'[k] = chan[k]
    BY <1>1
  <2> QED BY <2>1 DEF ToldBy
<1>3. Told' = shown \cup {chan'[j].path : j \in {k \in 1..(Len(chan) + 1) : chan'[k].type = "FileScanned"}}
  BY <1>1 DEF Told, ToldBy
<1>4. Told = shown \cup {chan[j].path : j \in {k \in 1..Len(chan) : chan[k].type = "FileScanned"}}
  BY <1>1 DEF Told, ToldBy
<1>5. 1..(Len(chan) + 1) = 1..Len(chan) \cup {Len(chan) + 1}
  BY <1>1
<1> QED BY <1>1, <1>2, <1>3, <1>4, <1>5

\* Reading a message tells what it has to tell, and no more.
LEMMA ToldTail ==
    ASSUME TypeOK, chan # <<>>, chan' = Tail(chan),
           shown' = IF chan[1].type = "FileScanned" THEN shown \cup {chan[1].path} ELSE shown
    PROVE  (\A i \in 1..Len(chan) : ToldBy(i)' = ToldBy(i + 1)) /\ Told' = Told
<1>1. /\ chan \in Seq(Messages) /\ Len(chan) \in Nat \ {0} /\ Len(chan') = Len(chan) - 1
      /\ \A i \in 1..Len(chan') : chan'[i] = chan[i + 1]
  BY DEF TypeOK
<1>2. ASSUME NEW i \in 1..Len(chan) PROVE ToldBy(i)' = ToldBy(i + 1)
  <2> DEFINE B == {k \in 1..(i - 1) : chan'[k].type = "FileScanned"}
             A == {k \in 1..i : chan[k].type = "FileScanned"}
  <2>1. ToldBy(i)' = shown' \cup {chan'[j].path : j \in B} /\ ToldBy(i + 1) = shown \cup {chan[j].path : j \in A}
    BY DEF ToldBy
  <2>2. \A k \in 1..(i - 1) : chan'[k] = chan[k + 1]
    BY <1>1
  <2>3. \A j \in B : j + 1 \in A /\ chan'[j] = chan[j + 1]
    BY <2>2
  <2>4. \A j \in A : j = 1 \/ (j - 1 \in B /\ chan[j] = chan'[j - 1])
    <3> SUFFICES ASSUME NEW j \in A, j # 1 PROVE j - 1 \in B /\ chan[j] = chan'[j - 1]
      OBVIOUS
    <3>1. j - 1 \in 1..(i - 1) /\ (j - 1) + 1 = j
      OBVIOUS
    <3> QED BY <2>2, <3>1
  <2>5. 1 \in A <=> chan[1].type = "FileScanned"
    OBVIOUS
  <2> DEFINE P == {chan'[j].path : j \in B}
             Q == {chan[j].path : j \in A}
  <2> HIDE DEF A, B
  <2>6. \A j \in B : chan'[j].path \in Q
    BY <2>3
  <2>7. \A j \in A : chan[j].path \in P \/ j = 1
    BY <2>4
  <2>8. 1 \in A => chan[1].path \in Q
    OBVIOUS
  <2>9. P \subseteq Q /\ \A q \in Q : q \in P \/ (1 \in A /\ q = chan[1].path)
    BY <2>6, <2>7
  <2> HIDE DEF P, Q
  <2>10. ToldBy(i)' = shown' \cup P /\ ToldBy(i + 1) = shown \cup Q
    BY <2>1 DEF P, Q
  <2> QED BY <2>5, <2>8, <2>9, <2>10
<1>3. PICK n \in 1..Len(chan) : n = Len(chan)
  <2>1. Len(chan) \in 1..Len(chan)
    BY <1>1
  <2> QED BY <2>1
<1>4. 1..((Len(chan') + 1) - 1) = 1..(n - 1)
  BY <1>1, <1>3
<1>5. Told' = ToldBy(n)'
  BY <1>4 DEF Told, ToldBy
<1>6. Told = ToldBy(n + 1)
  BY <1>3 DEF Told
<1> QED BY <1>2, <1>5, <1>6

\* A step that neither sends nor reads tells nothing.
LEMMA ToldSame ==
    ASSUME chan' = chan, shown' = shown
    PROVE  (\A i : ToldBy(i)' = ToldBy(i)) /\ Told' = Told
BY DEF ToldBy, Told

-----------------------------------------------------------------------------
(* The invariant is inductive. *)

\* CountInv holds when the program starts.
LEMMA CountInit == Init => CountInv
<1> SUFFICES ASSUME Init PROVE CountInv
  OBVIOUS
<1>1. phase.kind = "Idle" /\ chan = <<>> /\ shown = {} /\ worker = "none"
  BY DEF Init, Idle
<1>2. Unsent = {} /\ Holders = {}
  BY DEF Init, Unsent, Holders, Resting
<1> QED
  BY <1>1, <1>2, PhaseInit DEF CountInv, PoolIsSerial, FreshChannel, ProgressIsOrdered,
     VerdictsAreAccounted, ScreenMatchesScan, ProgressNotAhead, TableIsFresh

\* The conjuncts that speak of the screen and of what has been shown survive
\* every step that leaves both alone and adds verdicts at most.
LEMMA ScreenKept ==
    ASSUME CountInv, UNCHANGED uiVars,
           DOMAIN verdict \subseteq DOMAIN verdict',
           \A x \in DOMAIN verdict : verdict'[x] = verdict[x],
           found' = found \/ worker \in {"none", "load"}
    PROVE  shown' \subseteq DOMAIN verdict' /\ ScreenMatchesScan' /\ ProgressNotAhead'
             /\ TableIsFresh'
<1>1. UNCHANGED <<phase, stream, results, malicious_seen, errors_seen, filter, only_bad, shown, rx>>
  BY DEF uiVars, screen, table
<1>2. shown \subseteq DOMAIN verdict
  BY DEF CountInv
<1>3. \A v : {e \in shown : verdict'[e] = v} = {e \in shown : verdict[e] = v}
  BY <1>2
<1>4. ScreenMatchesScan'
  BY <1>1, <1>2, <1>3 DEF CountInv, ScreenMatchesScan, CappedLen
<1>5. ProgressNotAhead'
  BY <1>1 DEF CountInv, ProgressNotAhead, FreshChannel, PhaseInv, TypeInv, TypeOK, Phases
<1> QED BY <1>1, <1>2, <1>4, <1>5 DEF CountInv, TableIsFresh

\* Whatever has been told has a verdict.
LEMMA ToldHasVerdict ==
    ASSUME CountInv, phase.kind = "Scanning", rx # "None"
    PROVE  Told \subseteq DOMAIN verdict
<1>1. \A i \in 1..Len(chan) : chan[i].type = "FileScanned" => chan[i].path \in DOMAIN verdict
  BY DEF CountInv, VerdictsAreAccounted
<1>2. chan \in Seq(Messages) /\ (Len(chan) + 1) - 1 = Len(chan)
  BY DEF CountInv, PhaseInv, TypeInv, TypeOK
<1> QED BY <1>1, <1>2 DEF Told, ToldBy, CountInv

\* What the steps of a pool thread have in common.
LEMMA PoolFrame ==
    ASSUME CountInv, NEW t \in Threads, Pool(t)
    PROVE  /\ TypeInv /\ PhaseInv' /\ worker = "scan" /\ worker' = "scan"
           /\ UNCHANGED <<uiVars, found>> /\ phase.kind = "Scanning"
           /\ phase' = phase /\ rx' = rx /\ shown' = shown /\ found' = found
           /\ FreshChannel'
<1>1. PhaseInv /\ PhaseInv' /\ TypeInv
  BY PhasePool DEF CountInv, PhaseInv
<1>2. worker = "scan" /\ worker' = "scan" /\ UNCHANGED <<uiVars, found>>
  BY <1>1 DEF TypeInv, PoolInScan, AllResting, Resting, Pool, ScanEntry, PanicEntry, Lock,
              SendFile, SendProgress
<1> QED BY <1>1, <1>2 DEF PhaseInv, QuietOffScreen, Gone, FreshChannel, uiVars, screen

\* A thread takes an entry: its verdict is in that thread's hand only.
LEMMA CountScanEntry ==
    ASSUME CountInv, NEW t \in Threads, ScanEntry(t)
    PROVE  CountInv'
<1>1. /\ TypeInv /\ PhaseInv' /\ worker = "scan"
      /\ UNCHANGED <<uiVars, found>> /\ phase.kind = "Scanning"
      /\ phase' = phase /\ rx' = rx /\ shown' = shown /\ found' = found /\ FreshChannel'
  BY PoolFrame DEF Pool
<1>2. PICK e \in found \ Taken, v \in Verdicts :
        /\ verdict' = [x \in Taken \cup {e} |-> IF x = e THEN v ELSE verdict[x]]
        /\ thread' = [thread EXCEPT ![t] = [pc |-> "lock", entry |-> e, done |-> 0]]
  BY DEF ScanEntry
<1>3. /\ chan' = chan /\ completed' = completed /\ thread \in [Threads -> ThreadStates]
      /\ thread[t].pc = "idle"
  BY <1>1 DEF ScanEntry, TypeInv, TypeOK
<1>4. /\ DOMAIN verdict' = DOMAIN verdict \cup {e} /\ e \notin DOMAIN verdict
      /\ \A x \in DOMAIN verdict : verdict'[x] = verdict[x]
  BY <1>2 DEF Taken
<1>5. /\ thread'[t].pc = "lock" /\ thread'[t].entry = e
      /\ \A u \in Threads : u # t => thread'[u] = thread[u]
  BY <1>2, <1>3
<1>6. Holders' = Holders /\ Unsent' = Unsent \cup {t} /\ t \notin Unsent
  BY <1>3, <1>5 DEF Holders, Unsent
<1>7. \A u \in Unsent : thread[u].entry \in DOMAIN verdict
  BY <1>1 DEF TypeInv, ThreadHasEntry, Unsent
<1>8. PoolIsSerial'
  <2>1. \A u \in Holders : u # t
    BY <1>3 DEF Holders
  <2>2. \A u, w \in Unsent' : thread'[u].entry = thread'[w].entry => u = w
    BY <1>4, <1>5, <1>6, <1>7 DEF CountInv, PoolIsSerial, Unsent
  <2> QED BY <1>3, <1>5, <1>6, <2>1, <2>2 DEF CountInv, PoolIsSerial, Holders
<1>9. InHand' = InHand \cup {e} /\ Counted' = Counted
  <2>1. InHand' = InHand \cup {e}
    BY <1>5, <1>6 DEF InHand, Unsent
  <2>2. {u \in Threads : thread'[u].pc = "file"} = {u \in Threads : thread[u].pc = "file"}
    BY <1>3, <1>5
  <2> QED BY <2>1, <2>2, <1>3, <1>5 DEF Counted
<1>10. ProgressIsOrdered'
  BY <1>1, <1>3 DEF CountInv, ProgressIsOrdered
<1>11. VerdictsAreAccounted'
  <2> SUFFICES ASSUME rx # "None" PROVE VerdictsAreAccounted'
    BY <1>1 DEF VerdictsAreAccounted
  <2>1. (\A i : ToldBy(i)' = ToldBy(i)) /\ Told' = Told
    BY <1>1, <1>3, ToldSame
  <2>2. e \notin Told
    BY <1>1, <1>4, ToldHasVerdict
  <2> QED BY <1>1, <1>3, <1>4, <1>9, <2>1, <2>2 DEF CountInv, VerdictsAreAccounted
<1> QED BY <1>1, <1>4, <1>8, <1>10, <1>11, ScreenKept DEF CountInv

\* The mutex is taken: the entry in hand is counted.
LEMMA CountLock ==
    ASSUME CountInv, NEW t \in Threads, Lock(t)
    PROVE  CountInv'
<1>1. /\ TypeInv /\ PhaseInv' /\ worker = "scan"
      /\ UNCHANGED <<uiVars, found>> /\ phase.kind = "Scanning"
      /\ phase' = phase /\ rx' = rx /\ shown' = shown /\ found' = found /\ FreshChannel'
  BY PoolFrame DEF Pool
<1>2. /\ chan' = chan /\ completed' = completed + 1 /\ verdict' = verdict
      /\ thread \in [Threads -> ThreadStates] /\ completed \in Nat
      /\ thread[t].pc = "lock" /\ chan \in Seq(Messages)
  BY <1>1 DEF Lock, TypeInv, TypeOK
<1>3. /\ thread'[t].pc = "file" /\ thread'[t].entry = thread[t].entry
      /\ thread'[t].done = completed + 1
      /\ \A u \in Threads : u # t => thread'[u] = thread[u]
  BY <1>2 DEF Lock, ThreadStates
<1>4. Holders = {} /\ Holders' = {t} /\ Unsent' = Unsent /\ t \in Unsent
  BY <1>2, <1>3 DEF Lock, LockFree, Holders, Unsent
<1>5. \A u \in Threads : thread'[u].entry = thread[u].entry
  BY <1>3
<1>6. PoolIsSerial'
  BY <1>2, <1>3, <1>4, <1>5 DEF CountInv, PoolIsSerial, Unsent
<1>7. InHand' = InHand /\ Counted = {} /\ Counted' = {thread[t].entry} /\ thread[t].entry \in InHand
  <2>1. InHand' = InHand
    BY <1>4, <1>5 DEF InHand, Unsent
  <2>2. {u \in Threads : thread[u].pc = "file"} = {}
    BY <1>4 DEF Holders
  <2>3. {u \in Threads : thread'[u].pc = "file"} = {t}
    BY <1>3, <2>2
  <2>4. Counted = {}
    BY <2>2 DEF Counted
  <2>5. \A x : x \in Counted' <=> x = thread[t].entry
    BY <1>5, <2>3 DEF Counted
  <2>6. thread[t].entry \in InHand
    BY <1>4 DEF InHand
  <2> QED BY <2>1, <2>4, <2>5, <2>6
<1>8. ProgressIsOrdered'
  <2>1. \A i \in 1..Len(chan) : chan[i].type = "Progress" => chan[i].done \in Nat
    BY <1>2 DEF Messages
  <2>2. phase.done \in Nat
    BY <1>1 DEF TypeInv, TypeOK, Phases, Idle, Failed, Done
  <2> QED BY <1>1, <1>2, <2>1, <2>2 DEF CountInv, ProgressIsOrdered
<1>9. VerdictsAreAccounted'
  <2> SUFFICES ASSUME rx # "None" PROVE VerdictsAreAccounted'
    BY <1>1 DEF VerdictsAreAccounted
  <2>1. (\A i : ToldBy(i)' = ToldBy(i)) /\ Told' = Told
    BY <1>1, <1>2, ToldSame
  <2>2. Told \cap InHand = {} /\ completed = Cardinality(Told)
    BY <1>1, <1>7 DEF CountInv, VerdictsAreAccounted
  <2>3. IsFiniteSet(Told)
    <3>1. Len(chan) + 1 \in 1..(Len(chan) + 1)
      BY <1>2
    <3> QED BY <1>1, <3>1, ToldType DEF Told, TypeInv
  <2>4. completed' = Cardinality(Told' \cup Counted')
    BY <1>2, <1>7, <2>1, <2>2, <2>3, FS_AddElement
  <2> QED BY <1>1, <1>2, <1>7, <2>1, <2>4 DEF CountInv, VerdictsAreAccounted
<1> QED BY <1>1, <1>2, <1>6, <1>8, <1>9, ScreenKept DEF CountInv

\* FileScanned is sent, or the receiver is gone and nothing counts any more.
LEMMA CountSendFile ==
    ASSUME CountInv, NEW t \in Threads, SendFile(t)
    PROVE  CountInv'
<1> DEFINE e == thread[t].entry
           m == FileScanned(e, verdict[e])
<1>1. /\ TypeInv /\ PhaseInv' /\ worker = "scan"
      /\ UNCHANGED <<uiVars, found>> /\ phase.kind = "Scanning"
      /\ phase' = phase /\ rx' = rx /\ shown' = shown /\ found' = found /\ FreshChannel'
  BY PoolFrame DEF Pool
<1>2. /\ completed' = completed /\ verdict' = verdict
      /\ thread \in [Threads -> ThreadStates] /\ completed \in Nat
      /\ thread[t].pc = "file" /\ chan \in Seq(Messages) /\ TypeOK
      /\ chan' = IF rx # "None" THEN Append(chan, m) ELSE chan
  BY <1>1 DEF SendFile, Send, ReceiverAlive, TypeInv, TypeOK
<1>3. /\ thread'[t].pc \in {"idle", "progress"}
      /\ thread'[t].pc = "progress" => thread'[t].done = thread[t].done
      /\ \A u \in Threads : u # t => thread'[u] = thread[u]
  BY <1>2 DEF SendFile, ThreadStates, Resting
<1>4. /\ Unsent' = Unsent \ {t} /\ t \in Unsent /\ t \in Holders
      /\ Holders' \subseteq Holders /\ \A u \in Holders : u = t
  BY <1>2, <1>3 DEF CountInv, PoolIsSerial, Holders, Unsent
<1>5. PoolIsSerial'
  BY <1>2, <1>3, <1>4 DEF CountInv, PoolIsSerial, Unsent, Holders
<1>6. InHand' = InHand \ {e} /\ e \in InHand
  <2>1. \A u \in Unsent \ {t} : thread'[u] = thread[u] /\ thread[u].entry # e
    BY <1>3, <1>4 DEF CountInv, PoolIsSerial, Unsent
  <2>2. InHand' = {thread[u].entry : u \in Unsent \ {t}}
    BY <1>4, <2>1 DEF InHand
  <2> QED BY <1>4, <2>1, <2>2 DEF InHand
<1>7. Counted = {e} /\ Counted' = {}
  <2>1. {u \in Threads : thread[u].pc = "file"} = {t}
    BY <1>2, <1>4 DEF Holders
  <2>2. {u \in Threads : thread'[u].pc = "file"} = {}
    BY <1>3, <2>1
  <2>3. Counted' = {}
    BY <2>2 DEF Counted
  <2> QED BY <2>1, <2>3 DEF Counted
<1>8. e \in DOMAIN verdict
  BY <1>1, <1>2 DEF TypeInv, ThreadHasEntry
<1>9. CASE rx = "None"
  <2>1. chan' = chan
    BY <1>2, <1>9
  <2>2. ProgressIsOrdered' /\ VerdictsAreAccounted'
    BY <1>1, <1>2, <1>9, <2>1 DEF CountInv, ProgressIsOrdered, VerdictsAreAccounted
  <2> QED BY <1>1, <1>2, <1>5, <2>2, ScreenKept DEF CountInv
<1>10. CASE rx # "None"
  <2>1. chan' = Append(chan, m) /\ m.type = "FileScanned" /\ m.path = e /\ m.verdict = verdict[e]
    BY <1>2, <1>10 DEF FileScanned
  <2>2. /\ Len(chan) \in Nat /\ Len(chan') = Len(chan) + 1 /\ chan'[Len(chan) + 1] = m
        /\ \A i \in 1..Len(chan) : chan'[i] = chan[i]
    BY <1>2, <2>1
  <2> HIDE DEF m
  <2>3. ProgressIsOrdered'
    <3>1. \A i \in 1..Len(chan') : chan'[i].type = "Progress" => i \in 1..Len(chan)
      BY <2>1, <2>2
    <3>2. \A i \in 1..Len(chan) : \A j \in 1..(i - 1) : j \in 1..Len(chan)
      BY <2>2
    <3> QED BY <1>1, <1>2, <2>2, <3>1, <3>2 DEF CountInv, ProgressIsOrdered
  <2>4. (\A i \in 1..(Len(chan) + 1) : ToldBy(i)' = ToldBy(i)) /\ Told' = Told \cup {e}
    BY <1>1, <1>2, <2>1, ToldAppend
  <2>5. e \notin Told /\ Told = ToldBy(Len(chan) + 1)
    BY <1>1, <1>6, <1>10 DEF CountInv, VerdictsAreAccounted, Told
  <2>6. VerdictsAreAccounted'
    <3>1. ASSUME NEW i \in 1..Len(chan'), chan'[i].type = "FileScanned"
          PROVE  chan'[i].path \in DOMAIN verdict \ ToldBy(i)'
                   /\ chan'[i].verdict = verdict[chan'[i].path]
      <4>1. CASE i \in 1..Len(chan)
        BY <1>1, <1>10, <2>2, <2>4, <3>1, <4>1 DEF CountInv, VerdictsAreAccounted
      <4>2. CASE i = Len(chan) + 1
        BY <1>8, <2>1, <2>2, <2>4, <2>5, <4>2
      <4> QED BY <2>2, <4>1, <4>2
    <3>2. ASSUME NEW i \in 1..Len(chan'), chan'[i].type = "Progress"
          PROVE  chan'[i].done <= Cardinality(ToldBy(i)')
      <4>1. i \in 1..Len(chan)
        BY <2>1, <2>2, <3>2
      <4> QED BY <1>1, <1>10, <2>2, <2>4, <3>2, <4>1 DEF CountInv, VerdictsAreAccounted
    <3>3. Told' \cup Counted' = Told \cup Counted
      BY <1>7, <2>4
    <3>4. Told' \cap InHand' = {} /\ DOMAIN verdict \subseteq Told' \cup InHand'
      BY <1>1, <1>6, <1>10, <2>4 DEF CountInv, VerdictsAreAccounted
    <3> QED BY <1>1, <1>2, <1>10, <3>1, <3>2, <3>3, <3>4 DEF CountInv, VerdictsAreAccounted
  <2> QED BY <1>1, <1>2, <1>5, <2>3, <2>6, ScreenKept DEF CountInv
<1> QED BY <1>9, <1>10

\* Progress is sent or dropped: it follows every file it counts.
LEMMA CountSendProgress ==
    ASSUME CountInv, NEW t \in Threads, SendProgress(t)
    PROVE  CountInv'
<1> DEFINE m == Progress(thread[t].done, Cardinality(found))
<1>1. /\ TypeInv /\ PhaseInv' /\ worker = "scan"
      /\ UNCHANGED <<uiVars, found>> /\ phase.kind = "Scanning"
      /\ phase' = phase /\ rx' = rx /\ shown' = shown /\ found' = found /\ FreshChannel'
  BY PoolFrame DEF Pool
<1>2. /\ completed' = completed /\ verdict' = verdict
      /\ thread \in [Threads -> ThreadStates] /\ completed \in Nat
      /\ thread[t].pc = "progress" /\ chan \in Seq(Messages) /\ TypeOK
      /\ chan' = chan \/ (rx # "None" /\ chan' = Append(chan, m))
  BY <1>1 DEF SendProgress, TrySend, ReceiverAlive, TypeInv, TypeOK
<1>3. /\ thread'[t].pc = "idle" /\ \A u \in Threads : u # t => thread'[u] = thread[u]
  BY <1>2 DEF SendProgress, Resting
<1>4. /\ Unsent' = Unsent /\ t \notin Unsent /\ t \in Holders /\ thread[t].done = completed
      /\ Holders' \subseteq Holders /\ \A u \in Holders : u = t
  BY <1>2, <1>3 DEF CountInv, PoolIsSerial, Holders, Unsent
<1>5. PoolIsSerial'
  BY <1>2, <1>3, <1>4 DEF CountInv, PoolIsSerial, Unsent, Holders
<1>6. InHand' = InHand
  BY <1>3, <1>4 DEF InHand, Unsent
<1>7. Counted = {} /\ Counted' = {}
  <2>1. {u \in Threads : thread[u].pc = "file"} = {}
    BY <1>2, <1>4 DEF Holders
  <2>2. {u \in Threads : thread'[u].pc = "file"} = {}
    BY <1>3, <2>1
  <2> QED BY <2>1, <2>2 DEF Counted
<1>8. CASE chan' = chan
  <2>1. (\A i : ToldBy(i)' = ToldBy(i)) /\ Told' = Told
    BY <1>1, <1>8, ToldSame
  <2>2. ProgressIsOrdered' /\ VerdictsAreAccounted'
    BY <1>1, <1>2, <1>6, <1>7, <1>8, <2>1 DEF CountInv, ProgressIsOrdered, VerdictsAreAccounted
  <2> QED BY <1>1, <1>2, <1>5, <2>2, ScreenKept DEF CountInv
<1>9. CASE rx # "None" /\ chan' = Append(chan, m)
  <2>1. m.type = "Progress" /\ m.done = completed /\ m.total = Cardinality(found)
    BY <1>4 DEF Progress
  <2>2. /\ Len(chan) \in Nat /\ Len(chan') = Len(chan) + 1 /\ chan'[Len(chan) + 1] = m
        /\ \A i \in 1..Len(chan) : chan'[i] = chan[i]
    BY <1>2, <1>9
  <2>3. (\A i \in 1..(Len(chan) + 1) : ToldBy(i)' = ToldBy(i)) /\ Told' = Told
    BY <1>1, <1>2, <1>9, <2>1, ToldAppend
  <2> HIDE DEF m
  <2>4. ProgressIsOrdered'
    <3> SUFFICES ASSUME NEW i \in 1..Len(chan'), chan'[i].type = "Progress"
                 PROVE  /\ phase.done <= chan'[i].done /\ chan'[i].done <= completed
                        /\ chan'[i].total = Cardinality(found)
                        /\ \A j \in 1..(i - 1) : chan'[j].type = "Progress" => chan'[j].done <= chan'[i].done
      BY <1>1, <1>2 DEF CountInv, ProgressIsOrdered
    <3>1. \A j \in 1..(i - 1) : j \in 1..Len(chan)
      BY <2>2
    <3>2. CASE i \in 1..Len(chan)
      BY <1>1, <2>2, <3>1, <3>2 DEF CountInv, ProgressIsOrdered
    <3>3. CASE i = Len(chan) + 1
      BY <1>1, <1>2, <2>1, <2>2, <3>1, <3>3 DEF CountInv, ProgressIsOrdered
    <3> QED BY <2>2, <3>2, <3>3
  <2>5. VerdictsAreAccounted'
    <3>1. Told = ToldBy(Len(chan) + 1) /\ completed = Cardinality(Told)
      BY <1>1, <1>7, <1>9 DEF CountInv, VerdictsAreAccounted, Told
    <3>2. ASSUME NEW i \in 1..Len(chan'), chan'[i].type = "FileScanned"
          PROVE  chan'[i].path \in DOMAIN verdict \ ToldBy(i)'
                   /\ chan'[i].verdict = verdict[chan'[i].path]
      <4>1. i \in 1..Len(chan)
        BY <2>1, <2>2, <3>2
      <4> QED BY <1>1, <1>9, <2>2, <2>3, <3>2, <4>1 DEF CountInv, VerdictsAreAccounted
    <3>3. ASSUME NEW i \in 1..Len(chan'), chan'[i].type = "Progress"
          PROVE  chan'[i].done <= Cardinality(ToldBy(i)')
      <4>1. CASE i \in 1..Len(chan)
        BY <1>1, <1>9, <2>2, <2>3, <3>3, <4>1 DEF CountInv, VerdictsAreAccounted
      <4>2. CASE i = Len(chan) + 1
        <5>1. ToldBy(i)' = Told
          BY <2>2, <2>3, <3>1, <4>2
        <5> QED BY <1>2, <2>1, <2>2, <3>1, <4>2, <5>1
      <4> QED BY <2>2, <4>1, <4>2
    <3> QED BY <1>1, <1>2, <1>6, <1>7, <1>9, <2>3, <3>2, <3>3 DEF CountInv, VerdictsAreAccounted
  <2> QED BY <1>1, <1>2, <1>5, <2>4, <2>5, ScreenKept DEF CountInv
<1> QED BY <1>2, <1>8, <1>9

\* A pool thread keeps the invariant.
LEMMA CountPool == CountInv /\ (\E t \in Threads : Pool(t)) => CountInv'
<1> SUFFICES ASSUME CountInv, NEW t \in Threads, Pool(t) PROVE CountInv'
  OBVIOUS
<1>1. CASE PanicEntry(t)
  <2>1. /\ PhaseInv' /\ FreshChannel' /\ phase' = phase /\ rx' = rx /\ shown' = shown
        /\ UNCHANGED <<uiVars, chan, verdict, thread, completed, found>>
    BY <1>1, PoolFrame DEF Pool, PanicEntry
  <2>2. (\A i : ToldBy(i)' = ToldBy(i)) /\ Told' = Told
    BY <2>1, ToldSame
  <2>3. PoolIsSerial' /\ InHand' = InHand /\ Counted' = Counted
    BY <2>1 DEF CountInv, PoolIsSerial, Holders, Unsent, InHand, Counted
  <2>4. ProgressIsOrdered' /\ VerdictsAreAccounted'
    BY <2>1, <2>2, <2>3 DEF CountInv, ProgressIsOrdered, VerdictsAreAccounted
  <2> QED BY <2>1, <2>3, <2>4, ScreenKept DEF CountInv
<1> QED BY <1>1, CountScanEntry, CountLock, CountSendFile, CountSendProgress DEF Pool

\* run_scan keeps the invariant: it adds at most a last message, which is neither
\* a file nor a progress.
LEMMA CountWorker == CountInv /\ Worker => CountInv'
<1> SUFFICES ASSUME CountInv, Worker PROVE CountInv'
  OBVIOUS
<1>1. PhaseInv' /\ TypeOK /\ chan \in Seq(Messages)
  BY PhaseWorker DEF CountInv, PhaseInv, TypeInv, TypeOK
<1>2. UNCHANGED <<uiVars, verdict, thread, completed>>
  BY DEF Worker, LoadOk, LoadFail, Join, Unwind, PersistOne, PersistFail, PersistDone,
         SendFinished, SendError, Conclude, Exit, Goto, pool
<1>3. phase' = phase /\ rx' = rx /\ shown' = shown
  BY <1>2 DEF uiVars, screen
<1>4. PoolIsSerial' /\ InHand' = InHand /\ Counted' = Counted
  BY <1>2 DEF CountInv, PoolIsSerial, Holders, Unsent, InHand, Counted
<1>5. CASE LoadOk
  <2>2. chan = <<>> /\ chan' = <<>> /\ worker = "load" /\ worker' = "scan"
    BY <1>5 DEF LoadOk, CountInv, FreshChannel
  <2>3. (\A i : ToldBy(i)' = ToldBy(i)) /\ Told' = Told
    BY <1>3, <2>2, ToldSame
  <2>4. ProgressIsOrdered' /\ VerdictsAreAccounted'
    BY <1>2, <1>3, <1>4, <2>2, <2>3 DEF CountInv, ProgressIsOrdered, VerdictsAreAccounted
  <2> QED BY <1>1, <1>2, <1>4, <2>2, <2>4, ScreenKept DEF CountInv, FreshChannel
<1>6. CASE LoadFail \/ Join \/ Unwind \/ PersistOne \/ PersistFail \/ PersistDone \/ Exit
  <2>1. UNCHANGED <<chan, found>> /\ worker' \notin {"none", "load"}
    BY <1>6 DEF LoadFail, Join, Unwind, PersistOne, PersistFail, PersistDone, Exit, Goto, pool
  <2>2. (\A i : ToldBy(i)' = ToldBy(i)) /\ Told' = Told
    BY <1>3, <2>1, ToldSame
  <2>3. ProgressIsOrdered' /\ VerdictsAreAccounted'
    BY <1>2, <1>3, <1>4, <2>1, <2>2 DEF CountInv, ProgressIsOrdered, VerdictsAreAccounted
  <2> QED BY <1>1, <1>2, <1>4, <2>1, <2>3, ScreenKept DEF CountInv, FreshChannel
<1>7. CASE SendFinished \/ SendError
  <2>1. PICK m : /\ m.type \in {"Finished", "Error"} /\ found' = found /\ worker' = "returning"
                 /\ (chan' = chan \/ chan' = Append(chan, m))
    BY <1>7 DEF SendFinished, SendError, Conclude, Send, Finished, Error, pool
  <2>2. CASE chan' = chan
    <3>1. (\A i : ToldBy(i)' = ToldBy(i)) /\ Told' = Told
      BY <1>3, <2>2, ToldSame
    <3>2. ProgressIsOrdered' /\ VerdictsAreAccounted'
      BY <1>2, <1>3, <1>4, <2>1, <2>2, <3>1 DEF CountInv, ProgressIsOrdered, VerdictsAreAccounted
    <3> QED BY <1>1, <1>2, <1>4, <2>1, <3>2, ScreenKept DEF CountInv, FreshChannel
  <2>3. CASE chan' = Append(chan, m)
    <3>1. (\A i \in 1..(Len(chan) + 1) : ToldBy(i)' = ToldBy(i)) /\ Told' = Told
      BY <1>1, <1>3, <2>1, <2>3, ToldAppend
    <3>2. /\ Len(chan) \in Nat /\ Len(chan') = Len(chan) + 1 /\ chan'[Len(chan) + 1] = m
          /\ \A i \in 1..Len(chan) : chan'[i] = chan[i]
      BY <1>1, <2>3
    <3>3. \A i \in 1..Len(chan') :
            chan'[i].type \in {"FileScanned", "Progress"} => i \in 1..Len(chan)
      BY <2>1, <3>2
    <3>4. \A i \in 1..Len(chan) : \A j \in 1..(i - 1) : j \in 1..Len(chan)
      BY <3>2
    <3>5. ProgressIsOrdered'
      BY <1>2, <1>3, <2>1, <3>2, <3>3, <3>4 DEF CountInv, ProgressIsOrdered
    <3>6. VerdictsAreAccounted'
      BY <1>2, <1>3, <1>4, <3>1, <3>2, <3>3 DEF CountInv, VerdictsAreAccounted
    <3> QED BY <1>1, <1>2, <1>4, <2>1, <3>5, <3>6, ScreenKept DEF CountInv, FreshChannel
  <2> QED BY <2>1, <2>2, <2>3
<1> QED BY <1>5, <1>6, <1>7 DEF Worker

\* A file is shown: counter, stream and what was told grow together.
LEMMA ShowFile ==
    ASSUME CountInv, phase.kind = "Scanning", NEW m \in Messages, m.type = "FileScanned",
           m.path \in DOMAIN verdict \ shown, m.verdict = verdict[m.path],
           ReduceFileScanned(m), verdict' = verdict
    PROVE  ScreenMatchesScan' /\ Cardinality(shown') = Cardinality(shown) + 1
<1> DEFINE p == m.path
           Of(v) == {e \in shown : verdict[e] = v}
<1>1. /\ TypeOK /\ shown \subseteq Entries /\ stream \in Seq(Lines) /\ StreamCap \in Nat \ {0}
      /\ p \in Entries /\ m.verdict \in Verdicts
  BY CapAssumption DEF CountInv, PhaseInv, TypeInv, TypeOK, Messages
<1>2. shown' = shown \cup {p} /\ p \notin shown /\ IsFiniteSet(shown) /\ Cardinality(shown) \in Nat
  BY <1>1, EntriesFinite DEF ReduceFileScanned
<1>3. Cardinality(shown') = Cardinality(shown) + 1
  BY <1>2, FS_AddElement
<1>4. ASSUME NEW v
      PROVE  Cardinality({e \in shown' : verdict[e] = v}) =
               Cardinality(Of(v)) + (IF verdict[p] = v THEN 1 ELSE 0)
  <2>1. Of(v) \in SUBSET Entries /\ p \notin Of(v)
    BY <1>1, <1>2
  <2>2. IsFiniteSet(Of(v)) /\ Cardinality(Of(v)) \in Nat
    BY <2>1, EntriesFinite
  <2>3. Cardinality(Of(v) \cup {p}) = Cardinality(Of(v)) + 1
    BY <2>1, <2>2, FS_AddElement
  <2>4. CASE verdict[p] = v
    <3>1. {e \in shown' : verdict[e] = v} = Of(v) \cup {p}
      BY <1>2, <2>4
    <3> QED BY <2>3, <2>4, <3>1
  <2>5. CASE verdict[p] # v
    <3>1. {e \in shown' : verdict[e] = v} = Of(v)
      BY <1>2, <2>5
    <3> QED BY <2>2, <2>5, <3>1
  <2> QED BY <2>4, <2>5
<1>5. /\ malicious_seen' = Cardinality({e \in shown' : verdict'[e] = "Malicious"})
      /\ errors_seen' = Cardinality({e \in shown' : verdict'[e] = "Error"})
  <2>1. /\ malicious_seen = Cardinality(Of("Malicious")) /\ errors_seen = Cardinality(Of("Error"))
        /\ malicious_seen' = malicious_seen + (IF verdict[p] = "Malicious" THEN 1 ELSE 0)
        /\ errors_seen' = errors_seen + (IF verdict[p] = "Error" THEN 1 ELSE 0)
    BY DEF CountInv, ScreenMatchesScan, ReduceFileScanned
  <2> QED BY <1>4, <2>1
<1>6. Len(stream) = CappedLen(shown) /\ stream' = Push(stream, [path |-> p, verdict |-> m.verdict])
  BY DEF CountInv, ScreenMatchesScan, ReduceFileScanned
<1>7. [path |-> p, verdict |-> m.verdict] \in Lines
  BY <1>1 DEF Lines
<1>8. Len(stream') = CappedLen(shown')
  BY <1>1, <1>2, <1>3, <1>6, <1>7 DEF CappedLen, Push
<1>9. \A i \in DOMAIN stream' :
        stream'[i].path \in shown' /\ stream'[i].verdict = verdict'[stream'[i].path]
  <2>1. ASSUME NEW i \in DOMAIN stream'
        PROVE  stream'[i] = [path |-> p, verdict |-> m.verdict] \/ \E j \in DOMAIN stream : stream'[i] = stream[j]
    BY <1>1, <1>6, <1>7, <2>1 DEF Push
  <2> QED BY <1>2, <2>1 DEF CountInv, ScreenMatchesScan
<1>10. results' = EmptyResults
  BY DEF CountInv, ScreenMatchesScan, ReduceFileScanned
<1> QED BY <1>3, <1>5, <1>8, <1>9, <1>10 DEF ScreenMatchesScan

\* A received message keeps the invariant.
LEMMA CountRecv == CountInv /\ Recv => CountInv'
<1> SUFFICES ASSUME CountInv, Recv PROVE CountInv'
  OBVIOUS
<1> DEFINE m == chan[1]
<1>1. PhaseInv' /\ PhaseInv /\ TypeOK
  BY PhaseRecv DEF CountInv, PhaseInv, TypeInv
<1>2. /\ chan \in Seq(Messages) /\ chan # <<>> /\ chan' = Tail(chan) /\ m = Head(chan)
      /\ m \in Messages /\ Reduce(m) /\ Len(chan) \in Nat \ {0} /\ Len(chan') = Len(chan) - 1
      /\ \A i \in 1..Len(chan') : chan'[i] = chan[i + 1] /\ i + 1 \in 1..Len(chan)
  BY <1>1 DEF Recv, TypeOK
<1>3. /\ phase.kind = "Scanning" /\ rx # "None" /\ rx' = rx
      /\ worker \notin {"none", "load"}
  BY <1>1, <1>2 DEF Recv, CountInv, FreshChannel, PhaseInv, PumpHasReceiver, QuietOffScreen
<1>4. UNCHANGED <<table, worker, found, verdict, thread, completed>>
  BY DEF Recv, pool
<1>5. PoolIsSerial' /\ FreshChannel' /\ InHand' = InHand /\ Counted' = Counted
  BY <1>3, <1>4 DEF CountInv, PoolIsSerial, FreshChannel, Holders, Unsent, InHand, Counted
<1>6. TableIsFresh'
  BY <1>3, <1>4 DEF CountInv, TableIsFresh, table
<1>7. 1 \in 1..Len(chan) /\ ToldBy(1) = shown
  <2>1. {k \in 1..(1 - 1) : chan[k].type = "FileScanned"} = {}
    OBVIOUS
  <2> QED BY <1>2, <2>1 DEF ToldBy
\* What a message leaves behind it, if the scan goes on.
<1>8. ASSUME phase'.kind = "Scanning",
             phase'.done \in {phase.done, m.done}, m.type # "Progress" => phase'.done = phase.done,
             m.type = "Progress" => phase'.done = m.done,
             shown' = IF m.type = "FileScanned" THEN shown \cup {m.path} ELSE shown
      PROVE  ProgressIsOrdered' /\ VerdictsAreAccounted'
  <2>1. (\A i \in 1..Len(chan) : ToldBy(i)' = ToldBy(i + 1)) /\ Told' = Told
    BY <1>1, <1>2, <1>8, ToldTail
  <2>2. \A i \in 1..Len(chan') : i \in 1..Len(chan) /\ 1 \in 1..((i + 1) - 1)
    BY <1>2
  <2>3. ProgressIsOrdered'
    <3>1. phase'.done <= completed
      BY <1>3, <1>7, <1>8 DEF CountInv, ProgressIsOrdered
    <3> SUFFICES ASSUME NEW i \in 1..Len(chan'), chan'[i].type = "Progress"
                 PROVE  /\ phase'.done <= chan'[i].done /\ chan'[i].done <= completed
                        /\ chan'[i].total = Cardinality(found)
                        /\ \A j \in 1..(i - 1) : chan'[j].type = "Progress" => chan'[j].done <= chan'[i].done
      BY <1>4, <3>1 DEF ProgressIsOrdered
    <3>2. chan'[i] = chan[i + 1] /\ i + 1 \in 1..Len(chan) /\ 1 \in 1..((i + 1) - 1)
      BY <1>2, <2>2
    <3>3. /\ phase.done <= chan[i + 1].done /\ chan[i + 1].done <= completed
          /\ chan[i + 1].total = Cardinality(found)
          /\ \A j \in 1..((i + 1) - 1) : chan[j].type = "Progress" => chan[j].done <= chan[i + 1].done
      BY <1>3, <3>2 DEF CountInv, ProgressIsOrdered
    <3>4. phase'.done <= chan'[i].done
      BY <1>8, <3>2, <3>3
    <3>5. \A j \in 1..(i - 1) : chan'[j] = chan[j + 1] /\ j + 1 \in 1..((i + 1) - 1)
      BY <1>2
    <3> QED BY <3>2, <3>3, <3>4, <3>5
  <2>4. VerdictsAreAccounted'
    <3>1. \A i \in 1..Len(chan') : ToldBy(i)' = ToldBy(i + 1)
      BY <2>1, <2>2
    <3> QED BY <1>2, <1>3, <1>4, <1>5, <2>1, <3>1 DEF CountInv, VerdictsAreAccounted
  <2> QED BY <2>3, <2>4
<1>9. CASE m.type = "FileScanned" /\ ReduceFileScanned(m)
  <2>1. m.path \in DOMAIN verdict \ shown /\ m.verdict = verdict[m.path]
    BY <1>3, <1>7, <1>9 DEF CountInv, VerdictsAreAccounted
  <2>2. phase' = phase /\ shown' = shown \cup {m.path}
    BY <1>9 DEF ReduceFileScanned
  <2>3. ScreenMatchesScan' /\ Cardinality(shown') = Cardinality(shown) + 1
    BY <1>2, <1>3, <1>4, <1>9, <2>1, ShowFile
  <2>4. Cardinality(shown) \in Nat /\ phase.done \in Nat
    BY <1>1, <1>3, EntriesFinite DEF TypeOK, Phases, Idle, Failed, Done
  <2>5. ProgressNotAhead'
    BY <1>3, <1>4, <2>2, <2>3, <2>4 DEF CountInv, ProgressNotAhead
  <2>6. shown' \subseteq DOMAIN verdict'
    BY <1>4, <2>1, <2>2 DEF CountInv
  <2>7. ProgressIsOrdered' /\ VerdictsAreAccounted'
    BY <1>3, <1>8, <1>9, <2>2
  <2> QED BY <1>1, <1>5, <1>6, <2>3, <2>5, <2>6, <2>7 DEF CountInv
<1>10. CASE m.type = "Progress" /\ ReduceProgress(m)
  <2>1. /\ phase'.kind = "Scanning" /\ phase'.done = m.done /\ phase'.total = m.total
        /\ UNCHANGED <<stream, results, malicious_seen, errors_seen, shown>>
    BY <1>10 DEF ReduceProgress, Scanning
  <2>2. m.done <= Cardinality(shown) /\ m.total = Cardinality(found)
    BY <1>3, <1>7, <1>10 DEF CountInv, VerdictsAreAccounted, ProgressIsOrdered
  <2>3. ScreenMatchesScan'
    BY <1>3, <1>4, <2>1 DEF CountInv, ScreenMatchesScan, CappedLen
  <2>4. ProgressNotAhead'
    BY <1>4, <2>1, <2>2 DEF ProgressNotAhead
  <2>5. ProgressIsOrdered' /\ VerdictsAreAccounted'
    BY <1>8, <1>10, <2>1
  <2> QED BY <1>1, <1>4, <1>5, <1>6, <2>1, <2>3, <2>4, <2>5 DEF CountInv
<1>11. CASE (m.type = "Finished" /\ ReduceFinished(m)) \/ (m.type = "Error" /\ ReduceError)
  <2>1. phase'.kind # "Scanning" /\ shown' = shown
    BY <1>11 DEF ReduceFinished, ReduceError, Done, Failed
  <2> QED BY <1>1, <1>4, <1>5, <1>6, <2>1
          DEF CountInv, ProgressIsOrdered, VerdictsAreAccounted, ScreenMatchesScan, ProgressNotAhead
<1> QED BY <1>2, <1>9, <1>10, <1>11 DEF Reduce

\* The other steps of the UI thread keep the invariant.
LEMMA CountUI == CountInv /\ UI => CountInv'
<1> SUFFICES ASSUME CountInv, UI PROVE CountInv'
  OBVIOUS
<1>1. PhaseInv' /\ PhaseInv
  BY PhaseUI DEF CountInv
\* A frame that changes none of what the invariant relates.
<1>2. ASSUME UNCHANGED <<phase, stream, results, malicious_seen, errors_seen, shown>>,
             UNCHANGED <<chan, worker, pool>>,
             rx' = "None" \/ rx # "None",
             phase.kind = "Scanning" => UNCHANGED table
      PROVE  CountInv'
  <2>1. (\A i : ToldBy(i)' = ToldBy(i)) /\ Told' = Told
    BY <1>2, ToldSame
  <2>2. PoolIsSerial' /\ FreshChannel' /\ InHand' = InHand /\ Counted' = Counted
    BY <1>2 DEF CountInv, PoolIsSerial, FreshChannel, Holders, Unsent, InHand, Counted, pool
  <2>3. ProgressIsOrdered' /\ VerdictsAreAccounted'
    BY <1>2, <2>1, <2>2 DEF CountInv, ProgressIsOrdered, VerdictsAreAccounted, pool
  <2>4. ScreenMatchesScan' /\ ProgressNotAhead' /\ TableIsFresh'
    BY <1>2 DEF CountInv, ScreenMatchesScan, CappedLen, ProgressNotAhead, TableIsFresh, pool, table
  <2> QED BY <1>1, <1>2, <2>2, <2>3, <2>4 DEF CountInv, pool
<1>3. CASE Frame
  BY <1>2, <1>3 DEF Frame, table
<1>4. CASE Recv
  BY <1>4, CountRecv
<1>5. CASE RecvEmpty
  BY <1>1, <1>2, <1>5 DEF RecvEmpty, screen, PhaseInv, PumpHasReceiver
<1>6. CASE RecvDisconnected
  <2>1. CASE phase.kind \in {"Done", "Failed"}
    BY <1>2, <1>6, <2>1 DEF RecvDisconnected, screen
  <2>2. CASE phase.kind \notin {"Done", "Failed"}
    <3>1. /\ phase'.kind = "Failed" /\ shown' = shown /\ worker = "exited"
          /\ UNCHANGED <<worker, verdict, thread, completed>>
      BY <1>6, <2>2 DEF RecvDisconnected, ReduceError, Failed, Disconnected, pool
    <3> QED BY <1>1, <3>1
            DEF CountInv, PoolIsSerial, Holders, Unsent, FreshChannel, ProgressIsOrdered,
                VerdictsAreAccounted, ScreenMatchesScan, ProgressNotAhead, TableIsFresh
  <2> QED BY <2>1, <2>2
<1>7. CASE EndFrame
  BY <1>2, <1>7 DEF EndFrame, screen
<1>8. CASE EditFilter
  BY <1>2, <1>8 DEF EditFilter, screen
<1>9. CASE Close
  BY <1>2, <1>9 DEF Close, screen
<1>10. CASE Begin
  <2>1. /\ phase' = Scanning(0, 0) /\ shown' = {} /\ stream' = <<>> /\ results' = EmptyResults
        /\ malicious_seen' = 0 /\ errors_seen' = 0 /\ filter' = Entries /\ only_bad' = FALSE
        /\ verdict' = EmptyResults /\ completed' = 0
        /\ thread' = [t \in Threads |-> Resting]
        /\ (worker' = "load" /\ chan' = <<>>) \/ (worker' = "exited" /\ chan' = <<Error>>)
    BY <1>10 DEF Begin, ClearScreen, StartScan
  <2>2. phase'.kind = "Scanning" /\ phase'.done = 0
    BY <2>1 DEF Scanning
  <2>3. Unsent' = {} /\ Holders' = {} /\ InHand' = {} /\ Counted' = {}
    <3>1. \A t \in Threads : thread'[t].pc = "idle"
      BY <2>1 DEF Resting
    <3>2. Unsent' = {} /\ Holders' = {}
      BY <3>1 DEF Unsent, Holders
    <3>3. {u \in Threads : thread'[u].pc = "file"} = {}
      BY <3>1
    <3> QED BY <3>2, <3>3 DEF InHand, Counted
  <2>4. \A i \in 1..Len(chan') : chan'[i].type = "Error"
    BY <2>1 DEF Error
  <2>5. Told' = {}
    <3>1. {k \in 1..((Len(chan') + 1) - 1) : chan'[k].type = "FileScanned"} = {}
      BY <2>1, <2>4
    <3> QED BY <2>1, <3>1 DEF Told, ToldBy
  <2>6. DOMAIN verdict' = {} /\ Cardinality({}) = 0
    BY <2>1, EmptyResultsType, FS_EmptySet
  <2>7. PoolIsSerial' /\ FreshChannel' /\ ProgressIsOrdered'
    BY <2>1, <2>2, <2>3, <2>4 DEF PoolIsSerial, FreshChannel, ProgressIsOrdered
  <2>8. VerdictsAreAccounted'
    BY <2>1, <2>3, <2>4, <2>5, <2>6 DEF VerdictsAreAccounted
  <2>9. ScreenMatchesScan' /\ ProgressNotAhead' /\ TableIsFresh'
    <3>1. \A v : {e \in shown' : verdict'[e] = v} = {}
      BY <2>1
    <3> QED BY <2>1, <2>2, <2>6, <3>1, CapAssumption
            DEF ScreenMatchesScan, CappedLen, ProgressNotAhead, TableIsFresh
  <2> QED BY <1>1, <2>1, <2>7, <2>8, <2>9 DEF CountInv
<1> QED BY <1>3, <1>4, <1>5, <1>6, <1>7, <1>8, <1>9, <1>10 DEF UI

\* A step that changes nothing keeps the invariant.
LEMMA CountStutter == CountInv /\ UNCHANGED vars => CountInv'
<1> SUFFICES ASSUME CountInv, UNCHANGED vars PROVE CountInv'
  OBVIOUS
<1>1. PhaseInv'
  BY PhaseStutter DEF CountInv
<1>2. UNCHANGED <<uiVars, chan, worker, pool>>
  BY DEF vars
<1>3. /\ UNCHANGED <<phase, rx, shown, chan, worker>>
      /\ UNCHANGED <<found, verdict, thread, completed>>
  BY <1>2 DEF uiVars, screen, pool
<1>4. (\A i : ToldBy(i)' = ToldBy(i)) /\ Told' = Told
  BY <1>3, ToldSame
<1>5. PoolIsSerial' /\ FreshChannel' /\ InHand' = InHand /\ Counted' = Counted
  BY <1>3 DEF CountInv, PoolIsSerial, FreshChannel, Holders, Unsent, InHand, Counted
<1>6. ProgressIsOrdered' /\ VerdictsAreAccounted'
  BY <1>3, <1>4, <1>5 DEF CountInv, ProgressIsOrdered, VerdictsAreAccounted
<1> QED BY <1>1, <1>2, <1>3, <1>5, <1>6, ScreenKept DEF CountInv

\* The invariant holds for ever.
THEOREM CountInvariant == Spec => []CountInv
<1>1. CountInv /\ [Next]_vars => CountInv'
  BY CountUI, CountWorker, CountPool, CountStutter DEF Next, Ended
<1> QED BY <1>1, CountInit, PTL DEF Spec

-----------------------------------------------------------------------------
(* What follows from the invariant. *)

\* The counters, the stream and the empty table on the screen are exactly what
\* has been told of the scan that runs.
THEOREM ScreenMatchesScanHolds == Spec => []ScreenMatchesScan
<1>1. CountInv => ScreenMatchesScan
  BY DEF CountInv
<1> QED BY <1>1, CountInvariant, PTL

\* The ring never counts a file that has not been shown.
THEOREM ProgressNotAheadHolds == Spec => []ProgressNotAhead
<1>1. CountInv => ProgressNotAhead
  BY DEF CountInv
<1> QED BY <1>1, CountInvariant, PTL

\* Within a scan the ring never goes back.
THEOREM ProgressMonotoneHolds == Spec => ProgressMonotone
<1>1. CountInv /\ [Next]_vars =>
        [(phase.kind = "Scanning" /\ phase'.kind = "Scanning" /\ scans' = scans)
           => phase'.done >= phase.done]_vars
  <2> SUFFICES ASSUME CountInv, [Next]_vars, phase.kind = "Scanning", phase'.kind = "Scanning",
                      scans' = scans
               PROVE  phase'.done >= phase.done
    OBVIOUS
  <2>1. TypeOK /\ phase.done \in Nat /\ scans \in Nat /\ chan \in Seq(Messages)
    BY DEF CountInv, PhaseInv, TypeInv, TypeOK, Phases, Idle, Failed, Done
  <2>2. CASE phase' = phase
    BY <2>1, <2>2
  <2>3. CASE phase' # phase
    <3>1. ~Begin
      BY <2>1 DEF Begin
    <3>2. CASE Recv
      <4>1. chan # <<>> /\ Reduce(chan[1]) /\ 1 \in 1..Len(chan) /\ chan[1] \in Messages
        BY <2>1, <3>2 DEF Recv
      <4>2. chan[1].type = "Progress" /\ phase'.done = chan[1].done
        BY <2>3, <4>1 DEF Reduce, ReduceFileScanned, ReduceProgress, ReduceFinished, ReduceError,
                          Scanning, Done, Failed
      <4>3. phase.done <= chan[1].done /\ chan[1].done \in Nat
        BY <4>1, <4>2 DEF CountInv, ProgressIsOrdered, Messages
      <4> QED BY <2>1, <4>2, <4>3
    <3>3. CASE RecvDisconnected
      BY <2>3, <3>3 DEF RecvDisconnected, ReduceError, Failed, screen
    <3> QED BY <2>3, <3>1, <3>2, <3>3, PhaseChanges
  <2> QED BY <2>2, <2>3
<1> QED BY <1>1, CountInvariant, PTL DEF Spec, ProgressMonotone

\* Every verdict has been shown by the time a Finished is read.
LEMMA FinishedIsLast ==
    ASSUME CountInv, phase.kind = "Scanning", chan # <<>>, chan[1].type = "Finished",
           rx # "None"
    PROVE  shown = DOMAIN verdict /\ chan[1] = Finished(verdict) /\ DOMAIN verdict = found
             /\ logged = Cardinality(found)
<1>1. chan \in Seq(Messages) /\ 1 \in 1..Len(chan)
  BY DEF CountInv, PhaseInv, TypeInv, TypeOK
<1>2. Len(chan) = 1 /\ worker # "scan"
  BY <1>1 DEF CountInv, PhaseInv, LastWord, Terminal
<1>3. Unsent = {}
  BY <1>2 DEF CountInv, PhaseInv, TypeInv, PoolInScan, AllResting, Resting, Unsent
<1>4. Told = shown
  <2>1. {k \in 1..((Len(chan) + 1) - 1) : chan[k].type = "FileScanned"} = {}
    BY <1>2
  <2> QED BY <2>1 DEF Told, ToldBy
<1>5. InHand = {}
  BY <1>3 DEF InHand
<1> QED BY <1>1, <1>4, <1>5 DEF CountInv, VerdictsAreAccounted, PhaseInv, FinishedIsComplete

\* A finished scan comes up whole: Finished corrects no counter, and the table
\* opens with a row for every file.
THEOREM DoneComesUpWholeHolds == Spec => DoneComesUpWhole
<1>1. CountInv /\ [Next]_vars =>
        [(phase.kind = "Scanning" /\ phase'.kind = "Done") =>
           /\ malicious_seen' = malicious_seen /\ errors_seen' = errors_seen
           /\ visible_results' = found]_vars
  <2> SUFFICES ASSUME CountInv, [Next]_vars, phase.kind = "Scanning", phase'.kind = "Done"
               PROVE  /\ malicious_seen' = malicious_seen /\ errors_seen' = errors_seen
                      /\ visible_results' = found
    OBVIOUS
  <2>1. Recv
    <3>1. phase' # phase
      OBVIOUS
    <3>2. ~Begin
      BY DEF Begin, Scanning
    <3>3. ~(RecvDisconnected /\ phase.kind \notin {"Done", "Failed"})
      BY DEF RecvDisconnected, ReduceError, Failed
    <3> QED BY <3>1, <3>2, <3>3, PhaseChanges
  <2>2. chan # <<>> /\ Reduce(chan[1]) /\ rx # "None" /\ UNCHANGED <<table, found, verdict>>
    BY <2>1 DEF Recv, pool, CountInv, PhaseInv, PumpHasReceiver, TypeInv, TypeOK
  <2>3. chan[1].type = "Finished" /\ ReduceFinished(chan[1])
    BY <2>2 DEF Reduce, ReduceFileScanned, ReduceProgress, ReduceError, Scanning, Failed
  <2>4. shown = DOMAIN verdict /\ chan[1] = Finished(verdict) /\ DOMAIN verdict = found
    BY <2>2, <2>3, FinishedIsLast
  <2>5. /\ malicious_seen' = CountOf(verdict, "Malicious") /\ errors_seen' = CountOf(verdict, "Error")
        /\ results' = verdict
    BY <2>3, <2>4 DEF ReduceFinished, Finished
  <2>6. malicious_seen' = malicious_seen /\ errors_seen' = errors_seen
    BY <2>4, <2>5 DEF CountInv, ScreenMatchesScan, CountOf
  <2>7. filter' = Entries /\ only_bad' = only_bad /\ ~only_bad /\ found \subseteq Entries
    BY <2>2 DEF table, CountInv, TableIsFresh, PhaseInv, TypeInv, TypeOK
  <2> QED BY <2>4, <2>5, <2>6, <2>7 DEF visible_results
<1> QED BY <1>1, CountInvariant, PTL DEF Spec, DoneComesUpWhole

-----------------------------------------------------------------------------
(***************************************************************************)
(* Part 3, the refinement of ScanSession.                                  *)
(***************************************************************************)
\* The session counts as the pipeline does.
LEMMA SameCardinality == \A S : Session!Cardinality(S) = Cardinality(S)
BY DEF Session!Cardinality, Cardinality

\* Before the first scan there is no worker whose disconnection could be read.
IdleIsFresh == phase.kind = "Idle" => worker = "none"

SessionInv == CountInv /\ IdleIsFresh

\* Every step, or none, keeps SessionInv.
LEMMA SessionInvStep == SessionInv /\ [Next]_vars => SessionInv'
<1> SUFFICES ASSUME SessionInv, [Next]_vars PROVE SessionInv'
  OBVIOUS
<1>1. CountInv'
  BY CountUI, CountWorker, CountPool, CountStutter DEF SessionInv, Next, Ended
<1>2. ASSUME phase'.kind = "Idle" PROVE phase' = phase
  <2>1. ~Recv
    BY <1>2 DEF Recv, Reduce, ReduceFileScanned, ReduceProgress, ReduceFinished, ReduceError,
                Scanning, Done, Failed, SessionInv, CountInv, PhaseInv, PumpHasReceiver,
                QuietOffScreen
  <2>2. ~(RecvDisconnected /\ phase.kind \notin {"Done", "Failed"})
    BY <1>2 DEF RecvDisconnected, ReduceError, Failed
  <2>3. ~Begin
    BY <1>2 DEF Begin, Scanning
  <2> QED BY <2>1, <2>2, <2>3, PhaseChanges
<1>3. ASSUME worker = "none" PROVE worker' = "none" \/ Begin
  <2>1. ~Worker
    BY <1>3 DEF Worker, LoadOk, LoadFail, Join, Unwind, PersistOne, PersistFail, PersistDone,
                SendFinished, SendError, Conclude, Exit, Goto
  <2>2. CASE UI
    BY <1>3, <2>2 DEF UI, Frame, Recv, RecvEmpty, RecvDisconnected, EndFrame, EditFilter, Close
  <2>3. CASE \E t \in Threads : Pool(t)
    BY <1>3, <2>3 DEF Pool, ScanEntry, PanicEntry, Lock, SendFile, SendProgress
  <2>4. CASE Ended \/ UNCHANGED vars
    BY <1>3, <2>4 DEF Ended, vars
  <2> QED BY <2>1, <2>2, <2>3, <2>4 DEF Next
<1>4. ASSUME Begin PROVE phase'.kind # "Idle"
  BY <1>4 DEF Begin, Scanning
<1>5. ASSUME phase'.kind = "Idle" PROVE worker' = "none"
  <2>1. worker = "none"
    BY <1>2, <1>5 DEF SessionInv, IdleIsFresh
  <2> QED BY <1>3, <1>4, <1>5, <2>1
<1>6. IdleIsFresh'
  BY <1>5 DEF IdleIsFresh
<1> QED BY <1>1, <1>6 DEF SessionInv

\* The program starts as the session does.
LEMMA SessionInit == Init => SessionInv /\ Session!Init
<1> SUFFICES ASSUME Init PROVE SessionInv /\ Session!Init
  OBVIOUS
<1>1. SessionInv
  BY CountInit DEF Init, SessionInv, IdleIsFresh
<1>2. phase.kind = "Idle" /\ shown = {} /\ ui = "idle" /\ found = {} /\ logged = 0
  BY DEF Init, Idle
<1>3. [e \in shown |-> verdict[e]] = [f \in {} |-> "Clean"]
  BY <1>2
<1> QED BY <1>1, <1>2, <1>3 DEF Session!Init, StatusOf, TotalsOf, Session!NoTotals

\* What the session sees of a step that leaves phase, screen and log alone.
LEMMA SessionStutter ==
    ASSUME UNCHANGED <<phase, shown, found, logged>>, (ui # "closed") <=> (ui' # "closed"),
           \A e \in shown : verdict'[e] = verdict[e]
    PROVE  UNCHANGED Session!sessionVars
<1>1. [e \in shown' |-> verdict'[e]] = [e \in shown |-> verdict[e]]
  OBVIOUS
<1>2. StatusOf' = StatusOf /\ TotalsOf' = TotalsOf
  BY DEF StatusOf, TotalsOf
<1>3. (ui # "closed")' = (ui # "closed")
  OBVIOUS
<1> QED BY <1>1, <1>2, <1>3 DEF Session!sessionVars

\* run_scan: the walk is a Collect, a result in the log is a Log, all else is
\* invisible.
LEMMA SessionWorker ==
    ASSUME SessionInv, Worker
    PROVE  Session!Next \/ UNCHANGED Session!sessionVars
<1>1. UNCHANGED <<ui, phase, shown, verdict>>
  BY DEF Worker, LoadOk, LoadFail, Join, Unwind, PersistOne, PersistFail, PersistDone,
         SendFinished, SendError, Conclude, Exit, Goto, pool, uiVars, screen
<1>2. [e \in shown' |-> verdict'[e]] = [e \in shown |-> verdict[e]]
      /\ StatusOf' = StatusOf /\ TotalsOf' = TotalsOf
  BY <1>1 DEF StatusOf, TotalsOf
<1>3. (ui # "closed")' = (ui # "closed")
  BY <1>1
<1>4. worker \in {"load", "persist"} => StatusOf = "scanning"
  BY DEF SessionInv, CountInv, PhaseInv, QuietOffScreen, Gone, StatusOf
<1>5. CASE LoadOk
  <2>1. found = {} /\ found' \in SUBSET Entries /\ logged' = logged /\ worker = "load"
    BY <1>5 DEF LoadOk, SessionInv, CountInv, PhaseInv, TypeInv, FreshWorker
  <2>2. Session!Collect
    BY <1>2, <1>3, <1>4, <2>1 DEF Session!Collect
  <2> QED BY <2>2 DEF Session!Next
<1>6. CASE PersistOne
  <2>1. /\ worker = "persist" /\ logged < Cardinality(found) /\ logged' = logged + 1
        /\ found' = found
    BY <1>6 DEF PersistOne, pool
  <2>2. Session!Log
    BY <1>2, <1>3, <1>4, <2>1, SameCardinality DEF Session!Log
  <2> QED BY <2>2 DEF Session!Next
<1>7. CASE LoadFail \/ Join \/ Unwind \/ PersistFail \/ PersistDone \/ SendFinished
             \/ SendError \/ Exit
  <2>1. UNCHANGED <<found, logged>>
    BY <1>7 DEF LoadFail, Join, Unwind, PersistFail, PersistDone, SendFinished, SendError,
                Conclude, Exit, Goto, pool
  <2> QED BY <1>1, <2>1, SessionStutter
<1> QED BY <1>5, <1>6, <1>7 DEF Worker

\* The pool is invisible: a verdict is reported when its message is read.
LEMMA SessionPool ==
    ASSUME SessionInv, NEW t \in Threads, Pool(t)
    PROVE  UNCHANGED Session!sessionVars
<1>1. UNCHANGED <<ui, phase, shown, found, logged>>
  BY DEF Pool, ScanEntry, PanicEntry, Lock, SendFile, SendProgress, uiVars, screen
<1>2. \A e \in DOMAIN verdict : verdict'[e] = verdict[e]
  <2>1. CASE ScanEntry(t)
    BY <2>1 DEF ScanEntry, Taken
  <2>2. CASE PanicEntry(t) \/ Lock(t) \/ SendFile(t) \/ SendProgress(t)
    BY <2>2 DEF PanicEntry, Lock, SendFile, SendProgress
  <2> QED BY <2>1, <2>2 DEF Pool
<1> QED BY <1>1, <1>2, SessionStutter DEF SessionInv, CountInv

\* A message read is a Report, a Complete, a Fail or, for a progress, nothing.
LEMMA SessionRecv ==
    ASSUME SessionInv, Recv
    PROVE  Session!Next \/ UNCHANGED Session!sessionVars
<1> DEFINE m == chan[1]
<1>1. /\ chan # <<>> /\ 1 \in 1..Len(chan) /\ m \in Messages /\ Reduce(m)
      /\ phase.kind = "Scanning" /\ rx # "None" /\ ui = "pump" /\ ui' = "pump"
      /\ UNCHANGED <<found, verdict, logged>>
  BY DEF Recv, pool, SessionInv, CountInv, PhaseInv, TypeInv, TypeOK, PumpHasReceiver,
         QuietOffScreen
<1>2. StatusOf = "scanning" /\ (ui # "closed") /\ (ui # "closed")' /\ TotalsOf = Session!NoTotals
  BY <1>1 DEF StatusOf, TotalsOf, Session!NoTotals
<1>3. CASE m.type = "FileScanned" /\ ReduceFileScanned(m)
  <2>1. {k \in 1..(1 - 1) : chan[k].type = "FileScanned"} = {}
    OBVIOUS
  <2>2. m.path \in DOMAIN verdict \ shown /\ shown' = shown \cup {m.path} /\ phase' = phase
    BY <1>1, <1>3, <2>1 DEF SessionInv, CountInv, VerdictsAreAccounted, ToldBy, ReduceFileScanned
  <2>3. m.path \in found /\ verdict[m.path] \in {"Clean", "Malicious", "Error"}
    BY <2>2, ResultsIff DEF SessionInv, CountInv, PhaseInv, TypeInv, TypeOK, Verdicts
  <2>4. [e \in shown' |-> verdict'[e]] =
          [x \in DOMAIN [e \in shown |-> verdict[e]] \cup {m.path} |->
             IF x = m.path THEN verdict[m.path] ELSE [e \in shown |-> verdict[e]][x]]
    BY <1>1, <2>2
  <2>5. StatusOf' = StatusOf /\ TotalsOf' = TotalsOf
    BY <2>2 DEF StatusOf, TotalsOf
  <2>6. Session!Report
    BY <1>1, <1>2, <2>2, <2>3, <2>4, <2>5 DEF Session!Report
  <2> QED BY <2>6 DEF Session!Next
<1>4. CASE m.type = "Progress" /\ ReduceProgress(m)
  <2>1. phase'.kind = "Scanning" /\ shown' = shown
    BY <1>4 DEF ReduceProgress, Scanning
  <2>2. StatusOf' = StatusOf /\ TotalsOf' = TotalsOf
    BY <1>1, <2>1 DEF StatusOf, TotalsOf
  <2>3. [e \in shown' |-> verdict'[e]] = [e \in shown |-> verdict[e]]
    BY <1>1, <2>1
  <2> QED BY <1>1, <1>2, <2>2, <2>3 DEF Session!sessionVars
<1>5. CASE m.type = "Finished" /\ ReduceFinished(m)
  <2>1. shown = DOMAIN verdict /\ m = Finished(verdict) /\ DOMAIN verdict = found
        /\ logged = Cardinality(found)
    BY <1>1, <1>5, FinishedIsLast DEF SessionInv
  <2>2. /\ phase' = Done(Cardinality(found), CountOf(verdict, "Malicious"), CountOf(verdict, "Error"))
        /\ shown' = shown
    BY <1>5, <2>1 DEF ReduceFinished, Finished
  <2>3. StatusOf' = "done" /\ TotalsOf' = [scanned |-> Cardinality(found),
          malicious |-> CountOf(verdict, "Malicious"), errors |-> CountOf(verdict, "Error")]
    BY <2>2 DEF StatusOf, TotalsOf, Done
  <2>4. verdict \in Results
    BY DEF SessionInv, CountInv, PhaseInv, TypeInv, TypeOK
  <2> DEFINE r == [e \in shown |-> verdict[e]]
  <2>5. r = verdict
    BY <2>1, <2>4, ResultsIff
  <2>6. [e \in shown' |-> verdict'[e]] = r
    BY <1>1, <2>2
  <2> HIDE DEF r
  <2>7. Session!Totals(verdict) = [scanned |-> Cardinality(found),
          malicious |-> CountOf(verdict, "Malicious"), errors |-> CountOf(verdict, "Error")]
    BY <2>1, SameCardinality DEF Session!Totals, CountOf
  <2>8. TotalsOf' = Session!Totals(r) /\ DOMAIN r = found
    BY <2>1, <2>3, <2>5, <2>7
  <2>9. /\ UNCHANGED <<found, logged>> /\ (ui # "closed")' = (ui # "closed")
        /\ [e \in shown' |-> verdict'[e]] = [e \in shown |-> verdict[e]]
    BY <1>1, <2>6 DEF r
  <2>10. DOMAIN [e \in shown |-> verdict[e]] = found /\ TotalsOf' = Session!Totals([e \in shown |-> verdict[e]])
    BY <2>8 DEF r
  <2>11. Session!Complete
    BY <1>2, <2>1, <2>3, <2>9, <2>10, SameCardinality DEF Session!Complete
  <2> QED BY <2>11 DEF Session!Next
<1>6. CASE m.type = "Error" /\ ReduceError
  <2>1. phase'.kind = "Failed" /\ shown' = shown
    BY <1>6 DEF ReduceError, Failed
  <2>2. StatusOf' = "failed" /\ TotalsOf' = TotalsOf
    BY <1>1, <2>1 DEF StatusOf, TotalsOf
  <2>3. [e \in shown' |-> verdict'[e]] = [e \in shown |-> verdict[e]]
    BY <1>1, <2>1
  <2>4. Session!Fail
    BY <1>1, <1>2, <2>2, <2>3 DEF Session!Fail
  <2> QED BY <2>4 DEF Session!Next
<1> QED BY <1>1, <1>3, <1>4, <1>5, <1>6 DEF Reduce

\* The other steps of the UI thread: Start, Fail, Close, or nothing.
LEMMA SessionUI ==
    ASSUME SessionInv, UI
    PROVE  Session!Next \/ UNCHANGED Session!sessionVars
<1>1. CASE Frame \/ RecvEmpty \/ EndFrame \/ EditFilter
  <2>1. UNCHANGED <<phase, shown, found, verdict, logged>> /\ ui # "closed" /\ ui' # "closed"
    BY <1>1 DEF Frame, RecvEmpty, EndFrame, EditFilter, screen, pool
  <2> QED BY <2>1, SessionStutter
<1>2. CASE Recv
  BY <1>2, SessionRecv
<1>3. CASE RecvDisconnected
  <2>1. UNCHANGED <<shown, found, verdict, logged>> /\ ui # "closed" /\ ui' # "closed"
    BY <1>3 DEF RecvDisconnected, ReduceError, pool
  <2>2. CASE phase.kind \in {"Done", "Failed"}
    BY <1>3, <2>1, <2>2, SessionStutter DEF RecvDisconnected, screen
  <2>3. CASE phase.kind \notin {"Done", "Failed"}
    <3>1. phase.kind # "Idle"
      BY <1>3 DEF RecvDisconnected, Disconnected, SessionInv, IdleIsFresh
    <3>2. phase.kind = "Scanning" /\ phase'.kind = "Failed"
      BY <1>3, <2>3, <3>1 DEF RecvDisconnected, ReduceError, Failed, SessionInv, CountInv,
                              PhaseInv, TypeInv, TypeOK, Phases, Idle, Scanning, Done
    <3>3. StatusOf = "scanning" /\ StatusOf' = "failed" /\ TotalsOf' = TotalsOf
      BY <3>2 DEF StatusOf, TotalsOf
    <3>4. [e \in shown' |-> verdict'[e]] = [e \in shown |-> verdict[e]]
      BY <2>1
    <3>5. Session!Fail
      BY <2>1, <3>3, <3>4 DEF Session!Fail
    <3> QED BY <3>5 DEF Session!Next
  <2> QED BY <2>2, <2>3
<1>4. CASE Begin
  <2>1. /\ ui = "draw" /\ ui' = "idle" /\ phase' = Scanning(0, 0) /\ phase.kind # "Scanning"
        /\ shown' = {} /\ found' = {} /\ logged' = 0
    BY <1>4 DEF Begin, ButtonsEnabled
  <2>2. StatusOf # "scanning" /\ StatusOf' = "scanning" /\ TotalsOf' = Session!NoTotals
    <3>1. phase'.kind = "Scanning"
      BY <2>1 DEF Scanning
    <3>2. phase.kind \in {"Idle", "Done", "Failed"}
      BY <2>1 DEF SessionInv, CountInv, PhaseInv, TypeInv, TypeOK, Phases, Idle, Failed
    <3> QED BY <3>1, <3>2 DEF StatusOf, TotalsOf, Session!NoTotals
  <2>3. [e \in shown' |-> verdict'[e]] = [f \in {} |-> "Clean"]
    BY <2>1
  <2>4. Session!Start
    BY <2>1, <2>2, <2>3 DEF Session!Start
  <2> QED BY <2>4 DEF Session!Next
<1>5. CASE Close
  <2>1. UNCHANGED <<phase, shown, found, verdict, logged>> /\ ui # "closed" /\ ui' = "closed"
    BY <1>5 DEF Close, screen, pool
  <2>2. StatusOf' = StatusOf /\ TotalsOf' = TotalsOf
        /\ [e \in shown' |-> verdict'[e]] = [e \in shown |-> verdict[e]]
    BY <2>1 DEF StatusOf, TotalsOf
  <2>3. Session!Close
    BY <2>1, <2>2 DEF Session!Close
  <2> QED BY <2>3 DEF Session!Next
<1> QED BY <1>1, <1>2, <1>3, <1>4, <1>5 DEF UI

\* The pipeline implements the safety part of the session: each file is reported
\* once with its verdict, Done comes only with everything reported and logged and
\* with the totals of what was reported, and an end is final.
THEOREM SessionSafety == Spec => Session!Safety
<1>1. Init => SessionInv /\ Session!Init
  BY SessionInit
<1>2. SessionInv /\ [Next]_vars => SessionInv'
  BY SessionInvStep
<1>3. SessionInv /\ [Next]_vars => [Session!Next]_Session!sessionVars
  <2> SUFFICES ASSUME SessionInv, [Next]_vars
               PROVE  Session!Next \/ UNCHANGED Session!sessionVars
    OBVIOUS
  <2>1. CASE Ended \/ UNCHANGED vars
    <3>1. UNCHANGED <<ui, phase, shown, found, verdict, logged>>
      BY <2>1 DEF Ended, vars, uiVars, screen, pool
    <3> QED BY <3>1, SessionStutter
  <2> QED BY <2>1, SessionUI, SessionWorker, SessionPool DEF Next
<1> QED BY <1>1, <1>2, <1>3, PTL DEF Spec, Session!Safety
=============================================================================
