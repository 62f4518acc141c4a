------------------------- MODULE SignatureStoreProofs -------------------------
(***************************************************************************)
(* Proofs about SignatureStore: the bundle is whole, and the files and the *)
(* processes implement the register of AtomicBundle, for any number of     *)
(* processes, process ids, versions, calls and mishaps.                    *)
(***************************************************************************)
EXTENDS SignatureStore, FiniteSetTheorems, TLAPS

-----------------------------------------------------------------------------
(* The inductive invariant. *)

Compiled == [hashes : Versions, rules : Versions]
Holding  == {"write", "sync", "rename", "refused", "discard"}

\* What is true of a process r, given the temporary files: it holds one under its
\* own id with what it has read, whole before it is synced and synced before it
\* is renamed; only compiled signatures come that far; and only a call that found
\* no bundle, or one of the tool, gets to replace it.
Sound(r, files) ==
    /\ r.pc = "dead" => r = NoProcess
    /\ r.pc # "dead" => r.pid \in Pids
    /\ r.pc \notin Holding => r.temp = NoName
    /\ r.pc \in Holding => /\ r.temp \in DOMAIN files /\ r.temp[1] = r.pid
                           /\ files[r.temp].data = r.mem
    /\ r.pc \in {"sync", "rename"} => files[r.temp].whole
    /\ r.pc = "rename" => files[r.temp].synced
    /\ r.pc \in {"rules", "create"} \cup Holding => r.mem.hashes \in Versions
    /\ r.pc \in {"create"} \cup Holding => r.mem.rules \in Versions
    /\ r.pc # "idle" => r.outcome = "none"
    /\ r.pc \notin {"dead", "idle", "load"} => r.tool = "seal" \/ ~r.found

\* Two processes that live have different ids.
OwnIds == \A p, q \in Procs : p # q /\ proc[p].pc # "dead" => proc[p].pid # proc[q].pid

\* What is published was synced, and compiled; only damage makes it less than whole.
BundleIsGood ==
    bundle # NoFile => /\ bundle.synced /\ bundle.data \in Compiled
                       /\ count.damages = 0 => bundle.whole

FileTypes ==
    /\ bundle \in Sealed \cup {NoFile}
    /\ DOMAIN temps \subseteq Pids \X Int
    /\ \A n \in DOMAIN temps : temps[n] \in Sealed
    /\ plain \in Signatures

CountTypes ==
    count \in [calls : Nat, crashes : Nat, edits : Nat, damages : Nat, leaks : Nat]

StoreInv ==
    /\ FileTypes
    /\ CountTypes
    /\ proc \in [Procs -> ProcessType]
    /\ \A p \in Procs : Sound(proc[p], temps)
    /\ OwnIds
    /\ BundleIsGood

-----------------------------------------------------------------------------
(* Lemmas. *)

\* A step of one process under one id leaves the others sound, if it leaves the
\* temporary files of other ids alone.
LEMMA OneProcess ==
    ASSUME StoreInv, NEW p \in Procs, NEW r \in ProcessType,
           proc' = [proc EXCEPT ![p] = r],
           r.pid = proc[p].pid \/ r.pid = 0,
           proc[p].pc = "dead" => r.pc = "dead",
           Sound(r, temps'),
           \A n \in DOMAIN temps : n[1] # proc[p].pid => n \in DOMAIN temps' /\ temps'[n] = temps[n]
    PROVE  /\ proc' \in [Procs -> ProcessType]
           /\ \A q \in Procs : Sound(proc'[q], temps')
           /\ OwnIds'
<1>1. proc \in [Procs -> ProcessType] /\ \A q \in Procs : proc'[q] = IF q = p THEN r ELSE proc[q]
  BY DEF StoreInv
<1>2. ASSUME NEW q \in Procs, q # p PROVE Sound(proc[q], temps')
  <2>1. Sound(proc[q], temps)
    BY DEF StoreInv
  <2>2. ASSUME proc[q].pc \in Holding
        PROVE  proc[q].temp \in DOMAIN temps' /\ temps'[proc[q].temp] = temps[proc[q].temp]
    <3>1. proc[q].temp \in DOMAIN temps /\ proc[q].temp[1] = proc[q].pid /\ proc[q].pc # "dead"
      BY <2>1, <2>2 DEF Sound, Holding
    <3>2. proc[q].pid # proc[p].pid
      BY <1>2, <3>1 DEF StoreInv, OwnIds
    <3> QED BY <3>1, <3>2
  <2> QED BY <2>1, <2>2 DEF Sound, Holding
<1>3. OwnIds'
  <2> SUFFICES ASSUME NEW a \in Procs, NEW b \in Procs, a # b, proc'[a].pc # "dead"
               PROVE  proc'[a].pid # proc'[b].pid
    BY DEF OwnIds
  <2>1. proc[a].pc # "dead"
    BY <1>1
  <2>2. proc[a].pid \in Pids /\ proc[a].pid # proc[b].pid /\ proc[a].pid # 0
    BY <2>1, NamesAssumption DEF StoreInv, OwnIds, Sound
  <2>3. a = p => r.pid \in Pids /\ r.pid = proc[a].pid
    BY <1>1, NamesAssumption DEF Sound
  <2> QED BY <1>1, <2>2, <2>3
<1> QED BY <1>1, <1>2, <1>3

\* The same for a step that leaves the temporary files, the bundle and the
\* plaintext alone.
LEMMA MemoryStep ==
    ASSUME StoreInv, NEW p \in Procs, NEW r \in ProcessType,
           proc' = [proc EXCEPT ![p] = r],
           r.pid = proc[p].pid, proc[p].pc # "dead", Sound(r, temps),
           UNCHANGED <<disk, plain>>, CountTypes', count'.damages = count.damages
    PROVE  StoreInv'
<1>1. temps' = temps /\ bundle' = bundle /\ plain' = plain
  BY DEF disk
<1>2. /\ proc' \in [Procs -> ProcessType]
      /\ \A q \in Procs : Sound(proc'[q], temps')
      /\ OwnIds'
  BY <1>1, OneProcess
<1>3. FileTypes'
  BY <1>1 DEF StoreInv, FileTypes
<1>4. BundleIsGood'
  BY <1>1 DEF StoreInv, BundleIsGood
<1> QED BY <1>2, <1>3, <1>4 DEF StoreInv

\* StoreInv holds before the first process.
LEMMA InitStore == Init => StoreInv
<1> SUFFICES ASSUME Init PROVE StoreInv
  OBVIOUS
<1>1. NoProcess \in ProcessType
  BY DEF NoProcess, ProcessType, Steps, Unreadable, Signatures, Plain, NoName
<1>2. FileTypes
  BY DEF Init, FileTypes, Signatures
<1>3. CountTypes
  BY DEF Init, CountTypes
<1>4. \A p \in Procs : Sound(proc[p], temps)
  BY DEF Init, Sound, NoProcess, Holding
<1> QED BY <1>1, <1>2, <1>3, <1>4 DEF Init, StoreInv, OwnIds, BundleIsGood, NoProcess

-----------------------------------------------------------------------------
(* The steps of one process. *)

\* The start of a process keeps StoreInv.
LEMMA StartKeeps ==
    ASSUME StoreInv, NEW p \in Procs, Start(p)
    PROVE  StoreInv'
<1>1. PICK n \in Pids \ {proc[q].pid : q \in Procs}, t \in {"store", "seal"} :
        proc' = [proc EXCEPT ![p] = [NoProcess EXCEPT !.pc = "idle", !.pid = n, !.tool = t]]
  BY DEF Start
<1> DEFINE r == [NoProcess EXCEPT !.pc = "idle", !.pid = n, !.tool = t]
<1>2. temps' = temps /\ bundle' = bundle /\ plain' = plain /\ count' = count
  BY DEF Start, disk
<1>3. r \in ProcessType /\ r.pid = n /\ r.pc = "idle" /\ Sound(r, temps)
  BY DEF NoProcess, ProcessType, Steps, Unreadable, Signatures, Plain, NoName, Sound, Holding
<1>4. \A q \in Procs : proc'[q] = IF q = p THEN r ELSE proc[q]
  BY <1>1 DEF StoreInv
<1>5. OwnIds'
  <2>1. \A q \in Procs : proc[q].pid # r.pid
    BY <1>3
  <2> HIDE DEF r
  <2>2. \A a, b \in Procs : a # b /\ proc'[a].pc # "dead" => proc'[a].pid # proc'[b].pid
    BY <2>1, <1>4 DEF StoreInv, OwnIds
  <2> QED BY <2>2 DEF OwnIds
<1>6. proc' \in [Procs -> ProcessType]
  BY <1>1, <1>3 DEF StoreInv
<1>7. \A q \in Procs : Sound(proc'[q], temps')
  BY <1>2, <1>3, <1>4 DEF StoreInv
<1>8. FileTypes' /\ CountTypes' /\ BundleIsGood'
  BY <1>2 DEF StoreInv, FileTypes, CountTypes, BundleIsGood
<1> QED BY <1>5, <1>6, <1>7, <1>8 DEF StoreInv

\* A call keeps StoreInv.
LEMMA CallKeeps ==
    ASSUME StoreInv, NEW p \in Procs, Call(p)
    PROVE  StoreInv'
<1> DEFINE r == [proc[p] EXCEPT !.pc = IF proc[p].tool = "store" /\ bundle # NoFile
                                       THEN "load" ELSE "hashes",
                                !.outcome = "none", !.mem = Unreadable, !.found = bundle # NoFile]
<1>1. proc' = [proc EXCEPT ![p] = r] /\ proc[p].pc = "idle" /\ UNCHANGED <<disk, plain>>
  BY DEF Call, At
<1>2. CountTypes' /\ count'.damages = count.damages
  BY DEF StoreInv, CountTypes, Call
<1>3. proc[p] \in ProcessType /\ Sound(proc[p], temps)
  BY DEF StoreInv
<1>4. r \in ProcessType
  <2> DEFINE step == IF proc[p].tool = "store" /\ bundle # NoFile THEN "load" ELSE "hashes"
             found == bundle # NoFile
  <2>1. step \in Steps /\ found \in BOOLEAN /\ Unreadable \in Signatures /\ "none" \in {"none", "Ok", "Err"}
    BY DEF Steps, Unreadable, Signatures, Plain
  <2>2. r = [proc[p] EXCEPT !.pc = step, !.outcome = "none", !.mem = Unreadable, !.found = found]
    OBVIOUS
  <2> HIDE DEF r, step, found
  <2> QED BY <1>3, <2>1, <2>2 DEF ProcessType
<1>5. Sound(r, temps) /\ r.pid = proc[p].pid
  BY <1>1, <1>3 DEF Sound, Holding, ProcessType
<1> HIDE DEF r
<1> QED BY <1>1, <1>2, <1>4, <1>5, MemoryStep

\* A call that returns and leaves the files alone.
LEMMA ReturnKeeps ==
    ASSUME StoreInv, NEW p \in Procs, NEW result \in {"Ok", "Err"}, NEW data \in Signatures,
           Return(p, result, data), proc[p].pc # "dead", UNCHANGED <<disk, plain>>,
           CountTypes', count'.damages = count.damages
    PROVE  StoreInv'
<1> DEFINE r == [proc[p] EXCEPT !.pc = "idle", !.outcome = result, !.found = FALSE,
                                !.mem = data, !.temp = NoName]
<1>1. proc' = [proc EXCEPT ![p] = r]
  BY DEF Return
<1>2. proc[p] \in ProcessType /\ Sound(proc[p], temps)
  BY DEF StoreInv
<1>3. r \in ProcessType /\ r.pid = proc[p].pid /\ Sound(r, temps)
  BY <1>2 DEF ProcessType, Steps, Sound, Holding
<1> HIDE DEF r
<1> QED BY <1>1, <1>3, MemoryStep

\* Reading the bundle or one of the sources keeps StoreInv.
LEMMA ReadKeeps ==
    ASSUME StoreInv, NEW p \in Procs, LoadSealed(p) \/ ReadHashes(p) \/ ReadRules(p)
    PROVE  StoreInv'
<1>1. /\ UNCHANGED <<disk, plain>> /\ CountTypes' /\ count'.damages = count.damages
      /\ proc[p].pc # "dead"
  BY DEF LoadSealed, ReadHashes, ReadRules, StoreInv, CountTypes, At
<1>2. Unreadable \in Signatures
  BY DEF Unreadable, Signatures, Plain
<1>3. CASE ReturnErr(p)
  BY <1>1, <1>2, <1>3, ReturnKeeps DEF ReturnErr
<1>4. CASE bundle # NoFile /\ Return(p, "Ok", bundle.data)
  <2>1. bundle.data \in Signatures
    BY <1>4 DEF StoreInv, FileTypes, Sealed
  <2> QED BY <1>1, <1>4, <2>1, ReturnKeeps
<1>5. proc[p] \in ProcessType /\ Sound(proc[p], temps) /\ plain \in Signatures
  BY DEF StoreInv, FileTypes
<1>6. CASE ReadHashes(p) /\ ~ReturnErr(p)
  <2> DEFINE r == [proc[p] EXCEPT !.mem.hashes = plain.hashes, !.pc = "rules"]
  <2>1. proc' = [proc EXCEPT ![p] = r] /\ proc[p].pc = "hashes" /\ plain.hashes # "bad"
    BY <1>6 DEF ReadHashes, At, StoreInv
  <2>2. r \in ProcessType /\ r.pid = proc[p].pid
    BY <1>5 DEF ProcessType, Steps, Signatures
  <2>3. Sound(r, temps)
    BY <1>5, <2>1 DEF ProcessType, Signatures, Plain, Sound, Holding
  <2> HIDE DEF r
  <2> QED BY <1>1, <2>1, <2>2, <2>3, MemoryStep
<1>7. CASE ReadRules(p) /\ ~ReturnErr(p)
  <2> DEFINE r == [proc[p] EXCEPT !.mem.rules = plain.rules, !.pc = "create"]
  <2>1. proc' = [proc EXCEPT ![p] = r] /\ proc[p].pc = "rules" /\ plain.rules # "bad"
    BY <1>7 DEF ReadRules, At, StoreInv
  <2>2. r \in ProcessType /\ r.pid = proc[p].pid
    BY <1>5 DEF ProcessType, Steps, Signatures
  <2>3. Sound(r, temps)
    BY <1>5, <2>1 DEF ProcessType, Signatures, Plain, Sound, Holding
  <2> HIDE DEF r
  <2> QED BY <1>1, <2>1, <2>2, <2>3, MemoryStep
<1> QED BY <1>3, <1>4, <1>6, <1>7 DEF LoadSealed

\* Removing one's own temporary file, or not, leaves those of other ids.
LEMMA RemoveOwn ==
    ASSUME StoreInv, NEW p \in Procs, proc[p].pc \in Holding,
           temps' = Restrict(temps, DOMAIN temps \ {proc[p].temp}) \/ temps' = temps,
           bundle' = bundle \/ bundle' \in Sealed, plain' = plain
    PROVE  /\ FileTypes'
           /\ \A n \in DOMAIN temps :
                 n[1] # proc[p].pid => n \in DOMAIN temps' /\ temps'[n] = temps[n]
<1>1. proc[p].temp[1] = proc[p].pid
  BY DEF StoreInv, Sound
<1>2. CASE temps' = temps
  BY <1>2 DEF StoreInv, FileTypes
<1>3. CASE temps' = Restrict(temps, DOMAIN temps \ {proc[p].temp})
  <2>1. temps' = [n \in DOMAIN temps \ {proc[p].temp} |-> temps[n]]
    BY <1>3 DEF Restrict
  <2>2. /\ DOMAIN temps' = DOMAIN temps \ {proc[p].temp}
        /\ \A n \in DOMAIN temps' : temps'[n] = temps[n]
    BY <2>1
  <2> QED BY <1>1, <2>2 DEF StoreInv, FileTypes
<1> QED BY <1>2, <1>3

\* Creating a temporary file keeps StoreInv.
LEMMA CreateKeeps ==
    ASSUME StoreInv, NEW p \in Procs, CreateTemp(p)
    PROVE  StoreInv'
<1>1. proc[p].pc = "create" /\ UNCHANGED <<bundle, plain, count>>
  BY DEF CreateTemp, At
<1>2. proc[p] \in ProcessType /\ Sound(proc[p], temps)
  BY DEF StoreInv
<1>3. CountTypes' /\ count'.damages = count.damages
  BY <1>1 DEF StoreInv, CountTypes
<1>4. NextCounter(p) \in Nat
  BY <1>2 DEF NextCounter, ProcessType
<1>5. TempName(p) \in Pids \X Int /\ TempName(p)[1] = proc[p].pid
  BY <1>1, <1>2 DEF TempName, ProcessType, Sound
<1>6. CASE temps' = temps /\ ReturnErr(p)
  <2>1. Unreadable \in Signatures
    BY DEF Unreadable, Signatures, Plain
  <2> QED BY <1>1, <1>3, <1>6, <2>1, ReturnKeeps DEF ReturnErr, disk
<1>7. CASE temps' = temps /\ proc' = [proc EXCEPT ![p].counter = NextCounter(p)]
  <2> DEFINE r == [proc[p] EXCEPT !.counter = NextCounter(p)]
  <2>1. proc' = [proc EXCEPT ![p] = r]
    BY <1>7 DEF StoreInv
  <2>2. r \in ProcessType /\ r.pid = proc[p].pid /\ Sound(r, temps)
    BY <1>1, <1>2, <1>4 DEF ProcessType, Sound, Holding
  <2> HIDE DEF r
  <2> QED BY <1>1, <1>3, <1>7, <2>1, <2>2, MemoryStep DEF disk
<1>8. CASE /\ TempName(p) \notin DOMAIN temps
           /\ temps' = [n \in DOMAIN temps \cup {TempName(p)} |->
                          IF n = TempName(p)
                          THEN [data |-> proc[p].mem, whole |-> FALSE, synced |-> FALSE]
                          ELSE temps[n]]
           /\ proc' = [proc EXCEPT ![p] = [@ EXCEPT !.pc = "write", !.temp = TempName(p),
                                                    !.counter = NextCounter(p)]]
  <2> DEFINE name == TempName(p)
             file == [data |-> proc[p].mem, whole |-> FALSE, synced |-> FALSE]
             r == [proc[p] EXCEPT !.pc = "write", !.temp = name, !.counter = NextCounter(p)]
  <2>1. /\ DOMAIN temps' = DOMAIN temps \cup {name} /\ temps'[name] = file
        /\ \A n \in DOMAIN temps : temps'[n] = temps[n]
    <3>1. temps' = [n \in DOMAIN temps \cup {name} |-> IF n = name THEN file ELSE temps[n]]
      BY <1>8
    <3> HIDE DEF name, file
    <3> QED BY <1>8, <3>1 DEF name
  <2>2. file \in Sealed /\ file.data = proc[p].mem
    BY <1>2 DEF Sealed, ProcessType
  <2>3. FileTypes'
    BY <1>1, <1>5, <2>1, <2>2 DEF StoreInv, FileTypes
  <2>4. r \in ProcessType /\ r.pid = proc[p].pid /\ proc' = [proc EXCEPT ![p] = r]
    BY <1>2, <1>4, <1>5, <1>8 DEF ProcessType, Steps, StoreInv
  <2>5. Sound(r, temps')
    <3>1. r.temp = name /\ r.pc = "write" /\ r.mem = proc[p].mem /\ r.outcome = proc[p].outcome
          /\ r.tool = proc[p].tool /\ r.found = proc[p].found
      BY <1>2 DEF ProcessType
    <3> HIDE DEF r, file, name
    <3> QED BY <1>1, <1>2, <1>5, <2>1, <2>2, <2>4, <3>1 DEF Sound, Holding, name
  <2>6. BundleIsGood'
    BY <1>1 DEF StoreInv, BundleIsGood
  <2>7. /\ proc' \in [Procs -> ProcessType]
        /\ \A q \in Procs : Sound(proc'[q], temps')
        /\ OwnIds'
    <3> HIDE DEF r, file, name
    <3> QED BY <1>1, <2>1, <2>4, <2>5, OneProcess
  <2> QED BY <1>3, <2>3, <2>6, <2>7 DEF StoreInv
<1> QED BY <1>6, <1>7, <1>8 DEF CreateTemp

\* The file is written and synced: one flag of it is set.
LEMMA FillKeeps ==
    ASSUME StoreInv, NEW p \in Procs, WriteTemp(p) \/ SyncTemp(p)
    PROVE  StoreInv'
<1> DEFINE t == proc[p].temp
           file == IF WriteTemp(p) THEN [temps[t] EXCEPT !.whole = TRUE]
                                   ELSE [temps[t] EXCEPT !.synced = TRUE]
           r == [proc[p] EXCEPT !.pc = IF WriteTemp(p) THEN "sync" ELSE "rename"]
<1>1. /\ proc[p].pc = IF WriteTemp(p) THEN "write" ELSE "sync"
      /\ UNCHANGED <<bundle, plain, count>>
  BY DEF WriteTemp, SyncTemp, At
<1>2. proc[p] \in ProcessType /\ Sound(proc[p], temps)
  BY DEF StoreInv
<1>3. t \in DOMAIN temps /\ temps[t] \in Sealed /\ t[1] = proc[p].pid
      /\ temps[t].data = proc[p].mem
  BY <1>1, <1>2 DEF StoreInv, FileTypes, Sound, Holding
<1>4. temps' = [temps EXCEPT ![t] = file]
  BY <1>3 DEF WriteTemp, SyncTemp, Sealed
<1>5. file \in Sealed /\ file.data = proc[p].mem /\ file.whole
  BY <1>1, <1>2, <1>3 DEF Sealed, Sound
<1>6. ~WriteTemp(p) => file.synced
  BY <1>3 DEF Sealed
<1>7. /\ DOMAIN temps' = DOMAIN temps /\ temps'[t] = file
      /\ \A n \in DOMAIN temps : n # t => temps'[n] = temps[n]
  <2> HIDE DEF t, file
  <2> QED BY <1>3, <1>4
<1>8. proc' = [proc EXCEPT ![p] = r] /\ r \in ProcessType /\ r.pid = proc[p].pid
  BY <1>2 DEF WriteTemp, SyncTemp, Goto, StoreInv, ProcessType, Steps
<1>9. Sound(r, temps')
  <2>1. /\ r.temp = t /\ r.mem = proc[p].mem /\ r.outcome = proc[p].outcome
        /\ r.tool = proc[p].tool /\ r.found = proc[p].found
        /\ r.pc \in {"sync", "rename"}
        /\ r.pc = "rename" => file.synced
    BY <1>2, <1>6 DEF ProcessType
  <2> HIDE DEF r, file, t
  <2> QED BY <1>1, <1>2, <1>3, <1>5, <1>7, <1>8, <2>1 DEF Sound, Holding
<1>10. FileTypes' /\ CountTypes' /\ BundleIsGood'
  <2> HIDE DEF file, t
  <2> QED BY <1>1, <1>5, <1>7 DEF StoreInv, FileTypes, CountTypes, BundleIsGood
<1>11. /\ proc' \in [Procs -> ProcessType]
       /\ \A q \in Procs : Sound(proc'[q], temps')
       /\ OwnIds'
  <2> HIDE DEF r, file, t
  <2> QED BY <1>1, <1>3, <1>7, <1>8, <1>9, OneProcess
<1> QED BY <1>10, <1>11 DEF StoreInv

\* A failed step keeps StoreInv.
LEMMA GiveUpKeeps ==
    ASSUME StoreInv, NEW p \in Procs, Fail(p) \/ RenameFails(p)
    PROVE  StoreInv'
<1> DEFINE r == [proc[p] EXCEPT !.pc = IF Fail(p) THEN "discard" ELSE "refused"]
<1>1. proc[p].pc \in {"write", "sync", "rename"} /\ UNCHANGED <<disk, plain, count>>
  BY DEF Fail, RenameFails, At
<1>2. proc[p] \in ProcessType /\ Sound(proc[p], temps)
  BY DEF StoreInv
<1>3. CountTypes' /\ count'.damages = count.damages
  BY <1>1 DEF StoreInv, CountTypes
<1>4. proc' = [proc EXCEPT ![p] = r] /\ r \in ProcessType /\ r.pid = proc[p].pid
  BY <1>2 DEF Fail, RenameFails, Goto, StoreInv, ProcessType, Steps
<1>5. Sound(r, temps)
  BY <1>1, <1>2 DEF Sound, Holding, ProcessType
<1> HIDE DEF r
<1> QED BY <1>1, <1>3, <1>4, <1>5, MemoryStep

\* A process gets rid of its temporary file.
LEMMA LetGo ==
    ASSUME StoreInv, NEW p \in Procs, NEW r \in ProcessType, proc' = [proc EXCEPT ![p] = r],
           proc[p].pc \in Holding, r.pid = proc[p].pid,
           r.pc \in {"idle", "load"}, r.temp = NoName, r.pc = "load" => r.outcome = "none",
           temps' = Restrict(temps, DOMAIN temps \ {proc[p].temp}) \/ temps' = temps,
           bundle' = bundle \/ bundle' \in Sealed, plain' = plain,
           CountTypes', BundleIsGood'
    PROVE  StoreInv'
<1>1. /\ FileTypes'
      /\ \A n \in DOMAIN temps : n[1] # proc[p].pid => n \in DOMAIN temps' /\ temps'[n] = temps[n]
  BY RemoveOwn
<1>2. proc[p].pc # "dead" /\ r.pid \in Pids
  BY DEF StoreInv, Sound, Holding
<1>3. Sound(r, temps')
  BY <1>2 DEF Sound, Holding
<1>4. /\ proc' \in [Procs -> ProcessType]
      /\ \A q \in Procs : Sound(proc'[q], temps')
      /\ OwnIds'
  BY <1>1, <1>2, <1>3, OneProcess
<1> QED BY <1>1, <1>4 DEF StoreInv

\* What is renamed into place was synced, and compiled.
LEMMA PublishKeeps ==
    ASSUME StoreInv, NEW p \in Procs, Publish(p)
    PROVE  /\ StoreInv'
           /\ bundle'.whole /\ bundle'.data = proc[p].mem /\ bundle'.data \in Compiled
           /\ bundle' # NoFile
<1> DEFINE r == [proc[p] EXCEPT !.pc = "idle", !.outcome = "Ok", !.found = FALSE,
                                !.mem = proc[p].mem, !.temp = NoName]
<1>1. /\ proc[p].pc = "rename" /\ UNCHANGED <<plain, count>>
      /\ proc' = [proc EXCEPT ![p] = r] /\ bundle' = temps[proc[p].temp]
      /\ temps' = Restrict(temps, DOMAIN temps \ {proc[p].temp})
  BY DEF Publish, At, Return
<1>2. proc[p] \in ProcessType /\ Sound(proc[p], temps)
  BY DEF StoreInv
<1>3. /\ proc[p].temp \in DOMAIN temps /\ bundle' \in Sealed
      /\ bundle'.whole /\ bundle'.synced /\ bundle'.data = proc[p].mem
  BY <1>1, <1>2 DEF Sound, Holding, StoreInv, FileTypes
<1>4. bundle'.data \in Compiled
  BY <1>1, <1>2, <1>3 DEF Sound, Holding, Compiled, ProcessType, Signatures
<1>5. BundleIsGood' /\ CountTypes'
  BY <1>1, <1>3, <1>4 DEF BundleIsGood, Compiled, StoreInv, CountTypes
<1>6. bundle' # NoFile
  BY <1>3, NoFileAssumption
<1>7. r \in ProcessType /\ r.pid = proc[p].pid /\ r.pc = "idle" /\ r.temp = NoName
  BY <1>2 DEF ProcessType, Steps
<1>8. StoreInv'
  <2> HIDE DEF r
  <2> QED BY <1>1, <1>3, <1>5, <1>7, LetGo DEF Holding
<1> QED BY <1>3, <1>4, <1>6, <1>8

\* The removal of a temporary file, or its failure, keeps StoreInv.
LEMMA RemoveKeeps ==
    ASSUME StoreInv, NEW p \in Procs, Discard(p) \/ Refused(p)
    PROVE  StoreInv'
<1>1. /\ proc[p].pc \in {"discard", "refused"} /\ UNCHANGED <<bundle, plain>>
      /\ RemoveTemp(p) \/ LeakTemp(p)
  BY DEF Discard, Refused, At
<1>2. temps' = Restrict(temps, DOMAIN temps \ {proc[p].temp}) \/ temps' = temps
  BY <1>1 DEF RemoveTemp, LeakTemp
<1>3. CountTypes' /\ count'.damages = count.damages
  BY <1>1 DEF RemoveTemp, LeakTemp, Mishap, StoreInv, CountTypes
<1>4. BundleIsGood'
  BY <1>1, <1>3 DEF StoreInv, BundleIsGood
<1>5. proc[p] \in ProcessType /\ Sound(proc[p], temps) /\ Unreadable \in Signatures
  BY DEF StoreInv, Unreadable, Signatures, Plain
<1>6. CASE ReturnErr(p)
  <2> DEFINE r == [proc[p] EXCEPT !.pc = "idle", !.outcome = "Err", !.found = FALSE,
                                  !.mem = Unreadable, !.temp = NoName]
  <2>1. proc' = [proc EXCEPT ![p] = r]
    BY <1>6 DEF ReturnErr, Return
  <2>2. r \in ProcessType /\ r.pid = proc[p].pid /\ r.pc = "idle" /\ r.temp = NoName
    BY <1>5 DEF ProcessType, Steps
  <2> HIDE DEF r
  <2> QED BY <1>1, <1>2, <1>3, <1>4, <2>1, <2>2, LetGo DEF Holding
<1>7. CASE ToExisting(p)
  <2> DEFINE r == [proc[p] EXCEPT !.pc = "load", !.temp = NoName]
  <2>1. proc' = [proc EXCEPT ![p] = r]
    BY <1>7 DEF ToExisting, StoreInv
  <2>2. r \in ProcessType /\ r.pid = proc[p].pid /\ r.pc = "load" /\ r.temp = NoName
        /\ r.outcome = "none"
    BY <1>1, <1>5 DEF ProcessType, Steps, Sound
  <2> HIDE DEF r
  <2> QED BY <1>1, <1>2, <1>3, <1>4, <2>1, <2>2, LetGo DEF Holding
<1> QED BY <1>6, <1>7 DEF Discard, Refused

-----------------------------------------------------------------------------
(* The steps from outside. *)

\* The death of a process keeps StoreInv.
LEMMA DieKeeps ==
    ASSUME StoreInv, NEW p \in Procs, Die(p)
    PROVE  StoreInv'
<1>1. proc' = [proc EXCEPT ![p] = NoProcess] /\ UNCHANGED <<disk, plain>>
  BY DEF Die
<1>2. CountTypes' /\ count'.damages = count.damages
  <2>1. Cardinality(Working({p})) \in Nat
    <3>1. IsFiniteSet({p}) /\ Working({p}) \subseteq {p}
      BY FS_Singleton DEF Working
    <3> QED BY <3>1, FS_Subset, FS_CardinalityType
  <2> QED BY <2>1 DEF Die, Mishap, StoreInv, CountTypes
<1>3. NoProcess \in ProcessType /\ NoProcess.pid = 0 /\ Sound(NoProcess, temps)
  BY DEF NoProcess, ProcessType, Steps, Unreadable, Signatures, Plain, NoName, Sound, Holding
<1>4. /\ proc' \in [Procs -> ProcessType]
      /\ \A q \in Procs : Sound(proc'[q], temps')
      /\ OwnIds'
  <2>1. proc[p].pc # "dead" /\ temps' = temps
    BY <1>1 DEF Die, At, disk
  <2> QED BY <1>1, <1>3, <2>1, OneProcess
<1>5. FileTypes' /\ BundleIsGood'
  BY <1>1, <1>2 DEF StoreInv, FileTypes, BundleIsGood, disk
<1> QED BY <1>2, <1>4, <1>5 DEF StoreInv

\* The bundle was synced before it was renamed: it outlives the power.
LEMMA PowerLossKeeps ==
    ASSUME StoreInv, PowerLoss
    PROVE  StoreInv' /\ bundle' = bundle
<1>1. proc' = [p \in Procs |-> NoProcess] /\ plain' = plain
  BY DEF PowerLoss
<1>2. CountTypes' /\ count'.damages = count.damages
  <2>1. Cardinality(Working(Procs)) \in Nat
    BY ProcsAssumption, FS_Subset, FS_CardinalityType DEF Working
  <2> QED BY <2>1 DEF PowerLoss, Mishap, StoreInv, CountTypes
<1>3. NoProcess \in ProcessType /\ Sound(NoProcess, temps') /\ NoProcess.pc = "dead"
  BY DEF NoProcess, ProcessType, Steps, Unreadable, Signatures, Plain, NoName, Sound, Holding
<1>4. bundle' = bundle
  <2>1. CASE bundle = NoFile
    BY <2>1 DEF PowerLoss
  <2>2. CASE bundle # NoFile
    BY <2>2 DEF PowerLoss, StoreInv, BundleIsGood, FileTypes, Sealed
  <2> QED BY <2>1, <2>2
<1>5. FileTypes'
  <2>1. /\ DOMAIN temps' = DOMAIN temps
        /\ \A n \in DOMAIN temps : temps'[n] = [temps[n] EXCEPT !.whole = @ /\ temps[n].synced]
    BY DEF PowerLoss
  <2>2. \A n \in DOMAIN temps : temps'[n] \in Sealed
    BY <2>1 DEF StoreInv, FileTypes, Sealed
  <2> QED BY <1>1, <1>4, <2>1, <2>2 DEF StoreInv, FileTypes
<1>6. BundleIsGood'
  BY <1>2, <1>4 DEF StoreInv, BundleIsGood
<1>7. proc' \in [Procs -> ProcessType] /\ OwnIds' /\ \A q \in Procs : Sound(proc'[q], temps')
  BY <1>1, <1>3 DEF OwnIds
<1> QED BY <1>2, <1>4, <1>5, <1>6, <1>7 DEF StoreInv

\* A change from outside keeps StoreInv.
LEMMA OutsideKeeps ==
    ASSUME StoreInv, EditPlain \/ DamageBundle
    PROVE  StoreInv'
<1>1. UNCHANGED <<temps, proc>>
  BY DEF EditPlain, DamageBundle, disk
<1>2. /\ CountTypes' /\ count'.damages >= count.damages
      /\ count'.damages = 0 => ~DamageBundle
  BY DEF EditPlain, DamageBundle, Mishap, StoreInv, CountTypes
<1>3. plain' \in Signatures
  BY DEF EditPlain, DamageBundle, StoreInv, FileTypes, Signatures
<1>4. /\ bundle' \in Sealed \cup {NoFile}
      /\ bundle' # NoFile => bundle # NoFile /\ bundle'.synced = bundle.synced
                             /\ bundle'.data = bundle.data
      /\ bundle' = bundle \/ DamageBundle
  BY DEF EditPlain, DamageBundle, StoreInv, FileTypes, Sealed, disk
<1>5. BundleIsGood'
  BY <1>2, <1>4 DEF StoreInv, BundleIsGood, CountTypes
<1>6. FileTypes' /\ OwnIds'
  BY <1>1, <1>3, <1>4 DEF StoreInv, FileTypes, OwnIds
<1> QED BY <1>1, <1>2, <1>5, <1>6 DEF StoreInv

\* Every step keeps StoreInv.
LEMMA NextKeepsStore == StoreInv /\ [Next]_vars => StoreInv'
<1> SUFFICES ASSUME StoreInv, [Next]_vars PROVE StoreInv'
  OBVIOUS
<1>1. CASE UNCHANGED vars
  BY <1>1 DEF vars, disk, StoreInv, FileTypes, CountTypes, OwnIds, BundleIsGood
<1>2. CASE \E p \in Procs : Start(p) \/ Call(p) \/ Die(p)
  BY <1>2, StartKeeps, CallKeeps, DieKeeps
<1>3. CASE \E p \in Procs : Step(p)
  BY <1>3, ReadKeeps, CreateKeeps, FillKeeps, GiveUpKeeps, PublishKeeps, RemoveKeeps DEF Step
<1>4. CASE PowerLoss \/ EditPlain \/ DamageBundle
  BY <1>4, PowerLossKeeps, OutsideKeeps
<1> QED BY <1>1, <1>2, <1>3, <1>4 DEF Next

\* StoreInv is an inductive invariant of the store.
THEOREM StoreInvariant == Spec => []StoreInv
BY InitStore, NextKeepsStore, PTL DEF Spec

-----------------------------------------------------------------------------
(* Theorems. *)

\* persist_bundle, atomic_write: whatever dies, fails, races or loses its power,
\* the bundle is whole unless it was damaged from outside, and compiled.
THEOREM BundleIsWholeHolds == Spec => []BundleIsWhole
<1>1. StoreInv => BundleIsWhole
  BY NamesAssumption DEF StoreInv, BundleIsGood, BundleIsWhole, Compiled
<1> QED BY <1>1, StoreInvariant, PTL

-----------------------------------------------------------------------------
(* The refinement: what a user of AtomicBundle sees of the files and the     *)
(* processes.                                                                *)

CallOf(r) == IF r.pc \in {"dead", "idle"} THEN "none"
             ELSE IF r.tool = "seal" \/ ~r.found THEN "store" ELSE "load"
GotOf(r)  == IF r.outcome = "Ok" THEN r.mem ELSE NoFile

Value   == IF bundle = NoFile THEN NoFile ELSE IF bundle.whole THEN bundle.data ELSE Unreadable
Sealers == {p \in Procs : proc[p].tool = "seal"}
Calls   == [p \in Procs |-> CallOf(proc[p])]
Got     == [p \in Procs |-> GotOf(proc[p])]

\* A step of one process changes what is seen of this process.
LEMMA SeenStep ==
    ASSUME StoreInv, NEW p \in Procs, NEW r, proc' = [proc EXCEPT ![p] = r]
    PROVE  /\ Calls' = [Calls EXCEPT ![p] = CallOf(r)]
           /\ Got' = [Got EXCEPT ![p] = GotOf(r)]
           /\ Sealers' = IF r.tool = "seal" THEN Sealers \cup {p} ELSE Sealers \ {p}
           /\ Calls[p] = CallOf(proc[p]) /\ Got[p] = GotOf(proc[p])
           /\ p \in Sealers <=> proc[p].tool = "seal"
<1>1. \A q \in Procs : proc'[q] = IF q = p THEN r ELSE proc[q]
  BY DEF StoreInv
<1>2. Calls' = [Calls EXCEPT ![p] = CallOf(r)]
  BY <1>1 DEF Calls, CallOf
<1>3. Got' = [Got EXCEPT ![p] = GotOf(r)]
  <2>1. Got' = [q \in Procs |-> GotOf(proc'[q])]
    BY DEF Got, GotOf
  <2>2. Got' = [q \in Procs |-> IF q = p THEN GotOf(r) ELSE GotOf(proc[q])]
    BY <1>1, <2>1
  <2> QED BY <2>2 DEF Got
<1>4. Sealers' = IF r.tool = "seal" THEN Sealers \cup {p} ELSE Sealers \ {p}
  BY <1>1 DEF Sealers
<1> QED BY <1>2, <1>3, <1>4 DEF Calls, Got, Sealers

\* A step inside a call is not seen.
LEMMA InsideCall ==
    ASSUME StoreInv, NEW p \in Procs, NEW r, proc' = [proc EXCEPT ![p] = r],
           proc[p].pc \notin {"dead", "idle"}, r.pc \notin {"dead", "idle"},
           r.tool = proc[p].tool, r.found = proc[p].found, r.outcome = proc[p].outcome
    PROVE  UNCHANGED <<Calls, Got, Sealers>>
<1>1. proc[p].outcome = "none"
  BY DEF StoreInv, Sound
<1>2. CallOf(r) = CallOf(proc[p]) /\ GotOf(r) = GotOf(proc[p])
  BY <1>1 DEF CallOf, GotOf
<1>3. Calls = [Calls EXCEPT ![p] = Calls[p]] /\ Got = [Got EXCEPT ![p] = Got[p]]
  BY DEF Calls, Got
<1>4. /\ Calls' = [Calls EXCEPT ![p] = CallOf(r)] /\ Calls[p] = CallOf(proc[p])
      /\ Got' = [Got EXCEPT ![p] = GotOf(r)] /\ Got[p] = GotOf(proc[p])
      /\ Sealers' = IF r.tool = "seal" THEN Sealers \cup {p} ELSE Sealers \ {p}
      /\ p \in Sealers <=> proc[p].tool = "seal"
  BY SeenStep
<1>5. Sealers' = Sealers
  BY <1>4
<1> QED BY <1>2, <1>3, <1>4, <1>5

\* The register has no value exactly when there is no bundle.
LEMMA ValueIsSeen ==
    ASSUME StoreInv
    PROVE  Value = NoFile <=> bundle = NoFile
<1>1. Unreadable \in Signatures
  BY DEF Unreadable, Signatures, Plain
<1> QED BY <1>1, NoFileAssumption DEF StoreInv, FileTypes, Sealed, Value

\* The store begins as the register does.
LEMMA RegisterInit == Init => Register!Init
BY DEF Init, Register!Init, NoProcess

\* The start of a process is one in the register.
LEMMA RegisterStart ==
    ASSUME StoreInv, NEW p \in Procs, Start(p)
    PROVE  Register!Start(p)
<1>1. PICK n \in Pids \ {proc[q].pid : q \in Procs}, t \in {"store", "seal"} :
        proc' = [proc EXCEPT ![p] = [NoProcess EXCEPT !.pc = "idle", !.pid = n, !.tool = t]]
  BY DEF Start
<1> DEFINE r == [NoProcess EXCEPT !.pc = "idle", !.pid = n, !.tool = t]
<1>2. /\ proc[p].pc = "dead" /\ Value' = Value /\ count' = count
      /\ proc' = [proc EXCEPT ![p] = r]
  BY <1>1 DEF Start, At, disk, Value
<1>3. CallOf(r) = "none" /\ GotOf(r) = NoFile /\ CallOf(proc[p]) = "none"
  BY <1>2 DEF CallOf, GotOf, NoProcess
<1>4. Calls[p] = "none" /\ Calls = [Calls EXCEPT ![p] = Calls[p]]
  BY <1>3 DEF Calls
<1> HIDE DEF r
<1>5. Calls' = Calls /\ Got' = [Got EXCEPT ![p] = NoFile]
      /\ Sealers' \in {Sealers \cup {p}, Sealers \ {p}}
  <2>1. /\ Calls' = [Calls EXCEPT ![p] = CallOf(r)] /\ Got' = [Got EXCEPT ![p] = GotOf(r)]
        /\ Sealers' = IF r.tool = "seal" THEN Sealers \cup {p} ELSE Sealers \ {p}
    BY <1>2, SeenStep
  <2> QED BY <1>3, <1>4, <2>1
<1> QED BY <1>2, <1>4, <1>5
        DEF Register!Start, Calls, Got, Sealers, Value, CallOf, GotOf

\* A call begins in both.
LEMMA RegisterBegin ==
    ASSUME StoreInv, NEW p \in Procs, Call(p)
    PROVE  Register!Begin(p)
<1> DEFINE r == [proc[p] EXCEPT !.pc = IF proc[p].tool = "store" /\ bundle # NoFile
                                       THEN "load" ELSE "hashes",
                                !.outcome = "none", !.mem = Unreadable, !.found = bundle # NoFile]
<1>1. /\ proc[p].pc = "idle" /\ Value' = Value /\ count'.damages = count.damages
      /\ proc' = [proc EXCEPT ![p] = r]
  BY DEF Call, At, disk, Value, StoreInv, CountTypes
<1>2. proc[p] \in ProcessType
  BY DEF StoreInv
<1>3. /\ CallOf(r) = IF proc[p].tool = "seal" \/ bundle = NoFile THEN "store" ELSE "load"
      /\ GotOf(r) = NoFile /\ r.tool = proc[p].tool /\ CallOf(proc[p]) = "none"
  BY <1>1, <1>2 DEF CallOf, GotOf, ProcessType
<1> HIDE DEF r
<1>4. /\ Calls' = [Calls EXCEPT ![p] = IF p \in Sealers \/ Value = NoFile THEN "store" ELSE "load"]
      /\ Got' = [Got EXCEPT ![p] = NoFile] /\ Calls[p] = "none" /\ Sealers' = Sealers
  <2>1. /\ Calls' = [Calls EXCEPT ![p] = CallOf(r)] /\ Got' = [Got EXCEPT ![p] = GotOf(r)]
        /\ Calls[p] = CallOf(proc[p])
        /\ p \in Sealers <=> proc[p].tool = "seal"
        /\ Sealers' = IF r.tool = "seal" THEN Sealers \cup {p} ELSE Sealers \ {p}
    BY <1>1, SeenStep
  <2>2. Sealers' = Sealers
    BY <1>3, <2>1
  <2> QED BY <1>3, <2>1, <2>2, ValueIsSeen
<1> QED BY <1>1, <1>4 DEF Register!Begin, Calls, Got, Sealers, Value, CallOf, GotOf

\* A call that returns.
LEMMA SeenReturn ==
    ASSUME StoreInv, NEW p \in Procs, NEW result \in {"Ok", "Err"}, NEW data,
           Return(p, result, data), proc[p].pc \notin {"dead", "idle"}
    PROVE  /\ Calls[p] = CallOf(proc[p]) /\ Calls[p] # "none"
           /\ Calls' = [Calls EXCEPT ![p] = "none"]
           /\ Got' = IF result = "Ok" THEN [Got EXCEPT ![p] = data] ELSE Got
           /\ Sealers' = Sealers
<1> DEFINE r == [proc[p] EXCEPT !.pc = "idle", !.outcome = result, !.found = FALSE,
                                !.mem = data, !.temp = NoName]
<1>1. proc' = [proc EXCEPT ![p] = r]
  BY DEF Return
<1>2. proc[p] \in ProcessType /\ proc[p].outcome = "none"
  BY DEF StoreInv, Sound
<1>3. /\ CallOf(r) = "none" /\ CallOf(proc[p]) # "none"
      /\ GotOf(r) = IF result = "Ok" THEN data ELSE NoFile
      /\ GotOf(proc[p]) = NoFile /\ r.tool = proc[p].tool
  BY <1>2 DEF CallOf, GotOf, ProcessType
<1> HIDE DEF r
<1>4. /\ Calls' = [Calls EXCEPT ![p] = CallOf(r)] /\ Calls[p] = CallOf(proc[p])
      /\ Got' = [Got EXCEPT ![p] = GotOf(r)] /\ Got[p] = GotOf(proc[p])
      /\ Sealers' = IF r.tool = "seal" THEN Sealers \cup {p} ELSE Sealers \ {p}
      /\ p \in Sealers <=> proc[p].tool = "seal"
  BY <1>1, SeenStep
<1>5. Sealers' = Sealers
  BY <1>3, <1>4
<1>6. Got = [Got EXCEPT ![p] = Got[p]]
  BY DEF Got
<1> QED BY <1>3, <1>4, <1>5, <1>6

\* A call that fails in the store fails in the register.
LEMMA RegisterFail ==
    ASSUME StoreInv, NEW p \in Procs, ReturnErr(p), proc[p].pc \notin {"dead", "idle"},
           bundle' = bundle, count'.damages = count.damages
    PROVE  Register!Fail(p)
<1>1. Calls' = [Calls EXCEPT ![p] = "none"] /\ Got' = Got /\ Sealers' = Sealers
  BY SeenReturn DEF ReturnErr
<1>2. Value' = Value
  BY DEF Value
<1> QED BY <1>1, <1>2 DEF Register!Fail, Calls, Got, Sealers, Value, CallOf, GotOf

\* Reading the bundle is a load.
LEMMA RegisterLoad ==
    ASSUME StoreInv, NEW p \in Procs, LoadSealed(p), ~ReturnErr(p)
    PROVE  Register!Load(p)
<1>1. /\ proc[p].pc = "load" /\ bundle # NoFile /\ bundle.whole
      /\ Return(p, "Ok", bundle.data) /\ bundle' = bundle /\ count' = count
  BY DEF LoadSealed, At, disk
<1>2. Value' = bundle.data /\ Value = bundle.data /\ Value \in Compiled
  BY <1>1 DEF Value, StoreInv, BundleIsGood
<1>3. Calls[p] # "none" /\ Calls' = [Calls EXCEPT ![p] = "none"]
      /\ Got' = [Got EXCEPT ![p] = Value'] /\ Sealers' = Sealers
  BY <1>1, <1>2, SeenReturn
<1> QED BY <1>1, <1>2, <1>3
        DEF Register!Load, Register!Return, Calls, Got, Sealers, Value, CallOf, GotOf, Compiled

\* The rename is a store.
LEMMA RegisterStore ==
    ASSUME StoreInv, NEW p \in Procs, Publish(p)
    PROVE  Register!Store(p)
<1>1. proc[p].pc = "rename" /\ Return(p, "Ok", proc[p].mem) /\ count' = count
  BY DEF Publish, At
<1>2. Value' = proc[p].mem /\ Value' \in Compiled
  BY PublishKeeps DEF Value
<1>3. CallOf(proc[p]) = "store"
  BY <1>1 DEF StoreInv, Sound, CallOf
<1>4. Calls[p] = "store" /\ Calls' = [Calls EXCEPT ![p] = "none"]
      /\ Got' = [Got EXCEPT ![p] = Value'] /\ Sealers' = Sealers
  BY <1>1, <1>2, <1>3, SeenReturn
<1> QED BY <1>1, <1>2, <1>4
        DEF Register!Store, Register!Return, Calls, Got, Sealers, Value, CallOf, GotOf, Compiled

\* The steps inside a call, and the failures.
LEMMA RegisterInside ==
    ASSUME StoreInv, NEW p \in Procs, Step(p), ~Publish(p), ~(LoadSealed(p) /\ ~ReturnErr(p))
    PROVE  Register!Fail(p) \/ UNCHANGED <<Value, Sealers, Calls, Got, count.damages>>
<1>1. proc[p] \in ProcessType /\ proc[p].pc \notin {"dead", "idle"} /\ bundle' = bundle
      /\ Value' = Value
  <2>1. bundle' = bundle /\ proc[p].pc \notin {"dead", "idle"}
    BY DEF Step, LoadSealed, ReadHashes, ReadRules, CreateTemp, WriteTemp, SyncTemp, Fail,
           RenameFails, Discard, Refused, At, disk
  <2> QED BY <2>1 DEF StoreInv, Value
<1>2. count'.damages = count.damages
  BY DEF Step, LoadSealed, ReadHashes, ReadRules, CreateTemp, WriteTemp, SyncTemp, Fail,
         RenameFails, Discard, Refused, RemoveTemp, LeakTemp, Mishap, StoreInv, CountTypes
<1>3. CASE ReturnErr(p)
  BY <1>1, <1>2, <1>3, RegisterFail
<1>4. CASE ~ReturnErr(p)
  <2>1. /\ proc' = [proc EXCEPT ![p] = proc'[p]]
        /\ proc'[p].tool = proc[p].tool /\ proc'[p].found = proc[p].found
        /\ proc'[p].outcome = proc[p].outcome /\ proc'[p].pc \notin {"dead", "idle"}
    <3>1. CASE CreateTemp(p) \/ Refused(p)
      <4>1. CASE proc' = [proc EXCEPT ![p] = [@ EXCEPT !.pc = "write", !.temp = TempName(p),
                                                       !.counter = NextCounter(p)]]
        BY <1>1, <4>1 DEF StoreInv, ProcessType
      <4>2. CASE proc' = [proc EXCEPT ![p].counter = NextCounter(p)]
        BY <1>1, <4>2 DEF StoreInv, ProcessType
      <4>3. CASE ToExisting(p)
        BY <1>1, <4>3 DEF ToExisting, StoreInv, ProcessType
      <4> QED BY <1>4, <3>1, <4>1, <4>2, <4>3 DEF CreateTemp, Refused
    <3>2. CASE ~(CreateTemp(p) \/ Refused(p))
      BY <1>1, <1>4, <3>2
         DEF Step, ReadHashes, ReadRules, WriteTemp, SyncTemp, Fail, RenameFails, Discard,
             Goto, StoreInv, ProcessType
    <3> QED BY <3>1, <3>2
  <2>2. UNCHANGED <<Calls, Got, Sealers>>
    BY <1>1, <2>1, InsideCall
  <2> QED BY <1>1, <1>2, <2>2
<1> QED BY <1>3, <1>4

\* The death of a process is a crash.
LEMMA RegisterCrash ==
    ASSUME StoreInv, (\E p \in Procs : Die(p)) \/ PowerLoss
    PROVE  Register!Crash
<1>1. Value' = Value /\ count'.damages = count.damages
  BY PowerLossKeeps
     DEF Die, PowerLoss, Value, Mishap, StoreInv, CountTypes, disk
<1>2. PICK ps \in SUBSET Procs : \A q \in Procs : proc'[q] = IF q \in ps THEN NoProcess ELSE proc[q]
  <2>1. CASE PowerLoss
    BY <2>1 DEF PowerLoss
  <2>2. ASSUME NEW p \in Procs, Die(p)
        PROVE  \E ps \in SUBSET Procs :
                  \A q \in Procs : proc'[q] = IF q \in ps THEN NoProcess ELSE proc[q]
    <3> WITNESS {p} \in SUBSET Procs
    <3> QED BY <2>2 DEF Die, StoreInv
  <2> QED BY <2>1, <2>2
<1>3. CallOf(NoProcess) = "none" /\ GotOf(NoProcess) = NoFile /\ NoProcess.tool = "store"
  BY DEF CallOf, GotOf, NoProcess
<1>4. Calls' = [q \in Procs |-> IF q \in ps THEN "none" ELSE Calls[q]]
  <2>1. Calls' = [q \in Procs |-> CallOf(proc'[q])]
    BY DEF Calls, CallOf
  <2>2. Calls' = [q \in Procs |-> IF q \in ps THEN "none" ELSE CallOf(proc[q])]
    BY <1>2, <1>3, <2>1
  <2> QED BY <2>2 DEF Calls
<1>5. Got' = [q \in Procs |-> IF q \in ps THEN NoFile ELSE Got[q]]
  <2>1. Got' = [q \in Procs |-> GotOf(proc'[q])]
    BY DEF Got, GotOf
  <2>2. Got' = [q \in Procs |-> IF q \in ps THEN NoFile ELSE GotOf(proc[q])]
    BY <1>2, <1>3, <2>1
  <2> QED BY <2>2 DEF Got
<1>6. Sealers' = Sealers \ ps
  BY <1>2, <1>3 DEF Sealers
<1> QED BY <1>1, <1>4, <1>5, <1>6
        DEF Register!Crash, Calls, Got, Sealers, Value, CallOf, GotOf

\* A change from outside is one in the register.
LEMMA RegisterOutside ==
    ASSUME StoreInv, EditPlain \/ DamageBundle
    PROVE  Register!Damage \/ UNCHANGED <<Value, Sealers, Calls, Got, count.damages>>
<1>1. UNCHANGED <<Calls, Got, Sealers>>
  <2>1. proc' = proc
    BY DEF EditPlain, DamageBundle
  <2> QED BY <2>1 DEF Calls, Got, Sealers, CallOf, GotOf
<1>2. CASE EditPlain
  <2>1. Value' = Value /\ count'.damages = count.damages
    BY <1>2 DEF EditPlain, Value, Mishap, StoreInv, CountTypes, disk
  <2> QED BY <1>1, <2>1
<1>3. CASE DamageBundle
  <2>1. count'.damages = count.damages + 1 /\ bundle # NoFile
    BY <1>3 DEF DamageBundle, Mishap, StoreInv, CountTypes
  <2>2. Value' \in {NoFile, Unreadable}
    BY <1>3 DEF DamageBundle, StoreInv, FileTypes, Sealed, Value
  <2>3. Value # NoFile
    BY <2>1, ValueIsSeen
  <2> QED BY <1>1, <2>1, <2>2, <2>3
          DEF Register!Damage, Calls, Got, Sealers, Value, CallOf, GotOf
<1> QED BY <1>2, <1>3

\* Every step of the files and the processes is a step of the register, or no step.
LEMMA RegisterNext ==
    ASSUME StoreInv, [Next]_vars
    PROVE  [Register!Next]_(Register!vars)
<1>1. CASE UNCHANGED vars
  BY <1>1 DEF vars, disk, Register!vars
<1>2. CASE UNCHANGED <<Value, Sealers, Calls, Got, count.damages>>
  BY <1>2 DEF Register!vars, Calls, Got, Sealers, Value, CallOf, GotOf
<1>3. CASE \E p \in Procs : Start(p) \/ Call(p)
  BY <1>3, RegisterStart, RegisterBegin DEF Register!Next
<1>4. CASE \E p \in Procs : Step(p)
  <2>1. PICK p \in Procs : Step(p)
    BY <1>4
  <2>2. CASE Publish(p)
    BY <2>2, RegisterStore DEF Register!Next
  <2>3. CASE LoadSealed(p) /\ ~ReturnErr(p)
    BY <2>3, RegisterLoad DEF Register!Next
  <2>4. CASE ~Publish(p) /\ ~(LoadSealed(p) /\ ~ReturnErr(p))
    BY <1>2, <2>1, <2>4, RegisterInside DEF Register!Next
  <2> QED BY <2>2, <2>3, <2>4
<1>5. CASE (\E p \in Procs : Die(p)) \/ PowerLoss
  BY <1>5, RegisterCrash DEF Register!Next
<1>6. CASE EditPlain \/ DamageBundle
  BY <1>2, <1>6, RegisterOutside DEF Register!Next
<1> QED BY <1>1, <1>3, <1>4, <1>5, <1>6 DEF Next

\* The temporary files, the renames, the races, the crashes and the power losses
\* of load_or_import and of the sealing tool implement one atomic register.
THEOREM IsAtomicHolds == Spec => IsAtomic
BY RegisterInit, RegisterNext, StoreInvariant, PTL DEF Spec, IsAtomic, Register!Spec

-----------------------------------------------------------------------------
(* Temporary files that nobody works on.                                     *)

Orphans == DOMAIN temps \ {proc[p].temp : p \in Procs}
OrphansInv == /\ IsFiniteSet(DOMAIN temps)
              /\ Cardinality(Orphans) <= count.crashes + count.leaks

\* The name of no file is the name of no file there is.
LEMMA NoFileHasNoName == StoreInv => NoName \notin DOMAIN temps
<1>1. \A a, b : <<a, b>> # <<>>
  OBVIOUS
<1> QED BY <1>1 DEF StoreInv, FileTypes, NoName

\* The files left behind can be counted.
LEMMA OrphansCounted ==
    ASSUME OrphansInv PROVE IsFiniteSet(Orphans) /\ Cardinality(Orphans) \in Nat
BY FS_Subset, FS_CardinalityType DEF OrphansInv, Orphans

\* The files that processes leave behind are no more than the processes.
LEMMA LeftBehind ==
    ASSUME StoreInv, OrphansInv, CountTypes', NEW ps \in SUBSET Procs, IsFiniteSet(ps),
           DOMAIN temps' = DOMAIN temps,
           Orphans' \subseteq Orphans \cup {proc[p].temp : p \in ps},
           count'.crashes + count'.leaks = count.crashes + count.leaks + Cardinality(ps)
    PROVE  OrphansInv'
<1> DEFINE held == {proc[p].temp : p \in ps}
           temp == [p \in ps |-> proc[p].temp]
<1>1. temp \in Surjection(ps, held)
  BY DEF Surjection
<1>2. IsFiniteSet(held) /\ Cardinality(held) <= Cardinality(ps)
  BY <1>1, FS_Surjection
<1>3. Cardinality(held) \in Nat /\ Cardinality(ps) \in Nat
  BY <1>2, FS_CardinalityType
<1> HIDE DEF held
<1>4. /\ IsFiniteSet(Orphans \cup held)
      /\ Cardinality(Orphans \cup held) <= Cardinality(Orphans) + Cardinality(held)
  <2>1. Cardinality(Orphans \cap held) \in Nat
    BY OrphansCounted, FS_Subset, FS_CardinalityType
  <2>2. /\ IsFiniteSet(Orphans \cup held)
        /\ Cardinality(Orphans \cup held)
             = Cardinality(Orphans) + Cardinality(held) - Cardinality(Orphans \cap held)
    BY <1>2, OrphansCounted, FS_Union
  <2> QED BY <1>3, <2>1, <2>2, OrphansCounted
<1>5. Cardinality(Orphans') <= Cardinality(Orphans \cup held) /\ IsFiniteSet(Orphans')
  BY <1>4, FS_Subset DEF held
<1>6. Cardinality(Orphans \cup held) \in Nat /\ Cardinality(Orphans') \in Nat
  BY <1>4, <1>5, FS_CardinalityType
<1>7. Cardinality(Orphans') <= count'.crashes + count'.leaks
  BY <1>2, <1>3, <1>4, <1>5, <1>6, OrphansCounted DEF OrphansInv, StoreInv, CountTypes
<1> QED BY <1>7 DEF OrphansInv

\* A step that leaves no file behind.
LEMMA NoneLeft ==
    ASSUME StoreInv, OrphansInv, CountTypes', IsFiniteSet(DOMAIN temps'),
           Orphans' \subseteq Orphans,
           count'.crashes + count'.leaks >= count.crashes + count.leaks
    PROVE  OrphansInv'
<1>1. IsFiniteSet(Orphans') /\ Cardinality(Orphans') <= Cardinality(Orphans)
  BY OrphansCounted, FS_Subset
<1>2. Cardinality(Orphans') \in Nat
  BY <1>1, FS_CardinalityType
<1> QED BY <1>1, <1>2, OrphansCounted DEF OrphansInv, StoreInv, CountTypes

\* A step that neither creates, renames nor removes a file, nor lets go of one.
LEMMA SameFiles ==
    ASSUME StoreInv, OrphansInv, CountTypes', DOMAIN temps' = DOMAIN temps,
           \A p \in Procs : proc'[p].temp = proc[p].temp,
           count'.crashes + count'.leaks >= count.crashes + count.leaks
    PROVE  OrphansInv'
<1>1. Orphans' = Orphans
  BY DEF Orphans
<1> QED BY <1>1, NoneLeft DEF OrphansInv

\* Steps before the temporary file exists, while it is written, and from outside.
LEMMA QuietSteps ==
    ASSUME StoreInv, StoreInv', OrphansInv,
           \/ EditPlain \/ DamageBundle
           \/ \E p \in Procs : \/ Start(p) \/ Call(p) \/ LoadSealed(p) \/ ReadHashes(p) \/ ReadRules(p)
                               \/ WriteTemp(p) \/ SyncTemp(p) \/ Fail(p) \/ RenameFails(p)
                               \/ CreateTemp(p) /\ temps' = temps
    PROVE  OrphansInv'
<1>1. DOMAIN temps' = DOMAIN temps
  BY DEF EditPlain, DamageBundle, Start, Call, LoadSealed, ReadHashes, ReadRules,
         WriteTemp, SyncTemp, Fail, RenameFails, disk
<1>2. CountTypes' /\ count'.crashes = count.crashes /\ count'.leaks = count.leaks
  BY DEF EditPlain, DamageBundle, Start, Call, LoadSealed, ReadHashes, ReadRules, CreateTemp,
         WriteTemp, SyncTemp, Fail, RenameFails, Mishap, StoreInv, CountTypes
<1>3. ASSUME NEW q \in Procs PROVE proc'[q].temp = proc[q].temp
  <2>1. CASE proc' = proc
    BY <2>1
  <2>2. CASE EditPlain \/ DamageBundle
    BY <2>2 DEF EditPlain, DamageBundle
  <2>3. ASSUME NEW p \in Procs,
               \/ Start(p) \/ Call(p) \/ LoadSealed(p) \/ ReadHashes(p) \/ ReadRules(p)
               \/ WriteTemp(p) \/ SyncTemp(p) \/ Fail(p) \/ RenameFails(p)
               \/ CreateTemp(p) /\ temps' = temps
        PROVE  proc'[q].temp = proc[q].temp
    <3>1. proc \in [Procs -> ProcessType] /\ proc[p] \in ProcessType /\ Sound(proc[p], temps)
      BY DEF StoreInv
    <3>2. CASE Start(p) \/ Call(p)
      <4>1. proc[p].temp = NoName
        BY <3>1, <3>2 DEF Start, Call, At, Sound, Holding
      <4>2. CASE Start(p)
        <5>1. PICK n \in Pids, t \in {"store", "seal"} :
                proc' = [proc EXCEPT ![p] = [NoProcess EXCEPT !.pc = "idle", !.pid = n, !.tool = t]]
          BY <4>2 DEF Start
        <5>2. [NoProcess EXCEPT !.pc = "idle", !.pid = n, !.tool = t].temp = NoName
          BY DEF NoProcess
        <5> QED BY <3>1, <4>1, <5>1, <5>2
      <4>3. CASE Call(p)
        BY <3>1, <4>3 DEF Call, ProcessType
      <4> QED BY <3>2, <4>2, <4>3
    <3>3. CASE WriteTemp(p) \/ SyncTemp(p) \/ Fail(p) \/ RenameFails(p)
      BY <3>1, <3>3 DEF WriteTemp, SyncTemp, Fail, RenameFails, Goto, ProcessType
    <3>4. CASE LoadSealed(p) \/ ReadHashes(p) \/ ReadRules(p)
      <4>1. proc[p].temp = NoName
        BY <3>1, <3>4 DEF LoadSealed, ReadHashes, ReadRules, At, Sound, Holding
      <4>2. CASE \E result, data : Return(p, result, data)
        BY <3>1, <4>1, <4>2 DEF Return, ProcessType
      <4>3. CASE proc' = [proc EXCEPT ![p].mem.hashes = plain.hashes, ![p].pc = "rules"]
        BY <3>1, <4>3 DEF ProcessType
      <4>4. CASE proc' = [proc EXCEPT ![p].mem.rules = plain.rules, ![p].pc = "create"]
        BY <3>1, <4>4 DEF ProcessType
      <4> QED BY <3>4, <4>2, <4>3, <4>4 DEF LoadSealed, ReadHashes, ReadRules, ReturnErr
    <3>5. CASE CreateTemp(p) /\ temps' = temps
      <4>1. proc[p].temp = NoName
        BY <3>1, <3>5 DEF CreateTemp, At, Sound, Holding
      <4>2. CASE ReturnErr(p)
        BY <3>1, <4>1, <4>2 DEF ReturnErr, Return, ProcessType
      <4>3. CASE proc' = [proc EXCEPT ![p].counter = NextCounter(p)]
        BY <3>1, <4>3 DEF ProcessType
      <4>4. CASE temps' = [n \in DOMAIN temps \cup {TempName(p)} |->
                             IF n = TempName(p)
                             THEN [data |-> proc[p].mem, whole |-> FALSE, synced |-> FALSE]
                             ELSE temps[n]]
                 /\ TempName(p) \notin DOMAIN temps
        <5>1. DOMAIN temps' = DOMAIN temps \cup {TempName(p)}
          BY <4>4
        <5> QED BY <1>1, <4>4, <5>1
      <4> QED BY <3>5, <4>2, <4>3, <4>4 DEF CreateTemp
    <3> QED BY <2>3, <3>2, <3>3, <3>4, <3>5
  <2> QED BY <2>2, <2>3
<1> QED BY <1>1, <1>2, <1>3, SameFiles DEF StoreInv, CountTypes

\* A new file belongs to the process that has created it.
LEMMA CreateLeavesNone ==
    ASSUME StoreInv, StoreInv', OrphansInv, NEW p \in Procs, CreateTemp(p), temps' # temps
    PROVE  OrphansInv'
<1>1. /\ TempName(p) \notin DOMAIN temps
      /\ temps' = [n \in DOMAIN temps \cup {TempName(p)} |->
                     IF n = TempName(p)
                     THEN [data |-> proc[p].mem, whole |-> FALSE, synced |-> FALSE]
                     ELSE temps[n]]
      /\ proc' = [proc EXCEPT ![p] = [@ EXCEPT !.pc = "write", !.temp = TempName(p),
                                               !.counter = NextCounter(p)]]
      /\ proc[p].pc = "create" /\ count' = count
  BY DEF CreateTemp, At
<1>2. DOMAIN temps' = DOMAIN temps \cup {TempName(p)}
  BY <1>1
<1>3. \A q \in Procs : proc'[q].temp = IF q = p THEN TempName(p) ELSE proc[q].temp
  BY <1>1 DEF StoreInv, ProcessType
<1>4. proc[p].temp = NoName /\ NoName \notin DOMAIN temps
  BY <1>1 DEF StoreInv, Sound, Holding, FileTypes, NoName
<1>5. Orphans' \subseteq Orphans
  BY <1>2, <1>3, <1>4 DEF Orphans
<1>6. IsFiniteSet(DOMAIN temps')
  BY <1>2, FS_AddElement DEF OrphansInv
<1> QED BY <1>1, <1>5, <1>6, NoneLeft DEF StoreInv, CountTypes

\* A file that is renamed or removed is gone; one that cannot be is left behind.
LEMMA LettingGoIsCounted ==
    ASSUME StoreInv, StoreInv', OrphansInv, NEW p \in Procs, Publish(p) \/ Discard(p) \/ Refused(p)
    PROVE  OrphansInv'
<1> DEFINE t == proc[p].temp
<1>1. \A q \in Procs : proc'[q].temp = IF q = p THEN NoName ELSE proc[q].temp
  <2>1. proc \in [Procs -> ProcessType] /\ proc[p] \in ProcessType
    BY DEF StoreInv
  <2>2. CASE ToExisting(p)
    BY <2>1, <2>2 DEF ToExisting, ProcessType
  <2>3. CASE \E result, data : Return(p, result, data)
    BY <2>1, <2>3 DEF Return, ProcessType
  <2> QED BY <2>2, <2>3 DEF Publish, Discard, Refused, ReturnErr
<1>2. CASE temps' = Restrict(temps, DOMAIN temps \ {t}) /\ UNCHANGED count
  <2>1. DOMAIN temps' = DOMAIN temps \ {t}
    BY <1>2 DEF Restrict
  <2>2. Orphans' \subseteq Orphans
    BY <1>1, <2>1 DEF Orphans
  <2>3. IsFiniteSet(DOMAIN temps')
    BY <2>1, FS_Subset DEF OrphansInv
  <2> QED BY <1>2, <2>2, <2>3, NoneLeft DEF StoreInv, CountTypes
<1>3. CASE LeakTemp(p)
  <2>1. /\ temps' = temps
        /\ count'.crashes + count'.leaks = count.crashes + count.leaks + 1
    BY <1>3 DEF LeakTemp, Mishap, StoreInv, CountTypes
  <2>2. Orphans' \subseteq Orphans \cup {proc[q].temp : q \in {p}}
    BY <1>1, <2>1 DEF Orphans
  <2>3. IsFiniteSet({p}) /\ Cardinality({p}) = 1 /\ {p} \in SUBSET Procs
    BY FS_Singleton
  <2> QED BY <2>1, <2>2, <2>3, LeftBehind DEF StoreInv
<1> QED BY <1>2, <1>3 DEF Publish, Discard, Refused, RemoveTemp

\* Processes that die leave behind the files they hold.
LEMMA CrashesAreCounted ==
    ASSUME StoreInv, StoreInv', OrphansInv, (\E p \in Procs : Die(p)) \/ PowerLoss
    PROVE  OrphansInv'
<1>1. PICK ps \in SUBSET Procs :
        /\ \A q \in Procs : proc'[q].temp = IF q \in ps THEN NoName ELSE proc[q].temp
        /\ count' = [count EXCEPT !.crashes = @ + Cardinality(Working(ps))]
        /\ DOMAIN temps' = DOMAIN temps
  <2>1. CASE PowerLoss
    BY <2>1 DEF PowerLoss, Mishap, NoProcess
  <2>2. ASSUME NEW p \in Procs, Die(p)
        PROVE  \E ps \in SUBSET Procs :
                  /\ \A q \in Procs : proc'[q].temp = IF q \in ps THEN NoName ELSE proc[q].temp
                  /\ count' = [count EXCEPT !.crashes = @ + Cardinality(Working(ps))]
                  /\ DOMAIN temps' = DOMAIN temps
    <3> WITNESS {p} \in SUBSET Procs
    <3> QED BY <2>2 DEF Die, Mishap, StoreInv, NoProcess, disk
  <2> QED BY <2>1, <2>2
<1> DEFINE gone == Working(ps)
<1>2. gone \in SUBSET Procs /\ IsFiniteSet(gone)
  BY ProcsAssumption, FS_Subset DEF Working
<1>3. Cardinality(gone) \in Nat
  BY <1>2, FS_CardinalityType
<1>4. Orphans' \subseteq Orphans \cup {proc[q].temp : q \in gone}
  <2>1. NoName \notin DOMAIN temps
    BY NoFileHasNoName
  <2> QED BY <1>1, <2>1 DEF Orphans, Working
<1>5. count'.crashes + count'.leaks = count.crashes + count.leaks + Cardinality(gone)
  BY <1>1, <1>3 DEF StoreInv, CountTypes
<1> HIDE DEF gone
<1> QED BY <1>1, <1>2, <1>4, <1>5, LeftBehind DEF StoreInv

\* Every step that leaves a file behind is counted.
LEMMA NextCountsOrphans == StoreInv /\ StoreInv' /\ OrphansInv /\ [Next]_vars => OrphansInv'
<1> SUFFICES ASSUME StoreInv, StoreInv', OrphansInv, [Next]_vars PROVE OrphansInv'
  OBVIOUS
<1>1. CASE UNCHANGED vars
  BY <1>1 DEF vars, disk, OrphansInv, Orphans
<1>2. CASE \E p \in Procs : Start(p) \/ Call(p)
  BY <1>2, QuietSteps
<1>3. CASE \E p \in Procs : Step(p)
  BY <1>3, QuietSteps, CreateLeavesNone, LettingGoIsCounted DEF Step
<1>4. CASE (\E p \in Procs : Die(p)) \/ PowerLoss
  BY <1>4, CrashesAreCounted
<1>5. CASE EditPlain \/ DamageBundle
  BY <1>5, QuietSteps
<1> QED BY <1>1, <1>2, <1>3, <1>4, <1>5 DEF Next

\* A call removes the temporary file it has created, whatever fails: only a death or
\* a removal that fails leaves one, and each leaves no more than one.
THEOREM TempsAreRemovedHolds == Spec => []TempsAreRemoved
<1>1. Init => OrphansInv
  <2> SUFFICES ASSUME Init PROVE OrphansInv
    OBVIOUS
  <2>1. DOMAIN temps = {} /\ Orphans = {}
    BY DEF Init, Orphans
  <2>2. IsFiniteSet({}) /\ Cardinality({}) = 0
    BY FS_EmptySet
  <2> QED BY <2>1, <2>2 DEF Init, OrphansInv
<1>2. OrphansInv => TempsAreRemoved
  BY DEF OrphansInv, Orphans, TempsAreRemoved
<1> QED BY <1>1, <1>2, NextCountsOrphans, StoreInvariant, PTL DEF Spec

-----------------------------------------------------------------------------
(* Types. *)

Bounded == count.calls <= MaxCalls /\ Mishaps <= MaxMishaps

\* Calls and mishaps stay within their bounds.
LEMMA NextIsBounded == StoreInv /\ Bounded /\ [Next]_vars => Bounded'
<1> SUFFICES ASSUME StoreInv, Bounded, [Next]_vars PROVE Bounded'
  OBVIOUS
<1>1. CASE count' = count
  BY <1>1 DEF Bounded, Mishaps
<1>2. CASE \E p \in Procs : Call(p)
  BY <1>2, BoundsAssumption DEF Call, Bounded, Mishaps, StoreInv, CountTypes
<1>3. ASSUME NEW kind \in {"crashes", "edits", "damages", "leaks"}, NEW n \in Nat, Mishap(kind, n)
      PROVE  Bounded'
  BY <1>3, BoundsAssumption DEF Mishap, Bounded, Mishaps, StoreInv, CountTypes
<1>4. CASE PowerLoss
  <2>1. Cardinality(Working(Procs)) \in Nat
    BY ProcsAssumption, FS_Subset, FS_CardinalityType DEF Working
  <2> QED BY <1>3, <1>4, <2>1 DEF PowerLoss
<1>5. ASSUME NEW p \in Procs, Die(p) PROVE Bounded'
  <2>1. Cardinality(Working({p})) \in Nat
    BY FS_Singleton, FS_Subset, FS_CardinalityType DEF Working
  <2> QED BY <1>3, <1>5, <2>1 DEF Die
<1>6. CASE EditPlain \/ DamageBundle
  BY <1>3, <1>6 DEF EditPlain, DamageBundle
<1>7. ASSUME NEW p \in Procs, Start(p) \/ Step(p) PROVE Bounded'
  <2>1. count' = count \/ LeakTemp(p)
    BY <1>7 DEF Start, Step, LoadSealed, ReadHashes, ReadRules, CreateTemp, WriteTemp, SyncTemp,
                Fail, Publish, RenameFails, Discard, Refused, RemoveTemp
  <2> QED BY <1>1, <1>3, <2>1 DEF LeakTemp
<1> QED BY <1>1, <1>2, <1>4, <1>5, <1>6, <1>7 DEF Next, vars

\* Every variable has its type, and a process holds a file exactly where it should.
THEOREM TypeCorrect == Spec => []TypeOK
<1>1. Init => Bounded
  BY BoundsAssumption DEF Init, Bounded, Mishaps
<1>2. StoreInv /\ Bounded => TypeOK
  BY DEF StoreInv, FileTypes, CountTypes, Bounded, TypeOK, Sound, Holding
<1> QED BY <1>1, <1>2, NextIsBounded, StoreInvariant, PTL DEF Spec
=============================================================================
