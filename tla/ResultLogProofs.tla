---------------------------- MODULE ResultLogProofs ----------------------------
(***************************************************************************)
(* Proofs about ResultLog: types, what a verifier finds, and what a torn   *)
(* write can cost, for any number of sinks, records, tears and runs.       *)
(***************************************************************************)
EXTENDS ResultLog, FiniteSetTheorems, WellFoundedInduction, TLAPS

-----------------------------------------------------------------------------
(* Lines. *)

\* A set of numbers that is not empty has a least one.
LEMMA LeastNat ==
    ASSUME NEW S \in SUBSET Nat, S # {}
    PROVE  \E x \in S : \A y \in S : x <= y
<1> DEFINE R == {ss \in Nat \X Nat : ss[1] < ss[2]}
<1>1. IsWellFoundedOn(R, Nat)
  BY NatLessThanWellFounded DEF OpToRel
<1>2. \A x, y \in Nat : <<y, x>> \in R <=> y < x
  OBVIOUS
<1> HIDE DEF R
<1>3. PICK x \in S : \A y \in S : ~ (<<y, x>> \in R)
  BY <1>1, WFMin
<1>4. ASSUME NEW y \in S PROVE x <= y
  <2>1. x \in Nat /\ y \in Nat
    OBVIOUS
  <2>2. ~ (y < x)
    BY <1>2, <1>3, <2>1
  <2> QED BY <2>1, <2>2
<1> QED BY <1>4

\* A line ends at the first newline, or at the end of the file.
LEMMA LineEndIsFirst ==
    ASSUME file \in Seq(Pieces), NEW p \in 1..Len(file)
    PROVE  /\ LineEnd(p) \in p..(Len(file) + 1)
           /\ LineEnd(p) = Len(file) + 1 \/ file[LineEnd(p)].part = "newline"
           /\ \A k \in p..(LineEnd(p) - 1) : file[k].part # "newline"
<1> DEFINE ends == {e \in p..(Len(file) + 1) : e = Len(file) + 1 \/ file[e].part = "newline"}
<1>1. Len(file) \in Nat
  OBVIOUS
<1>2. ends \in SUBSET Nat /\ Len(file) + 1 \in ends
  BY <1>1
<1>3. PICK e \in ends : \A y \in ends : e <= y
  BY <1>2, LeastNat
<1>4. e \in p..(Len(file) + 1) /\ (e = Len(file) + 1 \/ file[e].part = "newline")
  BY <1>3
<1>5. ASSUME NEW k \in p..(e - 1) PROVE file[k].part # "newline"
  <2>1. k \in p..(Len(file) + 1) /\ k < e
    BY <1>1, <1>4
  <2>2. k \notin ends
    BY <1>1, <1>3, <1>4, <2>1
  <2> QED BY <2>1, <2>2
<1> HIDE DEF ends
<1> QED BY <1>4, <1>5 DEF LineEnd

-----------------------------------------------------------------------------
(* Types, locks, and what stands in the file. *)

\* Record r stands at k, in one piece.
Stored(r, k) ==
    /\ k + 3 <= Len(file)
    /\ file[k]     = [rec |-> r, part |-> "open"]
    /\ file[k + 1] = [rec |-> r, part |-> "body"]
    /\ file[k + 2] = [rec |-> r, part |-> "mac"]
    /\ file[k + 3] = [rec |-> r, part |-> "newline"]

\* The file ends with what the sink has written of its record.
OwnPieces(s) ==
    /\ part[s] <= Len(file)
    /\ \A i \in 1..part[s] :
          file[Len(file) - part[s] + i] = [rec |-> rec[s], part |-> LineParts[i]]

SinksInv ==
    /\ TypeOK
    /\ \A s \in Sinks : Writing(s) => ~Reading /\ \A t \in Sinks : Writing(t) => t = s
    /\ \A s \in Sinks : pc[s] \in {"lock", "write", "failed"} => rec[s] \in Records
    /\ \A s \in Sinks : pc[s] = "lock" => part[s] = 0
    /\ \A s \in Sinks : pc[s] = "write" => OwnPieces(s)
    /\ \A r \in acked : \E k \in 1..Len(file) : Stored(r, k)

\* The parts of a line.
LEMMA FourParts ==
    /\ Len(LineParts) = 4 /\ LineParts[1] = "open" /\ LineParts[2] = "body"
    /\ LineParts[3] = "mac" /\ LineParts[4] = "newline"
BY DEF LineParts

\* What stands in the file stays there when something is appended.
LEMMA AppendKeeps ==
    ASSUME TypeOK, NEW x \in Pieces, file' = Append(file, x)
    PROVE  /\ file' \in Seq(Pieces) /\ Len(file') = Len(file) + 1
           /\ \A k \in 1..Len(file) : file'[k] = file[k]
           /\ file'[Len(file) + 1] = x
           /\ \A r \in Records, k \in 1..Len(file) : Stored(r, k) => Stored(r, k)'
<1>1. file \in Seq(Pieces) /\ Len(file) \in Nat
  BY DEF TypeOK
<1>2. /\ file' \in Seq(Pieces) /\ Len(file') = Len(file) + 1
      /\ \A k \in 1..Len(file) : file'[k] = file[k]
      /\ file'[Len(file) + 1] = x
  BY <1>1
<1>3. ASSUME NEW r \in Records, NEW k \in 1..Len(file), Stored(r, k) PROVE Stored(r, k)'
  <2>1. k + 1 \in 1..Len(file) /\ k + 2 \in 1..Len(file) /\ k + 3 \in 1..Len(file)
    BY <1>1, <1>3 DEF Stored
  <2> QED BY <1>1, <1>2, <1>3, <2>1 DEF Stored
<1> QED BY <1>2, <1>3

\* SinksInv holds of an empty log.
LEMMA InitLog == Init => SinksInv
BY MaxAssumption DEF Init, SinksInv, TypeOK, Writing, Records, Pieces

\* Steps of a sink that do not write to the file.
LEMMA SinkKeepsTypes == ASSUME SinksInv, NEW s \in Sinks, Sink(s) PROVE TypeOK'
<1>1. TypeOK /\ Len(LineParts) = 4
  BY FourParts DEF SinksInv
<1>2. UNCHANGED verifierVars => /\ vpc' = vpc /\ pos' = pos /\ verified' = verified
                                /\ runs' = runs /\ outcome' = outcome /\ due' = due
  BY DEF verifierVars
<1>3. CASE Create(s) \/ LockExclusive(s) \/ UnlockFailed(s) \/ Drop(s)
  BY <1>1, <1>2, <1>3 DEF Create, LockExclusive, UnlockFailed, Drop, Goto, TypeOK
<1>4. CASE Write(s)
  BY <1>1, <1>2, <1>4, MaxAssumption DEF Write, Goto, TypeOK
<1>5. CASE Append1(s)
  <2>1. pc[s] = "write" /\ part[s] < 4 /\ part' = [part EXCEPT ![s] = @ + 1]
    BY <1>1, <1>5 DEF Append1
  <2>2. part' \in [Sinks -> 0..4] /\ rec[s] \in Records /\ part[s] + 1 \in 1..4
    <3>1. part \in [Sinks -> 0..4]
      BY <1>1 DEF TypeOK
    <3>2. part[s] \in 0..4
      BY <3>1
    <3> QED BY <2>1, <3>1, <3>2 DEF SinksInv
  <2>3. [rec |-> rec[s], part |-> LineParts[part[s] + 1]] \in Pieces
    <3>1. \A i \in 1..4 : LineParts[i] \in {"open", "body", "mac", "newline"}
      BY FourParts
    <3> QED BY <2>2, <3>1 DEF Pieces
  <2>4. file' \in Seq(Pieces)
    BY <1>1, <1>5, <2>3, AppendKeeps DEF Append1
  <2>5. UNCHANGED <<pc, rec, begun, acked, tears, verifierVars>>
    BY <1>5 DEF Append1
  <2> QED BY <1>1, <1>2, <2>2, <2>4, <2>5 DEF TypeOK
<1>6. CASE WriteFails(s) \/ Die(s)
  <2>1. tears' \in 0..MaxTears
    BY <1>1, <1>6, MaxAssumption DEF WriteFails, Die, CountTear, TypeOK
  <2> QED BY <1>1, <1>2, <1>6, <2>1 DEF WriteFails, Die, Goto, TypeOK
<1>7. CASE Unlock(s)
  <2>1. rec[s] \in Records
    BY <1>7 DEF Unlock, Goto, SinksInv
  <2> QED BY <1>1, <1>2, <1>7, <2>1 DEF Unlock, Goto, TypeOK
<1> QED BY <1>3, <1>4, <1>5, <1>6, <1>7 DEF Sink

\* Writing the next part of a line keeps SinksInv.
LEMMA AppendKeepsSinks == ASSUME SinksInv, NEW s \in Sinks, Append1(s) PROVE SinksInv'
<1> DEFINE x == [rec |-> rec[s], part |-> LineParts[part[s] + 1]]
<1>1. TypeOK /\ TypeOK' /\ Len(LineParts) = 4
  BY FourParts, SinkKeepsTypes DEF SinksInv, Sink
<1>2. /\ pc[s] = "write" /\ part[s] \in 0..3 /\ part' = [part EXCEPT ![s] = @ + 1]
      /\ pc' = pc /\ rec' = rec /\ acked' = acked /\ vpc' = vpc
      /\ file' = Append(file, x)
  BY <1>1 DEF Append1, verifierVars, TypeOK
<1>3. x \in Pieces
  <2>1. rec[s] \in Records /\ part[s] + 1 \in 1..4
    BY <1>2 DEF SinksInv
  <2>2. \A i \in 1..4 : LineParts[i] \in {"open", "body", "mac", "newline"}
    BY FourParts
  <2> QED BY <2>1, <2>2 DEF Pieces
<1> HIDE DEF x
<1>4. /\ Len(file') = Len(file) + 1 /\ Len(file) \in Nat
      /\ \A k \in 1..Len(file) : file'[k] = file[k]
      /\ file'[Len(file) + 1] = x
      /\ \A r \in Records, k \in 1..Len(file) : Stored(r, k) => Stored(r, k)'
  BY <1>1, <1>2, <1>3, AppendKeeps DEF TypeOK
<1>5. OwnPieces(s)'
  <2>1. /\ part[s] <= Len(file)
        /\ \A i \in 1..part[s] :
              file[Len(file) - part[s] + i] = [rec |-> rec[s], part |-> LineParts[i]]
    BY <1>2 DEF SinksInv, OwnPieces
  <2>2. part'[s] = part[s] + 1 /\ part[s] \in Nat
    BY <1>1, <1>2 DEF TypeOK
  <2>3. ASSUME NEW i \in 1..(part[s] + 1)
        PROVE  file'[Len(file') - part'[s] + i] = [rec |-> rec'[s], part |-> LineParts[i]]
    <3>1. Len(file') - part'[s] + i = Len(file) - part[s] + i
      <4>1. i \in Int
        OBVIOUS
      <4>2. Len(file') = Len(file) + 1 /\ Len(file) \in Nat
        BY <1>4
      <4> QED BY <2>2, <4>1, <4>2
    <3>2. CASE i = part[s] + 1
      <4>1. Len(file) - part[s] + i = Len(file) + 1
        BY <1>4, <2>2, <3>2
      <4> QED BY <1>2, <1>4, <3>1, <3>2, <4>1 DEF x
    <3>3. CASE i \in 1..part[s]
      <4>1. Len(file) - part[s] + i \in 1..Len(file)
        BY <1>4, <2>1, <2>2, <3>3
      <4>2. file'[Len(file) - part[s] + i] = file[Len(file) - part[s] + i]
        BY <1>4, <4>1
      <4> QED BY <1>2, <2>1, <3>1, <3>3, <4>2
    <3> QED BY <2>2, <3>2, <3>3
  <2>4. part'[s] <= Len(file')
    BY <1>4, <2>1, <2>2
  <2>5. \A i \in 1..part'[s] :
           file'[Len(file') - part'[s] + i] = [rec |-> rec'[s], part |-> LineParts[i]]
    BY <2>2, <2>3
  <2>6. LineParts' = LineParts
    BY DEF LineParts
  <2> QED BY <2>4, <2>5, <2>6 DEF OwnPieces
<1>6. \A t \in Sinks : pc[t] = "write" => t = s
  BY <1>2 DEF SinksInv, Writing
<1>7. \A r \in acked' : \E k \in 1..Len(file') : Stored(r, k)'
  <2>1. ASSUME NEW r \in acked PROVE \E k \in 1..Len(file') : Stored(r, k)'
    <3>1. r \in Records /\ \E k \in 1..Len(file) : Stored(r, k)
      BY <1>1 DEF SinksInv, TypeOK
    <3> QED BY <1>4, <3>1
  <2> QED BY <1>2, <2>1
<1>8. \A t \in Sinks : pc'[t] = "lock" => part'[t] = 0
  BY <1>1, <1>2 DEF SinksInv, TypeOK
<1>9. \A t \in Sinks : pc'[t] = "write" => OwnPieces(t)'
  BY <1>2, <1>5, <1>6
<1> QED BY <1>1, <1>2, <1>7, <1>8, <1>9 DEF SinksInv, Writing, Reading

\* The steps of a sink keep SinksInv.
LEMMA SinkKeeps == ASSUME SinksInv, NEW s \in Sinks, Sink(s) PROVE SinksInv'
<1>1. TypeOK /\ TypeOK' /\ Len(LineParts) = 4
  BY FourParts, SinkKeepsTypes DEF SinksInv
<1>2. CASE Append1(s)
  BY <1>2, AppendKeepsSinks
<1>3. CASE ~Append1(s)
  <2>1. file' = file /\ vpc' = vpc
    BY <1>3 DEF Sink, Create, Write, LockExclusive, WriteFails, Unlock, UnlockFailed, Drop, Die,
                verifierVars
  <2>2. \A t \in Sinks : t # s => pc'[t] = pc[t] /\ rec'[t] = rec[t] /\ part'[t] = part[t]
    BY <1>1, <1>3 DEF Sink, Create, Write, LockExclusive, WriteFails, Unlock, UnlockFailed,
                      Drop, Die, Goto, TypeOK
  <2>3. /\ pc'[s] \in {"write", "failed"} => LockExclusive(s) \/ WriteFails(s)
        /\ LockExclusive(s) => ExclusiveFree /\ pc[s] = "lock" /\ pc'[s] = "write"
        /\ WriteFails(s) => pc[s] = "write" /\ pc'[s] = "failed"
        /\ pc'[s] # "closed" /\ ~Write(s) => rec'[s] = rec[s] /\ part'[s] = part[s]
        /\ pc'[s] = "lock" => Write(s)
    BY <1>1, <1>3 DEF Sink, Create, Write, LockExclusive, WriteFails, Unlock, UnlockFailed,
                      Drop, Die, Goto, TypeOK
  <2>4. \A t \in Sinks : Writing(t)' => ~Reading' /\ \A u \in Sinks : Writing(u)' => u = t
    BY <2>1, <2>2, <2>3 DEF SinksInv, Writing, Reading, ExclusiveFree
  <2>5. pc'[s] \in {"lock", "write", "failed"} => rec'[s] \in Records
    <3>1. Write(s) => rec'[s] \in Records
      BY <1>1, MaxAssumption DEF Write, TypeOK, Records
    <3> QED BY <2>3, <3>1 DEF SinksInv
  <2>6. pc'[s] = "lock" => part'[s] = 0
    BY <1>1, <2>3 DEF Write, TypeOK
  <2>7. pc'[s] = "write" => OwnPieces(s)'
    BY <1>1, <2>1, <2>3 DEF SinksInv, OwnPieces, LockExclusive, TypeOK, Goto
  <2>8. \A r \in acked' : \E k \in 1..Len(file) : Stored(r, k)
    <3>1. CASE acked' = acked
      BY <3>1 DEF SinksInv
    <3>2. CASE Unlock(s)
      <4>1. part[s] = 4 /\ OwnPieces(s) /\ acked' = acked \cup {rec[s]}
        BY <1>1, <3>2 DEF Unlock, Goto, SinksInv
      <4>2. Len(file) \in Nat /\ Len(file) >= 4
        BY <1>1, <4>1 DEF OwnPieces, TypeOK
      <4>3. \A i \in 1..4 : file[Len(file) - 4 + i] = [rec |-> rec[s], part |-> LineParts[i]]
        BY <4>1 DEF OwnPieces
      <4>4. PICK k \in 1..Len(file) : k = Len(file) - 3
        BY <4>2
      <4>5. Len(file) - 4 + 1 = k /\ Len(file) - 4 + 2 = k + 1 /\ Len(file) - 4 + 3 = k + 2
            /\ Len(file) - 4 + 4 = k + 3 /\ k + 3 <= Len(file)
        BY <4>2, <4>4
      <4>6. Stored(rec[s], k)
        BY <4>3, <4>5, FourParts DEF Stored
      <4> QED BY <4>1, <4>6 DEF SinksInv
    <3> QED BY <1>3, <3>1, <3>2 DEF Sink, Create, Write, LockExclusive, WriteFails, UnlockFailed,
                                    Drop, Die
  <2>9. /\ \A t \in Sinks : pc'[t] = "write" => OwnPieces(t)'
        /\ \A r \in acked' : \E k \in 1..Len(file') : Stored(r, k)'
    <3>1. ASSUME NEW t \in Sinks, t # s, pc'[t] = "write" PROVE OwnPieces(t)'
      <4>1. OwnPieces(t) /\ part'[t] = part[t] /\ rec'[t] = rec[t]
        BY <2>2, <3>1 DEF SinksInv
      <4> QED BY <2>1, <4>1 DEF OwnPieces
    <3>2. \A r \in acked' : \E k \in 1..Len(file') : Stored(r, k)'
      BY <2>1, <2>8 DEF Stored
    <3> QED BY <2>7, <3>1, <3>2
  <2> QED BY <1>1, <2>2, <2>4, <2>5, <2>6, <2>9 DEF SinksInv
<1> QED BY <1>2, <1>3

\* What is accepted is one record, and it ends before the file does.
LEMMA AcceptedLine ==
    ASSUME TypeOK, NEW p \in 1..Len(file), Judge(p, LineEnd(p)) = "accept"
    PROVE  /\ LineEnd(p) = p + 3 /\ p + 2 \in 1..Len(file)
           /\ file[LineEnd(p) - 1].rec \in Records
<1>1. file \in Seq(Pieces) /\ Len(file) \in Nat
  BY DEF TypeOK
<1>2. LineEnd(p) \in p..(Len(file) + 1)
  BY <1>1, LineEndIsFirst
<1>3. LineEnd(p) - p = 3
  BY DEF Judge
<1>4. LineEnd(p) = p + 3 /\ p + 2 \in 1..Len(file) /\ LineEnd(p) - 1 = p + 2
  BY <1>1, <1>2, <1>3
<1>5. file[p + 2] \in Pieces
  BY <1>1, <1>4
<1> QED BY <1>4, <1>5 DEF Pieces

\* So do those of the verifier, which writes nothing.
LEMMA VerifierKeepsSinks == ASSUME SinksInv, Verifier PROVE SinksInv'
<1>1. TypeOK /\ UNCHANGED <<file, sinkVars>>
  BY DEF SinksInv, Verifier, VerifyLock, VerifyLine, VerifyEnd
<1>2. TypeOK'
  <2>1. CASE VerifyLock
    BY <1>1, <2>1, MaxAssumption DEF VerifyLock, TypeOK, sinkVars
  <2>2. CASE VerifyEnd
    BY <1>1, <2>2 DEF VerifyEnd, TypeOK, sinkVars
  <2>3. CASE VerifyLine
    <3> DEFINE e == LineEnd(pos)
    <3>1. pos \in 1..Len(file) /\ file \in Seq(Pieces) /\ Len(file) \in Nat
      BY <1>1, <2>3 DEF VerifyLine, TypeOK
    <3>2. e + 1 \in Nat \ {0}
      <4>1. e \in pos..(Len(file) + 1)
        BY <3>1, LineEndIsFirst
      <4> QED BY <3>1, <4>1
    <3>3. Judge(pos, e) = "accept" => file[e - 1].rec \in Records
      BY <1>1, <3>1, AcceptedLine
    <3>4. /\ pos' = e + 1
          /\ verified' = verified \cup (IF Judge(pos, e) = "accept" THEN {file[e - 1].rec} ELSE {})
          /\ vpc' \in {vpc, "idle"} /\ outcome' \in {outcome, "Config", "Tamper"}
          /\ UNCHANGED <<runs, due>>
      BY <2>3 DEF VerifyLine
    <3> HIDE DEF e
    <3> QED BY <1>1, <3>2, <3>3, <3>4 DEF TypeOK, sinkVars
  <2> QED BY <2>1, <2>2, <2>3 DEF Verifier
<1>3. vpc' = "read" => vpc = "read" \/ SharedFree
  BY DEF Verifier, VerifyLock, VerifyLine, VerifyEnd
<1>4. \A s \in Sinks : Writing(s)' => ~Reading' /\ \A t \in Sinks : Writing(t)' => t = s
  BY <1>1, <1>3 DEF SinksInv, Writing, Reading, SharedFree, sinkVars
<1>5. \A s \in Sinks : pc'[s] = "write" => OwnPieces(s)'
  BY <1>1 DEF SinksInv, OwnPieces, sinkVars
<1>6. \A r \in acked' : \E k \in 1..Len(file') : Stored(r, k)'
  BY <1>1 DEF SinksInv, Stored, sinkVars
<1> QED BY <1>1, <1>2, <1>4, <1>5, <1>6 DEF SinksInv, sinkVars

\* Every step keeps SinksInv.
LEMMA NextKeepsSinks == SinksInv /\ [Next]_vars => SinksInv'
<1> SUFFICES ASSUME SinksInv, [Next]_vars PROVE SinksInv'
  OBVIOUS
<1>1. CASE UNCHANGED vars
  BY <1>1 DEF vars, sinkVars, verifierVars, SinksInv, TypeOK, Writing, Reading, OwnPieces, Stored
<1> QED BY <1>1, SinkKeeps, VerifierKeepsSinks DEF Next

\* One sink at a time holds the lock, the file ends with what it has written of its record, and
\* what was acknowledged is stored in one piece.
THEOREM SinksInvariant == Spec => []SinksInv
BY InitLog, NextKeepsSinks, PTL DEF Spec

\* Every variable of the log has its type.
THEOREM TypeCorrect == Spec => []TypeOK
<1>1. SinksInv => TypeOK
  BY DEF SinksInv
<1> QED BY <1>1, SinksInvariant, PTL

-----------------------------------------------------------------------------
(* What a run of the verifier has accepted. *)

LineStart(p) == p \in 1..Len(file) => p = 1 \/ file[p - 1].part = "newline"

VerifierInv ==
    /\ due \subseteq acked
    /\ outcome = "Ok" => due \subseteq verified
    /\ Reading => /\ outcome = "none" /\ LineStart(pos)
                  /\ \A r \in due : \/ r \in verified
                                    \/ \E k \in 1..Len(file) : Stored(r, k) /\ pos <= k

\* A line that starts before a stored record ends before it or with it, and is
\* accepted in the second case only if it is that record.
LEMMA LineMeetsRecord ==
    ASSUME TypeOK, NEW p \in 1..Len(file), NEW k \in 1..Len(file), NEW r, Stored(r, k), p <= k
    PROVE  \/ LineEnd(p) < k
           \/ /\ LineEnd(p) = k + 3 /\ Judge(p, LineEnd(p)) # "blank"
              /\ Judge(p, LineEnd(p)) = "accept" => file[LineEnd(p) - 1].rec = r
<1> DEFINE e == LineEnd(p)
<1>1. file \in Seq(Pieces) /\ Len(file) \in Nat /\ p \in Nat /\ k \in Nat
  BY DEF TypeOK
<1>2. /\ e \in p..(Len(file) + 1)
      /\ e = Len(file) + 1 \/ file[e].part = "newline"
      /\ \A i \in p..(e - 1) : file[i].part # "newline"
  BY <1>1, LineEndIsFirst
<1>3. /\ k + 3 <= Len(file) /\ file[k].part = "open" /\ file[k + 1].part = "body"
      /\ file[k + 2].part = "mac" /\ file[k + 3].part = "newline" /\ file[k + 2].rec = r
  BY DEF Stored
<1>4. e <= k + 3
  <2>1. CASE e > k + 3
    <3>1. k + 3 \in p..(e - 1)
      BY <1>1, <1>2, <2>1
    <3> QED BY <1>2, <1>3, <3>1
  <2> QED BY <1>1, <1>2, <2>1
<1>5. e # k /\ e # k + 1 /\ e # k + 2
  BY <1>1, <1>2, <1>3
<1>6. e < k \/ e = k + 3
  BY <1>1, <1>2, <1>4, <1>5
<1>7. CASE e = k + 3
  <2>1. p # e
    BY <1>1, <1>7
  <2>2. Judge(p, e) # "blank"
    BY <2>1 DEF Judge
  <2>3. e - 1 = k + 2
    BY <1>1, <1>7
  <2> QED BY <1>3, <1>7, <2>2, <2>3
<1> QED BY <1>6, <1>7

\* The steps of a sink leave the verifier what it has.
LEMMA SinkKeepsVerifier == ASSUME SinksInv, VerifierInv, NEW s \in Sinks, Sink(s) PROVE VerifierInv'
<1>1. UNCHANGED verifierVars /\ acked \subseteq acked'
  BY DEF Sink, Create, Write, LockExclusive, Append1, WriteFails, Unlock, UnlockFailed, Drop, Die
<1>2. CASE ~Reading
  BY <1>1, <1>2 DEF VerifierInv, Reading, verifierVars
<1>3. CASE Reading
  <2>1. file' = file
    BY <1>3 DEF SinksInv, Writing, Sink, Create, Write, LockExclusive, Append1, WriteFails,
                Unlock, UnlockFailed, Drop, Die
  <2> QED BY <1>1, <1>3, <2>1 DEF VerifierInv, Reading, verifierVars, LineStart, Stored
<1> QED BY <1>2, <1>3

\* The steps of the verifier keep VerifierInv.
LEMMA VerifierKeeps == ASSUME SinksInv, VerifierInv, Verifier PROVE VerifierInv'
<1>1. TypeOK /\ UNCHANGED <<file, acked>>
  BY DEF SinksInv, Verifier, VerifyLock, VerifyLine, VerifyEnd, sinkVars
<1>2. CASE VerifyLock
  <2>1. \A r \in due' : \E k \in 1..Len(file) : Stored(r, k) /\ 1 <= k
    BY <1>2 DEF VerifyLock, SinksInv
  <2> QED BY <1>1, <1>2, <2>1 DEF VerifyLock, VerifierInv, Reading, LineStart, Stored
<1>3. CASE VerifyEnd
  <2>1. due \subseteq verified
    <3>1. Len(file) \in Nat /\ pos > Len(file) /\ Reading /\ pos \in Nat
      BY <1>1, <1>3 DEF VerifyEnd, TypeOK, Reading
    <3> QED BY <3>1 DEF VerifierInv
  <2> QED BY <1>1, <1>3, <2>1 DEF VerifyEnd, VerifierInv, Reading
<1>4. CASE VerifyLine
  <2> DEFINE e == LineEnd(pos)
             j == Judge(pos, e)
  <2>1. /\ Reading /\ pos \in 1..Len(file) /\ file \in Seq(Pieces) /\ Len(file) \in Nat
        /\ outcome = "none"
    BY <1>1, <1>4 DEF VerifyLine, TypeOK, Reading, VerifierInv
  <2>2. /\ e \in pos..(Len(file) + 1)
        /\ e = Len(file) + 1 \/ file[e].part = "newline"
    BY <2>1, LineEndIsFirst
  <2>3. /\ pos' = e + 1 /\ due' = due
        /\ verified' = verified \cup (IF j = "accept" THEN {file[e - 1].rec} ELSE {})
        /\ IF j \in {"Config", "Tamper"} THEN vpc' = "idle" /\ outcome' = j
                                         ELSE UNCHANGED <<vpc, outcome>>
    BY <1>4 DEF VerifyLine
  <2>4. LineStart(pos)'
    <3>1. e + 1 \in 1..Len(file) => file[(e + 1) - 1].part = "newline"
      BY <2>1, <2>2
    <3> HIDE DEF e, j
    <3> QED BY <1>1, <2>3, <3>1 DEF LineStart
  <2>5. ASSUME NEW r \in due, j \notin {"Config", "Tamper"}
        PROVE  r \in verified' \/ \E k \in 1..Len(file) : Stored(r, k) /\ e + 1 <= k
    <3>1. CASE r \in verified
      BY <2>3, <3>1
    <3>2. CASE r \notin verified
      <4>1. PICK k \in 1..Len(file) : Stored(r, k) /\ pos <= k
        BY <2>1, <3>2 DEF VerifierInv
      <4>2. \/ e < k
            \/ j # "blank" /\ (j = "accept" => file[e - 1].rec = r)
        BY <1>1, <2>1, <4>1, LineMeetsRecord
      <4>3. j \in {"blank", "Config", "accept", "Tamper"}
        BY DEF Judge
      <4>4. e < k => e + 1 <= k
        BY <2>1, <2>2
      <4> HIDE DEF e, j
      <4> QED BY <2>3, <2>5, <4>1, <4>2, <4>3, <4>4
    <3> QED BY <3>1, <3>2
  <2>6. outcome' # "Ok"
    BY <2>1, <2>3
  <2>7. Reading' => outcome' = "none" /\ j \notin {"Config", "Tamper"}
    BY <2>1, <2>3 DEF Reading
  <2> HIDE DEF e, j
  <2> QED BY <1>1, <2>3, <2>4, <2>5, <2>6, <2>7 DEF VerifierInv, Stored
<1> QED BY <1>2, <1>3, <1>4 DEF Verifier

\* verify_file: a run that ends well has accepted each record that was acknowledged
\* before it took the lock, whatever was torn before, between and after.
THEOREM OkCoversAckedHolds == Spec => []OkCoversAcked
<1>1. Init => VerifierInv
  BY DEF Init, VerifierInv, Reading
<1>2. SinksInv /\ VerifierInv /\ [Next]_vars => VerifierInv'
  <2> SUFFICES ASSUME SinksInv, VerifierInv, [Next]_vars PROVE VerifierInv'
    OBVIOUS
  <2>1. CASE UNCHANGED vars
    BY <2>1 DEF vars, sinkVars, verifierVars, VerifierInv, Reading, LineStart, Stored
  <2> QED BY <2>1, SinkKeepsVerifier, VerifierKeeps DEF Next
<1>3. VerifierInv => OkCoversAcked
  BY DEF VerifierInv, OkCoversAcked
<1> QED BY <1>1, <1>2, <1>3, SinksInvariant, PTL DEF Spec

-----------------------------------------------------------------------------
(* The file without the line in progress.                                    *)

Settled == IF \E s \in Sinks : pc[s] = "write"
           THEN Len(file) - part[CHOOSE s \in Sinks : pc[s] = "write"]
           ELSE Len(file)
Dirty   == Settled > 0 /\ file[Settled].part # "newline"

SettledFacts ==
    /\ \A s \in Sinks : pc[s] = "write" => Settled = Len(file) - part[s]
    /\ (\A s \in Sinks : pc[s] # "write") => Settled = Len(file)
    /\ Settled \in 0..Len(file) /\ Len(file) \in Nat

\* Where the line in progress begins.
LEMMA SettledIs == SinksInv => SettledFacts
<1> SUFFICES ASSUME SinksInv PROVE SettledFacts
  OBVIOUS
<1>1. Len(file) \in Nat /\ part \in [Sinks -> 0..4]
  BY DEF SinksInv, TypeOK
<1>2. ASSUME NEW s \in Sinks, pc[s] = "write"
      PROVE  Settled = Len(file) - part[s] /\ Settled \in 0..Len(file)
  <2>1. (CHOOSE t \in Sinks : pc[t] = "write") = s
    <3>1. \A t \in Sinks : pc[t] = "write" => t = s
      BY <1>2 DEF SinksInv, Writing
    <3> QED BY <1>2, <3>1
  <2>2. part[s] \in 0..4 /\ part[s] <= Len(file)
    BY <1>1, <1>2 DEF SinksInv, OwnPieces
  <2>3. Settled = Len(file) - part[CHOOSE t \in Sinks : pc[t] = "write"]
    BY <1>2 DEF Settled
  <2>4. Settled = Len(file) - part[s]
    BY <2>1, <2>3
  <2> QED BY <1>1, <2>2, <2>4
<1>3. (\A s \in Sinks : pc[s] # "write") => Settled = Len(file)
  BY DEF Settled
<1> QED BY <1>1, <1>2, <1>3 DEF SettledFacts

\* A line in progress becomes part of the settled file when its write ends.
Ends(s) == WriteFails(s) \/ Die(s) \/ Unlock(s)

\* It stays while a sink writes, and moves to the end of the file when the sink ends.
LEMMA SettledStep ==
    ASSUME SinksInv, NEW s \in Sinks, Sink(s)
    PROVE  /\ ~Ends(s) => Settled' = Settled
           /\ Ends(s) => /\ pc[s] = "write" /\ Settled = Len(file) - part[s]
                         /\ Settled' = Len(file) /\ file' = file
<1>1. SinksInv' /\ TypeOK /\ Len(LineParts) = 4
  BY SinkKeeps, FourParts DEF SinksInv
<1>2. /\ \A t \in Sinks : pc'[t] = "write" => Settled' = Len(file') - part'[t]
      /\ (\A t \in Sinks : pc'[t] # "write") => Settled' = Len(file')
  <2>1. SettledFacts'
    BY <1>1, SettledIs, PTL
  <2> QED BY <2>1 DEF SettledFacts
<1>3. CASE Ends(s)
  <2>1. pc[s] = "write" /\ file' = file /\ pc'[s] # "write"
        /\ \A t \in Sinks : t # s => pc'[t] = pc[t]
    BY <1>1, <1>3 DEF Ends, WriteFails, Die, Unlock, Goto, TypeOK
  <2>2. \A t \in Sinks : pc'[t] # "write"
    BY <2>1 DEF SinksInv, Writing
  <2> QED BY <1>2, <1>3, <2>1, <2>2, SettledIs DEF SettledFacts
<1>4. CASE Append1(s)
  <2>1. pc[s] = "write" /\ pc'[s] = "write" /\ part[s] \in 0..4 /\ part'[s] = part[s] + 1
    BY <1>1, <1>4 DEF Append1, TypeOK
  <2>2. Len(file') = Len(file) + 1 /\ Len(file) \in Nat
    BY <1>1, <1>4 DEF Append1, TypeOK
  <2> QED BY <1>2, <1>4, <2>1, <2>2, SettledIs DEF SettledFacts, Ends, WriteFails, Die, Unlock, Goto
<1>5. CASE LockExclusive(s)
  <2>1. /\ pc[s] = "lock" /\ part'[s] = 0 /\ pc'[s] = "write" /\ file' = file
        /\ \A t \in Sinks : pc[t] # "write"
    BY <1>1, <1>5 DEF LockExclusive, Goto, ExclusiveFree, Writing, SinksInv, TypeOK
  <2> QED BY <1>2, <2>1, SettledIs DEF SettledFacts, Ends, WriteFails, Die, Unlock, Goto
<1>6. CASE Create(s) \/ Write(s) \/ UnlockFailed(s) \/ Drop(s)
  <2>1. /\ pc[s] # "write" /\ pc'[s] # "write" /\ file' = file
        /\ \A t \in Sinks : t # s => pc'[t] = pc[t] /\ part'[t] = part[t]
    BY <1>1, <1>6 DEF Create, Write, UnlockFailed, Drop, Goto, TypeOK
  <2>2. CASE \E t \in Sinks : pc[t] = "write"
    BY <1>2, <2>1, <2>2, SettledIs DEF SettledFacts, Ends, WriteFails, Die, Unlock, Goto
  <2>3. CASE \A t \in Sinks : pc[t] # "write"
    BY <1>2, <2>1, <2>3, SettledIs DEF SettledFacts, Ends, WriteFails, Die, Unlock, Goto
  <2> QED BY <2>2, <2>3
<1> QED BY <1>3, <1>4, <1>5, <1>6 DEF Sink, Ends

\* What is settled stays as it is.
LEMMA SettledStays ==
    ASSUME SinksInv, NEW s \in Sinks, Sink(s)
    PROVE  /\ Len(file') \in Nat /\ Len(file') >= Len(file)
           /\ \A k \in 1..Len(file) : file'[k] = file[k]
           /\ \A r \in Records, k \in 1..Len(file) : Stored(r, k) => Stored(r, k)'
<1>1. TypeOK /\ Len(file) \in Nat /\ SinksInv'
  BY SinkKeeps DEF SinksInv, TypeOK
<1>2. CASE Append1(s)
  <2>1. [rec |-> rec[s], part |-> LineParts[part[s] + 1]] \in Pieces
    <3>1. pc[s] = "write" /\ part[s] < 4 /\ part[s] \in 0..4
      BY <1>1, <1>2, FourParts DEF Append1, TypeOK
    <3>2. rec[s] \in Records /\ part[s] + 1 \in 1..4
      BY <3>1 DEF SinksInv
    <3>3. \A i \in 1..4 : LineParts[i] \in {"open", "body", "mac", "newline"}
      BY FourParts
    <3> QED BY <3>2, <3>3 DEF Pieces
  <2> QED BY <1>1, <1>2, <2>1, AppendKeeps DEF Append1
<1>3. CASE ~Append1(s)
  <2>1. file' = file
    BY <1>3 DEF Sink, Create, Write, LockExclusive, WriteFails, Unlock, UnlockFailed, Drop, Die
  <2> QED BY <1>1, <2>1 DEF Stored
<1> QED BY <1>2, <1>3

\* A record that is complete stands at the end, behind what was settled.
LEMMA EndsStored ==
    ASSUME SinksInv, NEW s \in Sinks, pc[s] = "write", part[s] = 4
    PROVE  /\ Settled + 4 = Len(file) /\ Stored(rec[s], Settled + 1)
           /\ file[Len(file)].part = "newline"
<1>1. Settled = Len(file) - 4 /\ Len(file) \in Nat /\ Settled \in 0..Len(file)
  BY SettledIs DEF SettledFacts
<1>2. \A i \in 1..4 : file[Len(file) - 4 + i] = [rec |-> rec[s], part |-> LineParts[i]]
  BY DEF SinksInv, OwnPieces
<1>3. /\ Len(file) - 4 + 1 = Settled + 1 /\ Len(file) - 4 + 2 = (Settled + 1) + 1
      /\ Len(file) - 4 + 3 = (Settled + 1) + 2 /\ Len(file) - 4 + 4 = (Settled + 1) + 3
      /\ (Settled + 1) + 3 = Len(file)
  BY <1>1
<1>4. Stored(rec[s], Settled + 1)
  BY <1>1, <1>2, <1>3, FourParts DEF Stored
<1> QED BY <1>1, <1>3, <1>4 DEF Stored

-----------------------------------------------------------------------------
(* A log without a tear.                                                     *)

\* Each line up to n is one record.
WholeUpTo(n) ==
    \A p \in 1..n : p = 1 \/ file[p - 1].part = "newline" =>
        p + 3 <= n /\ Stored(file[p].rec, p)

CleanInv == tears = 0 => /\ WholeUpTo(Settled) /\ ~Dirty
                         /\ outcome \notin {"Config", "Tamper"}

\* A record that is stored is read to the end of its line, and accepted.
LEMMA StoredIsAccepted ==
    ASSUME TypeOK, NEW p \in 1..Len(file), NEW r, Stored(r, p)
    PROVE  LineEnd(p) = p + 3 /\ Judge(p, LineEnd(p)) = "accept"
<1>1. Len(file) \in Nat /\ p \in Nat /\ file \in Seq(Pieces)
  BY DEF TypeOK
<1>2. LineEnd(p) = p + 3
  <2>1. LineEnd(p) < p \/ LineEnd(p) = p + 3
    BY <1>1, LineMeetsRecord
  <2>2. LineEnd(p) \in p..(Len(file) + 1)
    BY <1>1, LineEndIsFirst
  <2> QED BY <1>1, <2>1, <2>2
<1>3. /\ file[p] = [rec |-> r, part |-> "open"] /\ file[p + 1] = [rec |-> r, part |-> "body"]
      /\ file[p + 2] = [rec |-> r, part |-> "mac"]
  BY DEF Stored
<1>4. /\ (p + 3) - 1 = p + 2 /\ (p + 3) - 2 = p + 1 /\ (p + 3) - p = 3 /\ p # p + 3
      /\ \A k \in p..(p + 1) : k = p \/ k = p + 1
  BY <1>1
<1>5. \A k \in p..(p + 1) : file[k].part # "mac"
  BY <1>3, <1>4
<1>6. Judge(p, p + 3) = "accept"
  BY <1>3, <1>4, <1>5 DEF Judge
<1> QED BY <1>2, <1>6

\* The steps of a sink keep CleanInv.
LEMMA SinkKeepsClean == ASSUME SinksInv, CleanInv, NEW s \in Sinks, Sink(s) PROVE CleanInv'
<1>1. TypeOK /\ Settled \in 0..Len(file) /\ Len(file) \in Nat /\ Len(LineParts) = 4
  BY SettledIs, FourParts DEF SettledFacts, SinksInv
<1>2. outcome' = outcome /\ tears \in Nat /\ (tears' = 0 => tears = 0)
  BY <1>1, MaxAssumption DEF Sink, Create, Write, LockExclusive, Append1, WriteFails, Unlock, UnlockFailed,
                Drop, Die, CountTear, TypeOK, verifierVars
<1>3. SUFFICES ASSUME tears = 0, tears' = 0
               PROVE  WholeUpTo(Settled)' /\ ~Dirty'
  BY <1>2 DEF CleanInv
<1>4. WholeUpTo(Settled) /\ ~Dirty
  BY <1>3 DEF CleanInv
<1>5. CASE Settled' = Settled
  <2>1. ~Dirty'
    BY <1>1, <1>4, <1>5, SettledStays DEF Dirty
  <2>2. ASSUME NEW p \in 1..Settled, p = 1 \/ file'[p - 1].part = "newline"
        PROVE  p + 3 <= Settled /\ Stored(file[p].rec, p)'
    <3>1. p \in 1..Len(file) /\ (p # 1 => p - 1 \in 1..Len(file))
      BY <1>1
    <3>2. p + 3 <= Settled /\ Stored(file[p].rec, p)
      BY <1>4, <2>2, <3>1, SettledStays DEF WholeUpTo
    <3>3. file[p].rec \in Records /\ file'[p] = file[p]
      <4>1. file'[p] = file[p]
        BY <3>1, SettledStays
      <4>2. file[p] \in Pieces
        BY <1>1, <3>1 DEF TypeOK
      <4> QED BY <4>1, <4>2 DEF Pieces
    <3>4. \A r \in Records : Stored(r, p) => Stored(r, p)'
      BY <3>1, SettledStays
    <3> QED BY <3>2, <3>3, <3>4 DEF Stored
  <2> QED BY <1>5, <2>1, <2>2 DEF WholeUpTo
<1>6. CASE Settled' # Settled
  <2>1. /\ Ends(s) /\ pc[s] = "write" /\ Settled = Len(file) - part[s]
        /\ Settled' = Len(file) /\ file' = file /\ part[s] \in 0..4
    BY <1>1, <1>6, SettledStep DEF TypeOK
  <2>2. part[s] = 4
    BY <1>1, <1>3, <1>6, <2>1 DEF Ends, WriteFails, Die, Unlock, CountTear, Torn
  <2>3. /\ Settled + 4 = Len(file) /\ Stored(rec[s], Settled + 1)
        /\ file[Len(file)].part = "newline"
    BY <2>1, <2>2, EndsStored
  <2>4. ASSUME NEW p \in 1..Len(file), p = 1 \/ file[p - 1].part = "newline"
        PROVE  p + 3 <= Len(file) /\ Stored(file[p].rec, p)
    <3>1. CASE p \in 1..Settled
      BY <1>1, <1>4, <2>3, <2>4, <3>1 DEF WholeUpTo
    <3>2. CASE p = Settled + 1
      BY <1>1, <2>3, <3>2 DEF Stored
    <3>3. CASE p \in (Settled + 2)..(Settled + 4)
      <4>1. p # 1 /\ p - 1 \in {Settled + 1, (Settled + 1) + 1, (Settled + 1) + 2}
        BY <1>1, <3>3
      <4> QED BY <2>3, <2>4, <4>1 DEF Stored
    <3> QED BY <1>1, <2>3, <3>1, <3>2, <3>3
  <2>5. WholeUpTo(Settled)'
    BY <2>1, <2>4 DEF WholeUpTo, Stored
  <2> QED BY <2>1, <2>3, <2>5 DEF Dirty
<1> QED BY <1>5, <1>6

\* The steps of the verifier keep CleanInv.
LEMMA VerifierKeepsClean ==
    ASSUME SinksInv, VerifierInv, CleanInv, Verifier PROVE CleanInv'
<1>1. TypeOK /\ UNCHANGED <<file, pc, part, tears>>
  BY DEF SinksInv, Verifier, VerifyLock, VerifyLine, VerifyEnd, sinkVars
<1>2. UNCHANGED <<Settled, Dirty, WholeUpTo(Settled)>>
  BY <1>1 DEF Settled, Dirty, WholeUpTo, Stored
<1>3. ASSUME tears = 0, outcome' \in {"Config", "Tamper"} PROVE FALSE
  <2>1. CASE VerifyLine /\ outcome' # outcome
    <3>1. /\ Reading /\ pos \in 1..Len(file)
          /\ Judge(pos, LineEnd(pos)) \in {"Config", "Tamper"}
      BY <1>1, <2>1 DEF VerifyLine, Reading, TypeOK
    <3>2. Settled = Len(file)
      BY <3>1, SettledIs DEF SettledFacts, SinksInv, Writing
    <3>3. pos = 1 \/ file[pos - 1].part = "newline"
      BY <3>1 DEF VerifierInv, LineStart
    <3>4. Stored(file[pos].rec, pos)
      BY <1>3, <3>1, <3>2, <3>3 DEF CleanInv, WholeUpTo
    <3>5. Judge(pos, LineEnd(pos)) = "accept"
      BY <1>1, <3>1, <3>4, StoredIsAccepted
    <3> QED BY <3>1, <3>5
  <2>2. CASE VerifyLock \/ VerifyEnd \/ outcome' = outcome
    BY <1>3, <2>2 DEF VerifyLock, VerifyEnd, CleanInv
  <2> QED BY <2>1, <2>2 DEF Verifier
<1> QED BY <1>1, <1>2, <1>3 DEF CleanInv

\* write, verify_file: with the locks, only a write that stopped half way makes a
\* verifier find damage, however many sinks and verifiers there are.
THEOREM DamageMeansTearHolds == Spec => []DamageMeansTear
<1>1. Init => CleanInv
  BY DEF Init, CleanInv, Settled, Dirty, WholeUpTo
<1>2. Init => VerifierInv
  BY DEF Init, VerifierInv, Reading
<1>3. SinksInv /\ VerifierInv /\ CleanInv /\ [Next]_vars => VerifierInv' /\ CleanInv'
  <2> SUFFICES ASSUME SinksInv, VerifierInv, CleanInv, [Next]_vars
               PROVE  VerifierInv' /\ CleanInv'
    OBVIOUS
  <2>1. CASE UNCHANGED vars
    <3>1. UNCHANGED <<file, pc, part, tears, outcome>>
      BY <2>1 DEF vars, sinkVars, verifierVars
    <3>2. CleanInv'
      BY <3>1 DEF CleanInv, Settled, Dirty, WholeUpTo, Stored
    <3>3. VerifierInv'
      BY <2>1 DEF vars, sinkVars, verifierVars, VerifierInv, Reading, LineStart, Stored
    <3> QED BY <3>2, <3>3
  <2> QED BY <2>1, SinkKeepsVerifier, VerifierKeeps, SinkKeepsClean, VerifierKeepsClean DEF Next
<1>4. SinksInv /\ CleanInv => DamageMeansTear
  BY MaxAssumption DEF SinksInv, TypeOK, CleanInv, DamageMeansTear
<1> QED BY <1>1, <1>2, <1>3, <1>4, SinksInvariant, PTL DEF Spec

-----------------------------------------------------------------------------
(* What a torn write costs.                                                  *)

\* Record r has a line of its own.
Kept(r) == \E k \in 1..Len(file) : Stored(r, k) /\ (k = 1 \/ file[k - 1].part = "newline")
Lost    == {r \in acked : ~Kept(r)}

\* A tear is paid for when it leaves the file dirty, or when it has cost a record.
TearsInv == Cardinality(Lost) + (IF Dirty THEN 1 ELSE 0) <= tears

\* The records lost can be counted.
LEMMA LostIsFinite ==
    ASSUME TypeOK PROVE IsFiniteSet(Lost) /\ Cardinality(Lost) \in Nat
<1>1. IsFiniteSet(Records)
  BY MaxAssumption, FS_Interval DEF Records
<1>2. Lost \in SUBSET Records
  BY DEF Lost, TypeOK
<1> QED BY <1>1, <1>2, FS_Subset, FS_CardinalityType

\* A record that is stored on a line of its own is intact.
LEMMA KeptIsIntact == ASSUME TypeOK, NEW r \in acked, Kept(r) PROVE Intact(r)
<1>1. PICK k \in 1..Len(file) : Stored(r, k) /\ (k = 1 \/ file[k - 1].part = "newline")
  BY DEF Kept
<1>2. k \in LineStarts
  BY <1>1 DEF LineStarts
<1>3. Judge(k, LineEnd(k)) = "accept" /\ file[k].rec = r
  BY <1>1, StoredIsAccepted DEF Stored
<1> QED BY <1>2, <1>3 DEF Intact

\* It stays so whatever a sink writes.
LEMMA KeptStays ==
    ASSUME SinksInv, NEW s \in Sinks, Sink(s), NEW r \in Records, Kept(r)
    PROVE  Kept(r)'
<1>1. PICK k \in 1..Len(file) : Stored(r, k) /\ (k = 1 \/ file[k - 1].part = "newline")
  BY DEF Kept
<1>2. /\ Len(file) \in Nat /\ Len(file') \in Nat /\ Len(file') >= Len(file)
      /\ \A i \in 1..Len(file) : file'[i] = file[i]
      /\ Stored(r, k)'
  BY <1>1, SettledStays DEF SinksInv, TypeOK
<1>3. k \in 1..Len(file') /\ (k = 1 \/ file'[k - 1].part = "newline")
  <2>1. k # 1 => k - 1 \in 1..Len(file)
    BY <1>2
  <2> QED BY <1>1, <1>2, <2>1
<1> QED BY <1>2, <1>3 DEF Kept

\* The records lost grow by at most the one that is acknowledged.
LEMMA LostGrows ==
    ASSUME SinksInv, NEW s \in Sinks, Sink(s)
    PROVE  /\ ~Unlock(s) => Cardinality(Lost') <= Cardinality(Lost)
           /\ Unlock(s) => Cardinality(Lost') <= Cardinality(Lost) + 1
           /\ Unlock(s) /\ Kept(rec[s]) => Cardinality(Lost') <= Cardinality(Lost)
           /\ Cardinality(Lost) \in Nat /\ Cardinality(Lost') \in Nat
<1>1. /\ TypeOK /\ IsFiniteSet(Lost) /\ Cardinality(Lost) \in Nat
      /\ SinksInv' /\ acked \subseteq Records
  BY LostIsFinite, SinkKeeps DEF SinksInv, TypeOK
<1>2. acked' = IF Unlock(s) THEN acked \cup {rec[s]} ELSE acked
  BY DEF Sink, Create, Write, LockExclusive, Append1, WriteFails, Unlock, UnlockFailed, Drop, Die
<1>3. Lost' \subseteq IF Unlock(s) /\ ~Kept(rec[s]) THEN Lost \cup {rec[s]} ELSE Lost
  <2>1. \A r \in Records : Kept(r) => Kept(r)'
    BY KeptStays
  <2>2. Unlock(s) => rec[s] \in Records
    BY DEF Unlock, Goto, SinksInv
  <2> QED BY <1>1, <1>2, <2>1, <2>2 DEF Lost
<1>4. /\ IsFiniteSet(Lost \cup {rec[s]}) /\ Cardinality(Lost \cup {rec[s]}) \in Nat
      /\ Cardinality(Lost \cup {rec[s]}) <= Cardinality(Lost) + 1
  BY <1>1, FS_AddElement, FS_CardinalityType
<1>5. CASE Unlock(s) /\ ~Kept(rec[s])
  <2>1. IsFiniteSet(Lost') /\ Cardinality(Lost') <= Cardinality(Lost \cup {rec[s]})
    BY <1>3, <1>4, <1>5, FS_Subset
  <2>2. Cardinality(Lost') \in Nat
    BY <2>1, FS_CardinalityType
  <2> QED BY <1>1, <1>4, <1>5, <2>1, <2>2
<1>6. CASE ~(Unlock(s) /\ ~Kept(rec[s]))
  <2>1. IsFiniteSet(Lost') /\ Cardinality(Lost') <= Cardinality(Lost)
    BY <1>1, <1>3, <1>6, FS_Subset
  <2>2. Cardinality(Lost') \in Nat
    BY <2>1, FS_CardinalityType
  <2> QED BY <1>1, <1>6, <2>1, <2>2
<1> QED BY <1>5, <1>6

\* The steps of a sink keep TearsInv.
LEMMA SinkKeepsTears == ASSUME SinksInv, TearsInv, NEW s \in Sinks, Sink(s) PROVE TearsInv'
<1>1. /\ TypeOK /\ Settled \in 0..Len(file) /\ Len(file) \in Nat /\ Len(LineParts) = 4
      /\ tears \in Nat /\ part[s] \in 0..4
  BY SettledIs, FourParts, MaxAssumption DEF SettledFacts, SinksInv, TypeOK
<1>2. tears' \in {tears, tears + 1}
  BY <1>1 DEF Sink, Create, Write, LockExclusive, Append1, WriteFails, Unlock, UnlockFailed,
              Drop, Die, CountTear
<1>3. CASE ~Ends(s)
  <2>1. Dirty' <=> Dirty
    BY <1>1, <1>3, SettledStep, SettledStays DEF Dirty
  <2> QED BY <1>1, <1>2, <1>3, <2>1, LostGrows DEF TearsInv, Ends
<1>4. CASE Ends(s)
  <2>1. /\ pc[s] = "write" /\ Settled = Len(file) - part[s]
        /\ Settled' = Len(file) /\ file' = file
    BY <1>4, SettledStep
  <2>2. CASE part[s] = 4
    <3>1. /\ Settled + 4 = Len(file) /\ Stored(rec[s], Settled + 1)
          /\ file[Len(file)].part = "newline"
      BY <2>1, <2>2, EndsStored
    <3>2. ~Dirty'
      BY <2>1, <3>1 DEF Dirty
    <3>3. ~Dirty => Kept(rec[s])
      <4>1. Settled + 1 \in 1..Len(file) /\ (Settled + 1) - 1 = Settled
        BY <1>1, <3>1
      <4>2. ~Dirty => Settled + 1 = 1 \/ file[(Settled + 1) - 1].part = "newline"
        BY <1>1, <4>1 DEF Dirty
      <4> QED BY <3>1, <4>1, <4>2 DEF Kept
    <3> QED BY <1>1, <1>2, <3>2, <3>3, LostGrows DEF TearsInv
  <2>3. CASE part[s] # 4
    <3>1. ~Unlock(s)
      BY <1>1, <2>3 DEF Unlock
    <3>2. CASE part[s] = 0
      <4>1. Dirty' <=> Dirty
        BY <1>1, <2>1, <3>2 DEF Dirty
      <4> QED BY <1>1, <1>2, <3>1, <4>1, LostGrows DEF TearsInv
    <3>3. CASE part[s] # 0
      <4>1. tears' = tears + 1
        BY <1>1, <1>4, <2>3, <3>1, <3>3 DEF Ends, WriteFails, Die, CountTear, Torn
      <4> QED BY <1>1, <3>1, <4>1, LostGrows DEF TearsInv
    <3> QED BY <3>2, <3>3
  <2> QED BY <2>2, <2>3
<1> QED BY <1>3, <1>4

\* write, append mode: one torn write costs at most the one acknowledged record that
\* follows it on its line, for any number of sinks, records and tears.
THEOREM DamageIsContainedHolds == Spec => []DamageIsContained
<1>1. Init => TearsInv
  <2> SUFFICES ASSUME Init PROVE TearsInv
    OBVIOUS
  <2>1. Lost = {} /\ ~Dirty /\ tears = 0
    BY DEF Init, Lost, Dirty, Settled
  <2> QED BY <2>1, FS_EmptySet DEF TearsInv
<1>2. SinksInv /\ TearsInv /\ [Next]_vars => TearsInv'
  <2> SUFFICES ASSUME SinksInv, TearsInv, [Next]_vars PROVE TearsInv'
    OBVIOUS
  <2>1. CASE UNCHANGED vars \/ Verifier
    <3>1. UNCHANGED <<file, pc, part, tears, acked>>
      BY <2>1 DEF vars, sinkVars, Verifier, VerifyLock, VerifyLine, VerifyEnd
    <3> QED BY <3>1 DEF TearsInv, Lost, Kept, Dirty, Settled, Stored
  <2> QED BY <2>1, SinkKeepsTears DEF Next
<1>3. SinksInv /\ TearsInv => DamageIsContained
  <2> SUFFICES ASSUME SinksInv, TearsInv PROVE DamageIsContained
    OBVIOUS
  <2> DEFINE broken == {r \in acked : ~Intact(r)}
  <2>1. TypeOK /\ IsFiniteSet(Lost) /\ Cardinality(Lost) \in Nat /\ tears \in Nat
    BY LostIsFinite, MaxAssumption DEF SinksInv, TypeOK
  <2>2. broken \in SUBSET Lost
    BY <2>1, KeptIsIntact DEF Lost
  <2>3. IsFiniteSet(broken) /\ Cardinality(broken) <= Cardinality(Lost)
    BY <2>1, <2>2, FS_Subset
  <2>4. Cardinality(broken) \in Nat
    BY <2>3, FS_CardinalityType
  <2>5. Cardinality(Lost) <= tears
    BY <2>1 DEF TearsInv
  <2> HIDE DEF broken
  <2>6. Cardinality(broken) <= tears
    BY <2>1, <2>3, <2>4, <2>5
  <2> QED BY <2>6 DEF DamageIsContained, broken
<1> QED BY <1>1, <1>2, <1>3, SinksInvariant, PTL DEF Spec
=============================================================================
