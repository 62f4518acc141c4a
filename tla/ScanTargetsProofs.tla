-------------------------- MODULE ScanTargetsProofs ---------------------------
(***************************************************************************)
(* Proofs about ScanTargets, for every disk and every environment: what a  *)
(* preset is about is scanned, and the walk stays below its roots.  They   *)
(* need what a real path is, for paths of any length.                      *)
(***************************************************************************)
EXTENDS ScanTargets, SequenceTheorems, WellFoundedInduction, TLAPS

-----------------------------------------------------------------------------
(* Numbers.  A set of numbers stands for what is shown by induction. *)

\* A set of numbers that is not empty has a least one.
LEMMA LeastNat ==
    ASSUME NEW S \in SUBSET Nat, S # {}
    PROVE  \E x \in S : \A y \in S : x <= y
<1> DEFINE R == {ss \in Nat \X Nat : ss[1] < ss[2]}
<1>1. IsWellFoundedOn(R, Nat)
  BY NatLessThanWellFounded DEF OpToRel
<1>2. \A x, y \in Nat : <<y, x>> \in R <=> y < x
  OBVIOUS
<1> HIDE DEF R
<1>3. PICK x \in S : \A y \in S : ~ (<<y, x>> \in R)
  BY <1>1, WFMin
<1>4. ASSUME NEW y \in S PROVE x <= y
  <2>1. x \in Nat /\ y \in Nat
    OBVIOUS
  <2>2. ~ (y < x)
    BY <1>2, <1>3, <2>1
  <2> QED BY <2>1, <2>2
<1> QED BY <1>4

\* What holds of 0, and of the successor of each number it holds of, holds of all.
LEMMA Induction ==
    ASSUME NEW S, 0 \in S, \A n \in Nat : n \in S => n + 1 \in S
    PROVE  Nat \subseteq S
<1> SUFFICES ASSUME Nat \ S # {} PROVE FALSE
  OBVIOUS
<1>1. PICK x \in Nat \ S : \A y \in Nat \ S : x <= y
  <2> DEFINE T == Nat \ S
  <2>1. T \in SUBSET Nat /\ T # {}
    OBVIOUS
  <2> HIDE DEF T
  <2>2. \E x \in T : \A y \in T : x <= y
    BY <2>1, LeastNat
  <2> QED BY <2>2 DEF T
<1>2. x # 0 /\ x - 1 \in Nat /\ x - 1 \notin Nat \ S
  BY <1>1
<1>3. (x - 1) + 1 \in S
  BY <1>2
<1> QED BY <1>1, <1>3

-----------------------------------------------------------------------------
(* Sequences. *)

\* A sequence with one more element: its length, its elements, its front and its last.
LEMMA AppendIs ==
    ASSUME NEW S, NEW p \in Seq(S), NEW x \in S
    PROVE  /\ Append(p, x) \in Seq(S) \ {<<>>}
           /\ Len(p) \in Nat /\ Len(Append(p, x)) = Len(p) + 1
           /\ Append(p, x)[Len(p) + 1] = x
           /\ \A i \in 1..Len(p) : p[i] = Append(p, x)[i]
           /\ Front(Append(p, x)) = p /\ Last(Append(p, x)) = x
<1> DEFINE q == Append(p, x)
<1>1. /\ q \in Seq(S) \ {<<>>} /\ Len(p) \in Nat /\ Len(q) = Len(p) + 1 /\ q[Len(p) + 1] = x
      /\ \A i \in 1..Len(p) : q[i] = p[i]
  BY AppendProperties, LenProperties
<1> HIDE DEF q
<1>2. Last(q) = x
  BY <1>1 DEF Last
<1>3. Front(q) = p
  <2>1. Front(q) = SubSeq(q, 1, Len(p))
    BY <1>1 DEF Front
  <2>2. \A i \in 1..Len(p) : q[i] \in S
    BY <1>1, ElementOfSeq
  <2>3. /\ SubSeq(q, 1, Len(p)) \in Seq(S) /\ Len(SubSeq(q, 1, Len(p))) = Len(p)
        /\ \A i \in 1..Len(p) : SubSeq(q, 1, Len(p))[i] = q[i]
    BY <1>1, <2>2, SubSeqProperties
  <2> QED BY <1>1, <2>1, <2>3, SeqEqual
<1> QED BY <1>1, <1>2, <1>3 DEF q

\* A sequence that is not empty is its front and its last element.
LEMMA FrontLast ==
    ASSUME NEW S, NEW p \in Seq(S), p # <<>>
    PROVE  Front(p) \in Seq(S) /\ Last(p) \in S /\ p = Append(Front(p), Last(p))
<1>1. PICK q \in Seq(S), x \in S : p = Append(q, x)
  BY SequenceEmptyOrAppend
<1> QED BY <1>1, AppendIs

\* The beginnings of a sequence, one from the next.
LEMMA Beginnings ==
    ASSUME NEW S, NEW p \in Seq(S), NEW m \in 0..Len(p)
    PROVE  /\ SubSeq(p, 1, m) \in Seq(S) /\ Len(SubSeq(p, 1, m)) = m
           /\ m < Len(p) => /\ p[m + 1] \in S
                            /\ SubSeq(p, 1, m + 1) = Append(SubSeq(p, 1, m), p[m + 1])
                            /\ SubSeq(p, 1, m + 1) \in Seq(S) \ {<<>>}
                            /\ Len(SubSeq(p, 1, m + 1)) = m + 1
                            /\ Front(SubSeq(p, 1, m + 1)) = SubSeq(p, 1, m)
                            /\ Last(SubSeq(p, 1, m + 1)) = p[m + 1]
<1>1. Len(p) \in Nat /\ m \in Nat /\ \A i \in 1..Len(p) : p[i] \in S
  BY LenProperties, ElementOfSeq
<1>2. SubSeq(p, 1, m) \in Seq(S) /\ Len(SubSeq(p, 1, m)) = m
  BY <1>1, SubSeqProperties
<1>3. ASSUME m < Len(p)
      PROVE  /\ p[m + 1] \in S
             /\ SubSeq(p, 1, m + 1) = Append(SubSeq(p, 1, m), p[m + 1])
             /\ SubSeq(p, 1, m + 1) \in Seq(S) \ {<<>>}
             /\ Len(SubSeq(p, 1, m + 1)) = m + 1
             /\ Front(SubSeq(p, 1, m + 1)) = SubSeq(p, 1, m)
             /\ Last(SubSeq(p, 1, m + 1)) = p[m + 1]
  <2>1. 1 \in 1..Len(p) /\ m + 1 \in 1..Len(p) /\ (m + 1) - 1 = m
    BY <1>1, <1>3
  <2>2. p[m + 1] \in S
    BY <1>1, <2>1
  <2>3. SubSeq(p, 1, m + 1) = SubSeq(p, 1, m) \o <<p[m + 1]>>
    BY <2>1, SubSeqRecursiveSecond
  <2> DEFINE b == SubSeq(p, 1, m)
             c == SubSeq(p, 1, m + 1)
             x == p[m + 1]
  <2>4. c = Append(b, x)
    BY <1>2, <2>2, <2>3, AppendIsConcat
  <2>5. b \in Seq(S) /\ Len(b) = m /\ x \in S
    BY <1>2, <2>2
  <2> HIDE DEF b, c, x
  <2>6. c \in Seq(S) \ {<<>>} /\ Len(c) = m + 1 /\ Front(c) = b /\ Last(c) = x
    BY <2>4, <2>5, AppendIs
  <2> QED BY <2>4, <2>5, <2>6 DEF b, c, x
<1> QED BY <1>2, <1>3

\* One more element changes no beginning of a sequence.
LEMMA BeginningOfAppend ==
    ASSUME NEW S, NEW p \in Seq(S), NEW x \in S, NEW m \in 0..Len(p)
    PROVE  SubSeq(Append(p, x), 1, m) = SubSeq(p, 1, m)
<1> DEFINE q == Append(p, x)
<1>1. /\ q \in Seq(S) /\ Len(p) \in Nat /\ Len(q) = Len(p) + 1
      /\ \A i \in 1..Len(p) : q[i] = p[i]
  BY AppendIs
<1> HIDE DEF q
<1>2. m \in 0..Len(q) /\ m \in Nat /\ \A i \in 1..m : p[i] \in S /\ q[i] = p[i]
  BY <1>1, ElementOfSeq
<1>3. /\ SubSeq(p, 1, m) \in Seq(S) /\ Len(SubSeq(p, 1, m)) = m
      /\ \A i \in 1..m : SubSeq(p, 1, m)[i] = p[i]
  BY <1>2, SubSeqProperties
<1>4. /\ SubSeq(q, 1, m) \in Seq(S) /\ Len(SubSeq(q, 1, m)) = m
      /\ \A i \in 1..m : SubSeq(q, 1, m)[i] = q[i]
  BY <1>2, SubSeqProperties
<1>5. SubSeq(q, 1, m) = SubSeq(p, 1, m)
  BY <1>2, <1>3, <1>4, SeqEqual
<1> QED BY <1>5 DEF q

\* Appending to a concatenation is appending to its second part.
LEMMA AppendToConcat ==
    ASSUME NEW S, NEW p \in Seq(S), NEW q \in Seq(S), NEW x \in S
    PROVE  p \o Append(q, x) = Append(p \o q, x)
<1>1. <<x>> \in Seq(S) /\ p \o q \in Seq(S)
  BY ConcatProperties
<1>2. Append(q, x) = q \o <<x>> /\ Append(p \o q, x) = (p \o q) \o <<x>>
  BY <1>1, AppendIsConcat
<1> QED BY <1>1, <1>2, ConcatAssociative

\* Two sequences that end one beginning the same way are equal.
LEMMA CancelLeft ==
    ASSUME NEW S, NEW p \in Seq(S), NEW q \in Seq(S), NEW r \in Seq(S), p \o q = p \o r
    PROVE  q = r
BY ConcatSimplifications

\* What is between a beginning t of f and the m-th name of f.
Rest(t, f, m) == SubSeq(f, Len(t) + 1, m)

\* The rest after a beginning: it is a sequence, completes the beginning, and grows by one name.
LEMMA RestIs ==
    ASSUME NEW S, NEW t \in Seq(S), NEW f \in Seq(S), IsPrefix(t, f), NEW m \in Len(t)..Len(f)
    PROVE  /\ Rest(t, f, m) \in Seq(S)
           /\ t \o Rest(t, f, m) = SubSeq(f, 1, m)
           /\ m = Len(t) => Rest(t, f, m) = <<>>
           /\ m < Len(f) => Rest(t, f, m + 1) = Append(Rest(t, f, m), f[m + 1])
<1>1. Len(t) \in Nat /\ Len(f) \in Nat /\ \A i \in 1..Len(f) : f[i] \in S
  BY LenProperties, ElementOfSeq
<1>2. Rest(t, f, m) \in Seq(S)
  <2>1. \A i \in (Len(t) + 1)..m : f[i] \in S
    BY <1>1
  <2> QED BY <1>1, <2>1, SubSeqProperties DEF Rest
<1>3. t \o Rest(t, f, m) = SubSeq(f, 1, m)
  <2>1. SubSeq(f, 1, Len(t)) = t
    BY SubSeqFull DEF IsPrefix
  <2>2. 1 \in 1..(Len(f) + 1) /\ Len(t) \in (1 - 1)..Len(f)
    BY <1>1
  <2>3. SubSeq(f, 1, Len(t)) \o SubSeq(f, Len(t) + 1, m) = SubSeq(f, 1, m)
    BY <2>2, ConcatAdjacentSubSeq
  <2> QED BY <2>1, <2>3 DEF Rest
<1>4. m = Len(t) => Rest(t, f, m) = <<>>
  BY <1>1, SubSeqEmpty DEF Rest
<1>5. ASSUME m < Len(f) PROVE Rest(t, f, m + 1) = Append(Rest(t, f, m), f[m + 1])
  <2>1. /\ Len(t) + 1 \in 1..Len(f) /\ m + 1 \in (Len(t) + 1)..Len(f)
        /\ (m + 1) - 1 = m /\ f[m + 1] \in S
    BY <1>1, <1>5
  <2>2. SubSeq(f, Len(t) + 1, m + 1) = SubSeq(f, Len(t) + 1, m) \o <<f[m + 1]>>
    BY <2>1, SubSeqRecursiveSecond
  <2> QED BY <1>2, <2>1, <2>2, AppendIsConcat DEF Rest
<1> QED BY <1>2, <1>3, <1>4, <1>5

-----------------------------------------------------------------------------
(* Real paths. *)

\* The function that Real reads its value from is one.
RealTo(path, n) == CHOOSE real : real = [i \in 0..n |->
                                            IF i = 0 THEN <<>> ELSE Follow(real[i - 1], path[i])]

\* The function RealTo chooses exists, as each of its values is given by the one before.
LEMMA RealToIsDefined ==
    ASSUME NEW path, NEW n \in Nat
    PROVE  RealTo(path, n) = [i \in 0..n |-> IF i = 0 THEN <<>>
                                             ELSE Follow(RealTo(path, n)[i - 1], path[i])]
<1> DEFINE Is(g, k) == g = [i \in 0..k |-> IF i = 0 THEN <<>> ELSE Follow(g[i - 1], path[i])]
           S == {k \in Nat : \E g : Is(g, k)}
<1>1. 0 \in S
  <2>1. Is([i \in 0..0 |-> <<>>], 0)
    OBVIOUS
  <2> QED BY <2>1
<1>2. ASSUME NEW k \in Nat, k \in S PROVE k + 1 \in S
  <2>1. PICK g : Is(g, k)
    BY <1>2
  <2> DEFINE h == [i \in 0..(k + 1) |-> IF i <= k THEN g[i] ELSE Follow(g[k], path[k + 1])]
  <2>2. \A i \in 0..(k + 1) : h[i] = IF i = 0 THEN <<>> ELSE Follow(h[i - 1], path[i])
    <3> SUFFICES ASSUME NEW i \in 0..(k + 1) PROVE h[i] = IF i = 0 THEN <<>> ELSE Follow(h[i - 1], path[i])
      OBVIOUS
    <3>1. CASE i = k + 1
      <4>1. h[i] = Follow(g[k], path[k + 1]) /\ h[i - 1] = g[k]
        BY <3>1
      <4> QED BY <3>1, <4>1
    <3>2. CASE i # k + 1
      <4>1. i \in 0..k /\ h[i] = g[i] /\ (i # 0 => h[i - 1] = g[i - 1])
        BY <3>2
      <4> QED BY <2>1, <4>1
    <3> QED BY <3>1, <3>2
  <2>3. Is(h, k + 1)
    <3> DEFINE r == [i \in 0..(k + 1) |-> IF i = 0 THEN <<>> ELSE Follow(h[i - 1], path[i])]
    <3>1. \A i \in 0..(k + 1) : h[i] = r[i]
      BY <2>2
    <3>2. DOMAIN h = 0..(k + 1) /\ DOMAIN r = 0..(k + 1)
      OBVIOUS
    <3>3. h = [i \in 0..(k + 1) |-> h[i]] /\ r = [i \in 0..(k + 1) |-> r[i]]
      OBVIOUS
    <3> QED BY <3>1, <3>3
  <2> HIDE DEF h
  <2> QED BY <2>3
<1>3. n \in S
  <2> HIDE DEF S
  <2> QED BY <1>1, <1>2, Induction
<1>4. PICK g : Is(g, n)
  BY <1>3
<1> QED BY <1>4 DEF RealTo

\* canonicalize of a path is the last value of RealTo.
LEMMA RealIs ==
    ASSUME NEW path
    PROVE  Real(path) = RealTo(path, Len(path))[Len(path)]
BY DEF Real, RealTo

\* RealTo starts at the root of the file system and follows one name after the other.
LEMMA RealToAt ==
    ASSUME NEW path, NEW n \in Nat
    PROVE  /\ RealTo(path, n)[0] = <<>>
           /\ \A i \in Nat : i < n => RealTo(path, n)[i + 1] = Follow(RealTo(path, n)[i], path[i + 1])
<1> DEFINE r == RealTo(path, n)
<1>1. r = [i \in 0..n |-> IF i = 0 THEN <<>> ELSE Follow(r[i - 1], path[i])]
  BY RealToIsDefined
<1> HIDE DEF r
<1>2. r[0] = <<>>
  BY <1>1
<1>3. ASSUME NEW i \in Nat, i < n PROVE r[i + 1] = Follow(r[i], path[i + 1])
  <2>1. i + 1 \in 0..n /\ i + 1 # 0 /\ (i + 1) - 1 = i
    BY <1>3
  <2> QED BY <1>1, <2>1
<1> QED BY <1>2, <1>3 DEF r

\* What is read up to a name depends on the names before it only.
LEMMA RealToAgrees ==
    ASSUME NEW p, NEW q, NEW n \in Nat, NEW m \in Nat, n <= m, \A i \in 1..n : p[i] = q[i]
    PROVE  \A i \in 0..n : RealTo(p, n)[i] = RealTo(q, m)[i]
<1> DEFINE S == {i \in Nat : i <= n => RealTo(p, n)[i] = RealTo(q, m)[i]}
<1>1. 0 \in S
  BY RealToAt
<1>2. ASSUME NEW i \in Nat, i \in S PROVE i + 1 \in S
  <2>1. CASE i + 1 <= n
    <3>1. i < n /\ i < m /\ i + 1 \in 1..n
      BY <2>1
    <3>2. RealTo(p, n)[i] = RealTo(q, m)[i] /\ p[i + 1] = q[i + 1]
      BY <1>2, <3>1
    <3>3. RealTo(p, n)[i + 1] = Follow(RealTo(p, n)[i], p[i + 1])
      BY <3>1, RealToAt
    <3>4. RealTo(q, m)[i + 1] = Follow(RealTo(q, m)[i], q[i + 1])
      BY <3>1, RealToAt
    <3> QED BY <3>2, <3>3, <3>4
  <2> QED BY <2>1
<1> HIDE DEF S
<1>3. Nat \subseteq S
  BY <1>1, <1>2, Induction
<1> QED BY <1>3 DEF S

\* The real path of an entry: its directory's, and where its name leads from there.
LEMMA RealAppend ==
    ASSUME NEW S, NEW p \in Seq(S), NEW name \in S
    PROVE  Real(Append(p, name)) = Follow(Real(p), name)
<1> DEFINE q == Append(p, name)
           n == Len(p)
<1>1. n \in Nat /\ Len(q) = n + 1 /\ q[n + 1] = name /\ \A i \in 1..n : p[i] = q[i]
  BY AppendIs
<1> HIDE DEF q, n
<1>2. RealTo(p, n)[n] = RealTo(q, n + 1)[n]
  <2>1. n \in Nat /\ n + 1 \in Nat /\ n <= n + 1 /\ n \in 0..n
    BY <1>1
  <2> QED BY <1>1, <2>1, RealToAgrees
<1>3. RealTo(q, n + 1)[n + 1] = Follow(RealTo(q, n + 1)[n], q[n + 1])
  <2>1. n \in Nat /\ n + 1 \in Nat /\ n < n + 1
    BY <1>1
  <2> QED BY <2>1, RealToAt
<1>4. Real(q) = RealTo(q, n + 1)[n + 1] /\ Real(p) = RealTo(p, n)[n]
  BY <1>1, RealIs DEF n
<1> QED BY <1>1, <1>2, <1>3, <1>4 DEF q

\* What IsWorld says of a tree.
LEMMA Tree ==
    ASSUME world \in Worlds
    PROVE  \A p \in DOMAIN world.tree :
              /\ p \in Seq(Names) \ {<<>>}
              /\ Node(p).kind \in {"dir", "file", "link"} /\ Node(p).to \in Seq(Names)
              /\ Len(p) > 1 => Front(p) \in DOMAIN world.tree /\ Node(Front(p)).kind = "dir"
              /\ Node(p).kind = "link" => /\ Node(p).to \in DOMAIN world.tree
                                          /\ Node(Node(p).to).kind = "dir"
<1>1. IsWorld(world)
  BY WorldsAssumption
<1>2. \A p \in DOMAIN world.tree :
         /\ p \in Seq(Names) \ {<<>>} /\ Node(p) \in NodeType
         /\ Len(p) > 1 => Front(p) \in DOMAIN world.tree /\ Node(Front(p)).kind = "dir"
         /\ Node(p).kind = "link" => Node(p).to \in {q \in DOMAIN world.tree : Node(q).kind = "dir"}
  BY <1>1, Zenon DEF IsWorld, Node
<1>3. \A n \in NodeType : n.kind \in {"dir", "file", "link"} /\ n.to \in Seq(Names)
  BY DEF NodeType
<1> QED BY <1>2, <1>3

\* From a path, a name leads to a path.
LEMMA FollowType ==
    ASSUME world \in Worlds, NEW p \in Seq(Names), NEW name \in Names
    PROVE  Follow(p, name) \in Seq(Names)
<1>1. Append(p, name) \in Seq(Names)
  BY AppendIs
<1>2. \A q \in DOMAIN world.tree : Node(q).to \in Seq(Names)
  BY Tree
<1> QED BY <1>1, <1>2 DEF Follow, IsNode

\* canonicalize of a path is a path.
LEMMA RealType ==
    ASSUME world \in Worlds, NEW p \in Seq(Names)
    PROVE  Real(p) \in Seq(Names)
<1> DEFINE n == Len(p)
           S == {i \in Nat : i <= n => RealTo(p, n)[i] \in Seq(Names)}
<1>1. n \in Nat /\ \A i \in 1..n : p[i] \in Names
  BY LenProperties, ElementOfSeq
<1> HIDE DEF n
<1>2. 0 \in S
  <2>1. RealTo(p, n)[0] = <<>> /\ <<>> \in Seq(Names)
    BY <1>1, RealToAt, EmptySeq
  <2> QED BY <2>1
<1>3. ASSUME NEW i \in Nat, i \in S PROVE i + 1 \in S
  <2>1. CASE i + 1 <= n
    <3>1. i < n /\ i <= n /\ i + 1 \in 1..n
      BY <1>1, <2>1
    <3>2. RealTo(p, n)[i] \in Seq(Names) /\ p[i + 1] \in Names
      BY <1>1, <1>3, <3>1
    <3>3. RealTo(p, n)[i + 1] = Follow(RealTo(p, n)[i], p[i + 1])
      BY <1>1, <3>1, RealToAt
    <3>4. RealTo(p, n)[i + 1] \in Seq(Names)
      BY <3>2, <3>3, FollowType
    <3> QED BY <3>4
  <2> QED BY <1>1, <2>1
<1> HIDE DEF S
<1>4. n \in S
  BY <1>1, <1>2, <1>3, Induction
<1>5. Real(p) = RealTo(p, n)[n]
  BY RealIs DEF n
<1> QED BY <1>1, <1>4, <1>5 DEF S

\* The real path of an entry is where it is found, or, for a link, where it leads.
LEMMA EntryIs ==
    ASSUME world \in Worlds, NEW p \in Seq(Names), p # <<>>
    PROVE  /\ Lstat(p) \in Seq(Names) \ {<<>>}
           /\ Real(p) = IF IsNode(Lstat(p)) /\ Node(Lstat(p)).kind = "link"
                        THEN Node(Lstat(p)).to ELSE Lstat(p)
<1>1. Front(p) \in Seq(Names) /\ Last(p) \in Names /\ p = Append(Front(p), Last(p))
  BY FrontLast
<1>2. Real(p) = Follow(Real(Front(p)), Last(p))
  BY <1>1, RealAppend
<1>3. Lstat(p) \in Seq(Names) \ {<<>>}
  BY <1>1, RealType, AppendIs DEF Lstat
<1> QED BY <1>2, <1>3 DEF Follow, Lstat

\* The parent of an entry is canonicalized, the entry itself is not.
LEMMA ChildIs ==
    ASSUME NEW p \in Seq(Names), NEW name \in Names
    PROVE  /\ Append(p, name) \in Seq(Names) \ {<<>>}
           /\ Lstat(Append(p, name)) = Append(Real(p), name)
BY AppendIs DEF Lstat

\* What exists is no link, once the links are followed.
LEMMA ExistsIs ==
    ASSUME world \in Worlds, NEW p \in Seq(Names), Exists(p)
    PROVE  /\ p # <<>>
           /\ Real(p) \in DOMAIN world.tree /\ Real(p) \in Seq(Names) \ {<<>>}
           /\ Node(Real(p)).kind # "link"
<1>1. Real(p) \in DOMAIN world.tree /\ Real(p) \in Seq(Names) \ {<<>>}
  BY Tree DEF Exists, IsNode
<1>2. p # <<>>
  <2>1. Real(<<>>) = <<>>
    BY RealIs, RealToAt
  <2> QED BY <1>1, <2>1
<1>3. CASE IsNode(Lstat(p)) /\ Node(Lstat(p)).kind = "link"
  <2>1. Real(p) = Node(Lstat(p)).to
    BY <1>2, <1>3, EntryIs
  <2>2. Node(Node(Lstat(p)).to).kind = "dir"
    BY <1>3, Tree DEF IsNode
  <2> QED BY <1>1, <1>2, <2>1, <2>2
<1>4. CASE ~ (IsNode(Lstat(p)) /\ Node(Lstat(p)).kind = "link")
  <2>1. Real(p) = Lstat(p)
    BY <1>2, <1>4, EntryIs
  <2>2. IsNode(Lstat(p))
    BY <1>1, <2>1 DEF IsNode
  <2> QED BY <1>1, <1>2, <1>4, <2>1, <2>2
<1> QED BY <1>3, <1>4

\* On the way to a node there are directories only.
LEMMA Ancestors ==
    ASSUME world \in Worlds, NEW f \in DOMAIN world.tree
    PROVE  \A m \in 1..(Len(f) - 1) : /\ SubSeq(f, 1, m) \in DOMAIN world.tree
                                      /\ Node(SubSeq(f, 1, m)).kind = "dir"
<1> DEFINE n == Len(f)
           Dir(m) == SubSeq(f, 1, m) \in DOMAIN world.tree /\ Node(SubSeq(f, 1, m)).kind = "dir"
           S == {j \in Nat : j > 0 /\ j < n => Dir(n - j)}
<1>1. f \in Seq(Names) \ {<<>>} /\ n \in Nat /\ SubSeq(f, 1, n) = f
  BY Tree, LenProperties, SubSeqFull
\* A beginning that is a node has a directory before it.
<1>2. ASSUME NEW m \in 1..(n - 1), SubSeq(f, 1, m + 1) \in DOMAIN world.tree PROVE Dir(m)
  <2>1. m \in 0..n /\ m < n /\ m \in Nat /\ m + 1 > 1
    BY <1>1
  <2> DEFINE q == SubSeq(f, 1, m + 1)
  <2>2. Front(q) = SubSeq(f, 1, m) /\ Len(q) > 1 /\ q \in DOMAIN world.tree
    BY <1>1, <1>2, <2>1, Beginnings
  <2> HIDE DEF q
  <2>3. Front(q) \in DOMAIN world.tree /\ Node(Front(q)).kind = "dir"
    BY <2>2, Tree
  <2> QED BY <2>2, <2>3
<1> HIDE DEF n, Dir
<1>3. 0 \in S
  OBVIOUS
<1>4. ASSUME NEW j \in Nat, j \in S PROVE j + 1 \in S
  <2>1. CASE j + 1 < n
    <3>1. n - (j + 1) \in 1..(n - 1) /\ (n - (j + 1)) + 1 = n - j /\ (j > 0 => j < n)
      BY <1>1, <2>1
    <3>2. SubSeq(f, 1, n - j) \in DOMAIN world.tree
      <4>1. CASE j = 0
        <5>1. n - j = n
          BY <1>1, <4>1
        <5> QED BY <1>1, <5>1
      <4>2. CASE j > 0
        BY <1>4, <3>1, <4>2 DEF Dir
      <4> QED BY <4>1, <4>2
    <3>3. Dir(n - (j + 1))
      BY <1>2, <3>1, <3>2
    <3> QED BY <3>3
  <2> QED BY <1>1, <2>1
<1>5. ASSUME NEW m \in 1..(n - 1) PROVE Dir(m)
  <2>1. n - m \in Nat /\ n - m > 0 /\ n - m < n /\ n - (n - m) = m
    BY <1>1
  <2>2. n - m \in S
    <3> HIDE DEF S
    <3> QED BY <1>3, <1>4, <2>1, Induction
  <2> QED BY <2>1, <2>2
<1> QED BY <1>5 DEF n, Dir

\* A directory is reached from itself, and what is in a directory that can be listed
\* from where that is reached from.
LEMMA ReachesSelf ==
    ASSUME NEW p \in Seq(Names)
    PROVE  Reaches(p, p)
<1>1. Len(p) \in Nat
  BY LenProperties
<1> QED BY <1>1 DEF Reaches, IsPrefix

\* The walk reaches what is in a directory it reaches and can list.
LEMMA ReachesChild ==
    ASSUME NEW top \in Seq(Names), NEW p \in Seq(Names), NEW name \in Names,
           Reaches(top, p), Node(p).opens
    PROVE  Reaches(top, Append(p, name))
<1> DEFINE q == Append(p, name)
<1>1. /\ Len(top) \in 0..Len(p) /\ Len(p) \in Nat /\ Len(q) = Len(p) + 1
      /\ SubSeq(top, 1, Len(top)) = SubSeq(p, 1, Len(top))
  BY AppendIs, LenProperties DEF Reaches, IsPrefix
<1>2. \A m \in 0..Len(p) : SubSeq(q, 1, m) = SubSeq(p, 1, m)
  BY BeginningOfAppend
<1> HIDE DEF q
<1>3. IsPrefix(top, q)
  BY <1>1, <1>2 DEF IsPrefix
<1>4. ASSUME NEW i \in Len(top)..(Len(q) - 1) PROVE Node(SubSeq(q, 1, i)).opens
  <2>1. SubSeq(q, 1, i) = SubSeq(p, 1, i)
    BY <1>1, <1>2
  <2>2. CASE i = Len(p)
    BY <2>1, <2>2, SubSeqFull
  <2>3. CASE i # Len(p)
    <3>1. i \in Len(top)..(Len(p) - 1)
      BY <1>1, <2>3
    <3> QED BY <2>1, <3>1 DEF Reaches
  <2> QED BY <2>2, <2>3
<1> QED BY <1>3, <1>4 DEF Reaches, q

\* As long as the disk stays as it is, so does what is said of paths.
LEMMA WorldKept ==
    ASSUME world' = world
    PROVE  /\ \A p : Real(p)' = Real(p) /\ Lstat(p)' = Lstat(p) /\ Node(p)' = Node(p)
           /\ \A p : Exists(p)' <=> Exists(p)
           /\ \A p, q : Reaches(p, q)' <=> Reaches(p, q)
<1>1. \A p : Real(p)' = Real(p)
  BY DEF Real, Follow, IsNode, Node
<1> QED BY <1>1 DEF Lstat, Node, Exists, IsNode, Reaches

-----------------------------------------------------------------------------
(* The roots. *)

Roots == {p \in Seq(Names) : Exists(p)}

\* push adds a path that there is, and nothing else.
LEMMA PushIs ==
    ASSUME NEW p \in Seq(Names)
    PROVE  push(p) \in Seq(Roots) /\ (Exists(p) => p \in Range(push(p)))
<1>1. CASE Exists(p)
  <2>1. push(p) = <<p>> /\ p \in Roots
    BY <1>1 DEF push, Roots
  <2> QED BY <2>1 DEF Range
<1>2. CASE ~ Exists(p)
  BY <1>2, EmptySeq DEF push
<1> QED BY <1>1, <1>2

\* What env_path adds exists, and it adds the path when the variable is set and the path exists.
LEMMA EnvIs ==
    ASSUME world \in Worlds, NEW v, NEW below \in Seq(Names)
    PROVE  /\ env_path(v, below) \in Seq(Roots)
           /\ v \in DOMAIN world.env =>
                 LET path == world.env[v] \o below IN
                 Exists(path) => path \in Range(env_path(v, below))
           /\ v \in DOMAIN world.env => world.env[v] \in Seq(Names)
<1>1. CASE v \in DOMAIN world.env
  <2>1. IsWorld(world)
    BY WorldsAssumption
  <2>2. world.env[v] \in Seq(Names)
    BY <1>1, <2>1, Zenon DEF IsWorld
  <2> DEFINE path == world.env[v] \o below
  <2>3. path \in Seq(Names) /\ env_path(v, below) = push(path)
    BY <1>1, <2>2, ConcatProperties DEF env_path
  <2> HIDE DEF path
  <2>4. push(path) \in Seq(Roots) /\ (Exists(path) => path \in Range(push(path)))
    BY <2>3, PushIs
  <2> QED BY <2>2, <2>3, <2>4 DEF path
<1>2. CASE v \notin DOMAIN world.env
  BY <1>2, EmptySeq DEF env_path
<1> QED BY <1>1, <1>2

\* No, one and three elements of a set are a sequence over it.
LEMMA Tuples ==
    ASSUME NEW S, NEW x \in S, NEW y \in S, NEW z \in S
    PROVE  <<>> \in Seq(S) /\ <<x>> \in Seq(S) /\ <<x, y, z>> \in Seq(S)
OBVIOUS

\* A concatenation is a sequence and has the elements of its two parts.
LEMMA Joined ==
    ASSUME NEW S, NEW s \in Seq(S), NEW t \in Seq(S)
    PROVE  s \o t \in Seq(S) /\ Range(s \o t) = Range(s) \cup Range(t)
BY ConcatProperties, RangeConcatenation

\* Each place of a preset that there is is one of its roots.
LEMMA RootsAre ==
    ASSUME world \in Worlds, NEW p
    PROVE  /\ roots_for(p) \in Seq(Roots)
           /\ \A place \in Places(p) : Exists(place) => place \in Range(roots_for(p))
<1>1. /\ <<>> \in Seq(Names) /\ <<"Startup">> \in Seq(Names) /\ <<"Downloads">> \in Seq(Names)
      /\ <<"C">> \in Seq(Names) /\ <<"D">> \in Seq(Names)
      /\ <<"C", "Windows", "Temp">> \in Seq(Names) /\ <<"C", "Windows", "System32">> \in Seq(Names)
  <2>1. /\ "C" \in Names /\ "D" \in Names /\ "Windows" \in Names /\ "Temp" \in Names
        /\ "System32" \in Names /\ "Startup" \in Names /\ "Downloads" \in Names
    BY NamesAssumption
  <2>2. <<>> \in Seq(Names) /\ \A x \in Names : <<x>> \in Seq(Names)
    BY <2>1, Tuples
  <2>3. \A x, y, z \in Names : <<x, y, z>> \in Seq(Names)
    BY Tuples
  <2> QED BY <2>1, <2>2, <2>3, Zenon
<1>2. CASE p = "Full"
  <2> DEFINE a == push(<<"C">>)
             b == push(<<"D">>)
  <2>1. /\ a \in Seq(Roots) /\ (Exists(<<"C">>) => <<"C">> \in Range(a))
        /\ b \in Seq(Roots) /\ (Exists(<<"D">>) => <<"D">> \in Range(b))
    BY <1>1, PushIs
  <2>2. roots_for(p) = a \o b
    BY <1>2 DEF roots_for, full_roots
  <2> HIDE DEF a, b
  <2>3. a \o b \in Seq(Roots) /\ Range(a \o b) = Range(a) \cup Range(b)
    BY <2>1, Joined
  <2> QED BY <1>2, <2>1, <2>2, <2>3 DEF Places
<1>3. CASE p # "Full"
  <2> DEFINE a == env_path("TEMP", <<>>)
             b == env_path("APPDATA", <<"Startup">>)
             c == env_path("APPDATA", <<>>)
             d == env_path("LOCALAPPDATA", <<>>)
             e == env_path("USERPROFILE", <<"Downloads">>)
             f == env_path("PROGRAMDATA", <<"Startup">>)
             g == push(<<"C", "Windows", "Temp">>)
             h == push(<<"C", "Windows", "System32">>)
             ab == a \o b
             abc == ab \o c
             abcd == abc \o d
             abcde == abcd \o e
             abcdef == abcde \o f
             gh == g \o h
  <2>1. /\ a \in Seq(Roots) /\ b \in Seq(Roots) /\ c \in Seq(Roots) /\ d \in Seq(Roots)
        /\ e \in Seq(Roots) /\ f \in Seq(Roots) /\ g \in Seq(Roots) /\ h \in Seq(Roots)
    BY <1>1, EnvIs, PushIs
  <2>2. roots_for(p) = abcdef \o gh
    BY <1>3 DEF roots_for, risky_roots, fixed_paths
  <2>3. ASSUME NEW v, NEW below \in Seq(Names), v \in DOMAIN world.env, Exists(world.env[v] \o below)
        PROVE  world.env[v] \o below \in Range(env_path(v, below))
    BY <2>3, EnvIs
  <2>4. ASSUME NEW v, v \in DOMAIN world.env, Exists(world.env[v])
        PROVE  world.env[v] \in Range(env_path(v, <<>>))
    <3>1. world.env[v] \o <<>> = world.env[v]
      BY <2>4, <1>1, EnvIs, ConcatEmptySeq
    <3> QED BY <1>1, <2>3, <2>4, <3>1
  <2>5. ASSUME NEW place \in Places(p), Exists(place)
        PROVE  \/ place \in Range(a) \/ place \in Range(b) \/ place \in Range(c) \/ place \in Range(d)
               \/ place \in Range(e) \/ place \in Range(f) \/ place \in Range(g) \/ place \in Range(h)
    <3>1. CASE place \in {<<"C", "Windows", "Temp">>, <<"C", "Windows", "System32">>}
      BY <1>1, <2>5, <3>1, PushIs
    <3>2. CASE place \in {world.env[v] : v \in DOMAIN world.env \cap {"TEMP", "APPDATA", "LOCALAPPDATA"}}
      BY <2>4, <2>5, <3>2
    <3>3. CASE place \in {world.env[v] \o <<"Downloads">> : v \in DOMAIN world.env \cap {"USERPROFILE"}}
      BY <1>1, <2>3, <2>5, <3>3
    <3>4. CASE place \in {world.env[v] \o <<"Startup">> : v \in DOMAIN world.env \cap {"APPDATA", "PROGRAMDATA"}}
      BY <1>1, <2>3, <2>5, <3>4
    <3> QED BY <1>3, <2>5, <3>1, <3>2, <3>3, <3>4 DEF Places
  <2> HIDE DEF a, b, c, d, e, f, g, h, ab, abc, abcd, abcde, abcdef, gh
  <2>6. ab \in Seq(Roots) /\ Range(ab) = Range(a) \cup Range(b)
    BY <2>1, Joined DEF ab
  <2>7. abc \in Seq(Roots) /\ Range(abc) = Range(ab) \cup Range(c)
    BY <2>1, <2>6, Joined DEF abc
  <2>8. abcd \in Seq(Roots) /\ Range(abcd) = Range(abc) \cup Range(d)
    BY <2>1, <2>7, Joined DEF abcd
  <2>9. abcde \in Seq(Roots) /\ Range(abcde) = Range(abcd) \cup Range(e)
    BY <2>1, <2>8, Joined DEF abcde
  <2>10. abcdef \in Seq(Roots) /\ Range(abcdef) = Range(abcde) \cup Range(f)
    BY <2>1, <2>9, Joined DEF abcdef
  <2>11. gh \in Seq(Roots) /\ Range(gh) = Range(g) \cup Range(h)
    BY <2>1, Joined DEF gh
  <2>12. abcdef \o gh \in Seq(Roots) /\ Range(abcdef \o gh) = Range(abcdef) \cup Range(gh)
    BY <2>10, <2>11, Joined
  <2> QED BY <2>2, <2>5, <2>6, <2>7, <2>8, <2>9, <2>10, <2>11, <2>12
<1> QED BY <1>2, <1>3
-----------------------------------------------------------------------------
(* The walk. *)

\* The entry that the names of s lead to from the k-th root, and where it should be.
Entry(k, s) == roots[k] \o s
Place(k, s) == Real(roots[k]) \o s
Walkable(k) == Node(Lstat(roots[k])).kind # "link"

\* What the walk comes to: a root, or what lies below one that is no link.
Reached(k, s) ==
    /\ s \in Seq(Names)
    /\ s # <<>> => /\ Walkable(k)
                   /\ Lstat(Entry(k, s)) = Place(k, s)
                   /\ Reaches(Real(roots[k]), Place(k, s))

\* What it walks: the entry is where it should be.
Found(k, s) ==
    /\ s \in Seq(Names)
    /\ Walkable(k)
    /\ Real(Entry(k, s)) = Place(k, s)
    /\ Reaches(Real(roots[k]), Place(k, s))

\* A file it should list.
Wanted(k, f) == Walkable(k) /\ Node(f).kind = "file" /\ Reaches(Real(roots[k]), f)

TypeInv ==
    /\ world \in Worlds
    /\ roots \in Seq(Roots)
    /\ at \in 0..Len(roots)
    /\ preset = "none" => roots = <<>>
    /\ todo # {} => at # 0
    /\ done => preset # "none" /\ at = Len(roots) /\ todo = {}

RootsInv ==
    preset # "none" => \A place \in Places(preset) : Exists(place) => place \in Range(roots)

TodoInv == \A path \in todo : \E s : path = Entry(at, s) /\ Reached(at, s)

ListedInv == \A e \in listed : \E k \in 1..at : \E s : e = <<k, Entry(k, s)>> /\ Found(k, s)

\* The rest of the way to f on which the walk is: what it has still to look at.
OnTheWay(f) ==
    \E m \in Len(Real(roots[at]))..Len(f) : Entry(at, Rest(Real(roots[at]), f, m)) \in todo

\* A file that should be listed is, or the walk is on the way to it.
CompleteInv ==
    \A k \in 1..at : \A f \in DOMAIN world.tree :
        Wanted(k, f) => (\E e \in listed : Real(e[2]) = f) \/ (k = at /\ OnTheWay(f))

WalkInv == TypeInv /\ RootsInv /\ TodoInv /\ ListedInv /\ CompleteInv

\* A root is a path that exists, of at least one name, also after its links are followed.
LEMMA RootIs ==
    ASSUME TypeInv, NEW k \in 1..Len(roots)
    PROVE  /\ roots[k] \in Seq(Names) \ {<<>>}
           /\ Real(roots[k]) \in Seq(Names) \ {<<>>} /\ Len(Real(roots[k])) \in Nat \ {0}
           /\ Entry(k, <<>>) = roots[k] /\ Place(k, <<>>) = Real(roots[k])
<1>1. roots[k] \in Roots
  BY ElementOfSeq DEF TypeInv
<1>2. roots[k] \in Seq(Names) /\ Exists(roots[k])
  BY <1>1 DEF Roots
<1>3. roots[k] # <<>> /\ Real(roots[k]) \in Seq(Names) \ {<<>>}
  BY <1>2, ExistsIs DEF TypeInv
<1>4. roots[k] \o <<>> = roots[k] /\ Real(roots[k]) \o <<>> = Real(roots[k])
  BY <1>2, <1>3, ConcatEmptySeq
<1> QED BY <1>2, <1>3, <1>4, EmptySeq DEF Entry, Place

\* The paths below a root, as the walk spells them and as they are after the links.
LEMMA BelowIs ==
    ASSUME TypeInv, NEW k \in 1..Len(roots), NEW s \in Seq(Names)
    PROVE  /\ Entry(k, s) \in Seq(Names) \ {<<>>}
           /\ Place(k, s) \in Seq(Names)
           /\ s # <<>> => Place(k, s) # Real(roots[k])
           /\ \A name \in Names : /\ Entry(k, Append(s, name)) = Append(Entry(k, s), name)
                                  /\ Place(k, Append(s, name)) = Append(Place(k, s), name)
<1>1. roots[k] \in Seq(Names) \ {<<>>} /\ Real(roots[k]) \in Seq(Names)
  BY RootIs
<1>2. roots[k] \o s \in Seq(Names) /\ Real(roots[k]) \o s \in Seq(Names)
  BY <1>1, ConcatProperties
<1>3. roots[k] \o s # <<>> /\ (s # <<>> => Real(roots[k]) \o s # Real(roots[k]))
  BY <1>1, ConcatEqualIffEmpty
<1>4. ASSUME NEW name \in Names
      PROVE  /\ roots[k] \o Append(s, name) = Append(roots[k] \o s, name)
             /\ Real(roots[k]) \o Append(s, name) = Append(Real(roots[k]) \o s, name)
  <2>1. \A r \in Seq(Names) : r \o Append(s, name) = Append(r \o s, name)
    BY AppendToConcat
  <2> QED BY <1>1, <2>1
<1> QED BY <1>2, <1>3, <1>4 DEF Entry, Place

\* An entry that the walk comes to and that is no link is where it should be.
LEMMA WalkedIs ==
    ASSUME TypeInv, NEW k \in 1..Len(roots), NEW s,
           Reached(k, s), should_walk_entry(Entry(k, s))
    PROVE  Found(k, s)
<1>1. s \in Seq(Names)
  BY DEF Reached
<1>2. CASE s = <<>>
  <2>1. Real(Entry(k, s)) = Place(k, s) /\ Place(k, s) = Real(roots[k]) /\ Walkable(k)
    BY <1>2, RootIs DEF should_walk_entry, Walkable
  <2>2. Reaches(Real(roots[k]), Place(k, s))
    BY <2>1, RootIs, ReachesSelf
  <2> QED BY <1>1, <2>1, <2>2 DEF Found
<1>3. CASE s # <<>>
  <2>1. Real(Entry(k, s)) = Lstat(Entry(k, s))
    BY <1>1, BelowIs, EntryIs DEF should_walk_entry, TypeInv
  <2> QED BY <1>1, <1>3, <2>1 DEF Reached, Found
<1> QED BY <1>2, <1>3

\* So the walk comes to what is in a directory it can list.
LEMMA ChildReached ==
    ASSUME TypeInv, NEW k \in 1..Len(roots), NEW s, Found(k, s), Node(Place(k, s)).opens,
           NEW path \in Children(Entry(k, s))
    PROVE  \E t : path = Entry(k, t) /\ Reached(k, t)
<1>1. PICK c \in DOMAIN world.tree : path = Append(Entry(k, s), Last(c))
  BY DEF Children
<1>2. Last(c) \in Names
  BY Tree, FrontLast DEF TypeInv
<1> DEFINE t == Append(s, Last(c))
<1>3. s \in Seq(Names) /\ t \in Seq(Names) \ {<<>>}
  BY <1>2, AppendIs DEF Found
<1>4. path = Entry(k, t) /\ Place(k, t) = Append(Place(k, s), Last(c))
  BY <1>1, <1>2, <1>3, BelowIs
<1>5. Lstat(path) = Place(k, t)
  <2>1. Entry(k, s) \in Seq(Names)
    BY <1>3, BelowIs
  <2>2. Lstat(Append(Entry(k, s), Last(c))) = Append(Real(Entry(k, s)), Last(c))
    BY <1>2, <2>1, ChildIs
  <2> QED BY <1>1, <1>4, <2>2 DEF Found
<1>6. Reaches(Real(roots[k]), Place(k, t))
  <2>1. Place(k, s) \in Seq(Names) /\ Real(roots[k]) \in Seq(Names)
    BY <1>3, BelowIs, RootIs
  <2> QED BY <1>2, <1>4, <2>1, ReachesChild DEF Found
<1> QED BY <1>3, <1>4, <1>5, <1>6 DEF Reached, Found

\* On the way to a file the walk meets no link, and finds the next entry of the way.
LEMMA WayIs ==
    ASSUME TypeInv, NEW k \in 1..Len(roots), NEW f \in DOMAIN world.tree, Wanted(k, f),
           NEW m \in Len(Real(roots[k]))..Len(f), Reached(k, Rest(Real(roots[k]), f, m))
    PROVE  LET path == Entry(k, Rest(Real(roots[k]), f, m)) IN
           /\ should_walk_entry(path)
           /\ Real(path) = SubSeq(f, 1, m)
           /\ m < Len(f) =>
                 /\ Node(Real(path)).kind = "dir" /\ Node(Real(path)).opens
                 /\ Entry(k, Rest(Real(roots[k]), f, m + 1)) \in Children(path)
<1> DEFINE top == Real(roots[k])
           s == Rest(top, f, m)
           path == Entry(k, s)
<1>1. /\ top \in Seq(Names) \ {<<>>} /\ Len(top) \in Nat \ {0}
      /\ f \in Seq(Names) /\ Len(f) \in Nat /\ IsPrefix(top, f) /\ m \in Len(top)..Len(f)
  BY RootIs, Tree, LenProperties DEF TypeInv, Wanted, Reaches
<1>2. /\ s \in Seq(Names) /\ top \o s = SubSeq(f, 1, m)
      /\ (m = Len(top) => s = <<>>)
      /\ (m < Len(f) => Rest(top, f, m + 1) = Append(s, f[m + 1]))
  <2> HIDE DEF top
  <2>1. top \in Seq(Names) /\ f \in Seq(Names) /\ IsPrefix(top, f) /\ m \in Len(top)..Len(f)
    BY <1>1
  <2>2. /\ Rest(top, f, m) \in Seq(Names) /\ top \o Rest(top, f, m) = SubSeq(f, 1, m)
        /\ (m = Len(top) => Rest(top, f, m) = <<>>)
    BY <2>1, RestIs
  <2>3. m < Len(f) => Rest(top, f, m + 1) = Append(Rest(top, f, m), f[m + 1])
    BY <2>1, RestIs
  <2> QED BY <2>2, <2>3
<1>3. /\ m \in 1..Len(f)
      /\ SubSeq(f, 1, m) \in DOMAIN world.tree
      /\ Node(SubSeq(f, 1, m)).kind = IF m = Len(f) THEN "file" ELSE "dir"
  <2>1. CASE m = Len(f)
    <3>1. SubSeq(f, 1, Len(f)) = f
      BY <1>1, SubSeqFull
    <3>2. Node(f).kind = "file"
      BY DEF Wanted
    <3>3. m \in 1..Len(f)
      BY <1>1, <2>1
    <3> QED BY <2>1, <3>1, <3>2, <3>3
  <2>2. CASE m # Len(f)
    <3>1. m \in 1..(Len(f) - 1)
      BY <1>1, <2>2
    <3> QED BY <1>1, <2>2, <3>1, Ancestors DEF TypeInv
  <2> QED BY <1>1, <2>1, <2>2
<1>4. should_walk_entry(path) /\ Real(path) = SubSeq(f, 1, m)
  <2>1. CASE s = <<>>
    <3>1. path = roots[k] /\ top \o s = top
      BY <2>1, RootIs DEF Place
    <3> QED BY <1>2, <3>1 DEF Wanted, Walkable, should_walk_entry
  <2>2. CASE s # <<>>
    <3>1. Lstat(path) = SubSeq(f, 1, m)
      BY <1>2, <2>2 DEF Reached, Place
    <3>2. should_walk_entry(path)
      BY <1>3, <3>1 DEF should_walk_entry
    <3>3. Real(path) = Lstat(path)
      BY <1>2, <3>2, BelowIs, EntryIs DEF should_walk_entry, TypeInv
    <3> QED BY <3>1, <3>2, <3>3
  <2> QED BY <2>1, <2>2
<1>5. ASSUME m < Len(f)
      PROVE  /\ Node(Real(path)).kind = "dir" /\ Node(Real(path)).opens
             /\ Entry(k, Rest(top, f, m + 1)) \in Children(path)
  <2>1. Node(Real(path)).kind = "dir"
    BY <1>3, <1>4, <1>5
  <2>2. Node(SubSeq(f, 1, m)).opens
    <3>1. m \in Len(top)..(Len(f) - 1)
      BY <1>1, <1>5
    <3> QED BY <3>1 DEF Wanted, Reaches
  <2> DEFINE c == SubSeq(f, 1, m + 1)
  <2>3. c \in DOMAIN world.tree
    <3>1. CASE m + 1 = Len(f)
      BY <1>1, <3>1, SubSeqFull
    <3>2. CASE m + 1 # Len(f)
      <4>1. m + 1 \in 1..(Len(f) - 1)
        BY <1>1, <1>3, <1>5, <3>2
      <4> QED BY <4>1, Ancestors DEF TypeInv
    <3> QED BY <3>1, <3>2
  <2>4. Len(c) = m + 1 /\ Front(c) = SubSeq(f, 1, m) /\ Last(c) = f[m + 1] /\ f[m + 1] \in Names
    <3>1. m \in 0..Len(f)
      BY <1>1, <1>3
    <3> QED BY <1>1, <1>5, <3>1, Beginnings
  <2>5. Len(c) > 1
    BY <1>3, <2>4
  <2>6. Append(path, f[m + 1]) \in Children(path)
    <3> HIDE DEF c, path
    <3> QED BY <1>4, <2>3, <2>4, <2>5 DEF Children
  <2>7. Entry(k, Rest(top, f, m + 1)) = Append(path, f[m + 1])
    BY <1>2, <1>5, <2>4, BelowIs
  <2> QED BY <1>4, <2>1, <2>2, <2>6, <2>7
<1> QED BY <1>4, <1>5

\* While the file system and the roots stay, so do the places that are reached and wanted.
LEMMA RootsKept ==
    ASSUME world' = world, roots' = roots
    PROVE  /\ \A k, s : /\ Entry(k, s)' = Entry(k, s)
                        /\ Reached(k, s)' <=> Reached(k, s)
                        /\ Found(k, s)' <=> Found(k, s)
           /\ \A k, f : Wanted(k, f)' <=> Wanted(k, f)
<1>1. \A k, s : Entry(k, s)' = Entry(k, s) /\ Place(k, s)' = Place(k, s)
  BY WorldKept DEF Entry, Place
<1>2. \A k : Walkable(k)' <=> Walkable(k)
  BY WorldKept DEF Walkable
<1>3. \A k, s : Reached(k, s)' <=> Reached(k, s)
  BY <1>1, <1>2, WorldKept DEF Reached
<1>4. \A k, s : Found(k, s)' <=> Found(k, s)
  BY <1>1, <1>2, WorldKept DEF Found
<1>5. \A k, f : Wanted(k, f)' <=> Wanted(k, f)
  BY <1>2, WorldKept DEF Wanted
<1> QED BY <1>1, <1>3, <1>4, <1>5

\* While the file system stays, so do the places of a preset.
LEMMA PlacesKept ==
    ASSUME world' = world
    PROVE  Roots' = Roots /\ \A p : Places(p)' = Places(p)
BY WorldKept DEF Roots, Places

-----------------------------------------------------------------------------
(* WalkInv is an invariant. *)

\* WalkInv holds when nothing has been asked for.
LEMMA WalkInit == Init => WalkInv
<1> SUFFICES ASSUME Init PROVE WalkInv
  OBVIOUS
<1>1. TypeInv
  BY EmptySeq DEF Init, TypeInv
<1> QED BY <1>1 DEF Init, WalkInv, RootsInv, TodoInv, ListedInv, CompleteInv

\* Finding the roots of a preset keeps WalkInv.
LEMMA WalkBegin ==
    ASSUME WalkInv, NEW p \in {"Quick", "Full", "RiskySpots"}, Begin(p)
    PROVE  WalkInv'
<1>1. at = 0 /\ todo = {} /\ ~done
  BY EmptySeq DEF WalkInv, TypeInv, Begin
<1>2. /\ world' = world /\ world \in Worlds /\ roots' = roots_for(p) /\ preset' = p
      /\ at' = 0 /\ todo' = {} /\ listed' = listed /\ done' = FALSE
  BY <1>1 DEF WalkInv, TypeInv, Begin
<1>3. TypeInv'
  <2>1. roots' \in Seq(Roots')
    BY <1>2, RootsAre, PlacesKept
  <2> QED BY <1>2, <2>1, LenProperties DEF TypeInv
<1>4. RootsInv'
  BY <1>2, RootsAre, PlacesKept, WorldKept DEF RootsInv
<1>5. listed = {}
  BY <1>1 DEF WalkInv, ListedInv
<1> QED BY <1>2, <1>3, <1>4, <1>5 DEF WalkInv, TodoInv, ListedInv, CompleteInv

\* Going on to the next root, or ending after the last, keeps WalkInv.
LEMMA WalkNextRoot ==
    ASSUME WalkInv, NextRoot
    PROVE  WalkInv'
<1>1. /\ world' = world /\ preset' = preset /\ roots' = roots /\ listed' = listed
      /\ preset # "none" /\ ~done /\ todo = {}
      /\ world \in Worlds /\ roots \in Seq(Roots) /\ at \in 0..Len(roots) /\ Len(roots) \in Nat
  BY LenProperties DEF WalkInv, TypeInv, NextRoot
<1>2. RootsInv'
  BY <1>1, PlacesKept, WorldKept DEF WalkInv, RootsInv
<1>3. CASE at = Len(roots)
  <2>1. done' = TRUE /\ at' = at /\ todo' = todo
    BY <1>3 DEF NextRoot
  <2>2. TypeInv'
    BY <1>1, <1>3, <2>1, PlacesKept DEF WalkInv, TypeInv
  <2>3. TodoInv'
    BY <1>1, <2>1 DEF TodoInv
  <2>4. ListedInv'
    BY <1>1, <2>1, RootsKept DEF WalkInv, ListedInv
  <2>5. CompleteInv'
    BY <1>1, <2>1, RootsKept, WorldKept DEF WalkInv, CompleteInv, OnTheWay
  <2> QED BY <1>2, <2>2, <2>3, <2>4, <2>5 DEF WalkInv
<1>4. CASE at # Len(roots)
  <2>1. PICK k \in 1..Len(roots) : /\ k = at + 1 /\ k # 0
                                   /\ at' = k /\ todo' = {roots[k]} /\ done' = FALSE
    BY <1>1, <1>4 DEF NextRoot
  <2>2. TypeInv'
    BY <1>1, <2>1, PlacesKept DEF WalkInv, TypeInv
  <2>3. Entry(k, <<>>) = roots[k] /\ Real(roots[k]) \in Seq(Names)
    BY <2>1, RootIs DEF WalkInv
  <2>4. TodoInv'
    <3>1. Reached(k, <<>>)
      BY EmptySeq DEF Reached
    <3>2. roots[k] = Entry(k, <<>>)' /\ Reached(k, <<>>)'
      BY <1>1, <2>3, <3>1, RootsKept
    <3> QED BY <2>1, <3>2 DEF TodoInv
  <2>5. ListedInv'
    <3>1. \A j \in 1..at : j \in 1..k
      BY <1>1, <2>1
    <3> QED BY <1>1, <2>1, <3>1, RootsKept DEF WalkInv, ListedInv
  <2>6. CompleteInv'
    <3> SUFFICES ASSUME NEW j \in 1..k, NEW f \in DOMAIN world.tree, Wanted(j, f)
                 PROVE  (\E e \in listed : Real(e[2]) = f) \/ (j = k /\ OnTheWay(f)')
      BY <1>1, <2>1, RootsKept, WorldKept DEF CompleteInv
    <3>1. CASE j = k
      <4> DEFINE top == Real(roots[k])
      <4>1. /\ IsPrefix(top, f) /\ top \in Seq(Names) /\ f \in Seq(Names)
            /\ Len(top) \in Nat /\ Len(f) \in Nat /\ Len(top) <= Len(f)
        BY <1>1, <2>3, <3>1, Tree, LenProperties DEF Wanted, Reaches, IsPrefix
      <4>2. Len(top) \in Len(top)..Len(f) /\ Rest(top, f, Len(top)) = <<>>
        <5>1. Len(top) \in Len(top)..Len(f)
          BY <4>1
        <5> HIDE DEF top
        <5> QED BY <4>1, <5>1, RestIs
      <4>3. Entry(k, Rest(top, f, Len(top))) \in todo'
        BY <2>1, <2>3, <4>2
      <4>4. OnTheWay(f)'
        <5>1. Real(roots[k])' = top /\ at' = k /\ \A s : Entry(k, s)' = Entry(k, s)
          BY <1>1, <2>1, WorldKept, RootsKept
        <5> HIDE DEF top
        <5> QED BY <4>2, <4>3, <5>1 DEF OnTheWay, Rest
      <4> QED BY <3>1, <4>4
    <3>2. CASE j # k
      <4>1. j \in 1..at
        BY <1>1, <2>1, <3>2
      <4> QED BY <1>1, <4>1 DEF WalkInv, CompleteInv, OnTheWay
    <3> QED BY <3>1, <3>2
  <2> QED BY <1>2, <2>2, <2>4, <2>5, <2>6 DEF WalkInv
<1> QED BY <1>3, <1>4

\* Visiting an entry keeps WalkInv: it is listed, entered or left out.
LEMMA WalkVisit ==
    ASSUME WalkInv, NEW path \in todo, Visit(path)
    PROVE  WalkInv'
<1> DEFINE goes == should_walk_entry(path)
           into == goes /\ Node(Real(path)).kind = "dir" /\ Node(Real(path)).opens
           file == goes /\ Node(Real(path)).kind = "file"
<1>1. /\ world' = world /\ preset' = preset /\ roots' = roots /\ at' = at /\ done' = done
      /\ todo' = (todo \ {path}) \cup (IF into THEN Children(path) ELSE {})
      /\ listed' = listed \cup (IF file THEN {<<at, path>>} ELSE {})
  BY DEF Visit
<1>2. /\ TypeInv /\ at \in 1..Len(roots) /\ ~done
  BY LenProperties DEF WalkInv, TypeInv
<1>3. PICK s : path = Entry(at, s) /\ Reached(at, s)
  BY DEF WalkInv, TodoInv
<1>4. goes => Found(at, s)
  BY <1>2, <1>3, WalkedIs
<1> HIDE DEF goes
<1>5. TypeInv'
  BY <1>1, <1>2, PlacesKept DEF TypeInv
<1>6. RootsInv'
  BY <1>1, PlacesKept, WorldKept DEF WalkInv, RootsInv
<1>7. TodoInv'
  <2>1. ASSUME NEW q \in todo' PROVE \E t : q = Entry(at, t) /\ Reached(at, t)
    <3>1. CASE q \in todo
      BY <3>1 DEF WalkInv, TodoInv
    <3>2. CASE q \notin todo
      <4>1. into /\ q \in Children(path)
        BY <1>1, <2>1, <3>2
      <4>2. Found(at, s) /\ Node(Place(at, s)).opens
        BY <1>3, <1>4, <4>1 DEF Found
      <4> QED BY <1>2, <1>3, <4>1, <4>2, ChildReached
    <3> QED BY <3>1, <3>2
  <2> QED BY <1>1, <2>1, RootsKept DEF TodoInv
<1>8. ListedInv'
  <2>1. ASSUME NEW e \in listed' PROVE \E k \in 1..at : \E t : e = <<k, Entry(k, t)>> /\ Found(k, t)
    <3>1. CASE e \in listed
      BY <3>1 DEF WalkInv, ListedInv
    <3>2. CASE e \notin listed
      <4>1. goes /\ e = <<at, path>>
        BY <1>1, <2>1, <3>2
      <4> QED BY <1>2, <1>3, <1>4, <4>1
    <3> QED BY <3>1, <3>2
  <2> QED BY <1>1, <2>1, RootsKept DEF ListedInv
<1>9. CompleteInv'
  <2> DEFINE top == Real(roots[at])
  <2> SUFFICES ASSUME NEW k \in 1..at, NEW f \in DOMAIN world.tree, Wanted(k, f)
               PROVE  \/ \E e \in listed' : Real(e[2]) = f
                      \/ /\ k = at
                         /\ \E m \in Len(top)..Len(f) : Entry(at, Rest(top, f, m)) \in todo'
    BY <1>1, RootsKept, WorldKept DEF CompleteInv, OnTheWay, Rest
  <2>1. CASE \E e \in listed : Real(e[2]) = f
    BY <1>1, <2>1
  <2>2. CASE ~ \E e \in listed : Real(e[2]) = f
    <3>1. k = at /\ Wanted(at, f)
      BY <2>2 DEF WalkInv, CompleteInv
    <3>2. PICK m \in Len(top)..Len(f) : Entry(at, Rest(top, f, m)) \in todo
      BY <2>2 DEF WalkInv, CompleteInv, OnTheWay
    <3>3. CASE Entry(at, Rest(top, f, m)) # path
      BY <1>1, <3>1, <3>2, <3>3
    <3>4. CASE Entry(at, Rest(top, f, m)) = path
      <4> DEFINE r == Rest(top, f, m)
      <4>1. /\ top \in Seq(Names) /\ f \in Seq(Names) /\ IsPrefix(top, f)
            /\ Len(top) \in Nat /\ Len(f) \in Nat
        BY <1>2, <3>1, RootIs, Tree, LenProperties DEF TypeInv, Wanted, Reaches
      <4>2. r = s
        <5>1. r \in Seq(Names) /\ s \in Seq(Names) /\ roots[at] \in Seq(Names)
          <6>1. r \in Seq(Names)
            <7> HIDE DEF top
            <7> QED BY <4>1, RestIs
          <6> QED BY <1>2, <1>3, <6>1, RootIs DEF Reached
        <5>2. roots[at] \o r = roots[at] \o s
          BY <1>3, <3>4 DEF Entry
        <5> HIDE DEF r
        <5> QED BY <5>1, <5>2, CancelLeft
      <4>3. Reached(at, r)
        BY <1>3, <4>2
      <4>4. /\ goes /\ Real(path) = SubSeq(f, 1, m)
            /\ m < Len(f) => /\ Node(Real(path)).kind = "dir" /\ Node(Real(path)).opens
                             /\ Entry(at, Rest(top, f, m + 1)) \in Children(path)
        BY <1>2, <3>1, <3>4, <4>3, WayIs DEF goes
      <4>5. CASE m < Len(f)
        <5>1. Entry(at, Rest(top, f, m + 1)) \in todo'
          BY <1>1, <4>4, <4>5
        <5>2. m + 1 \in Len(top)..Len(f)
          BY <4>1, <4>5
        <5> QED BY <3>1, <5>1, <5>2
      <4>6. CASE ~ (m < Len(f))
        <5>1. m = Len(f)
          BY <4>1, <4>6
        <5>2. Real(path) = f
          BY <4>1, <4>4, <5>1, SubSeqFull
        <5>3. <<at, path>> \in listed'
          BY <1>1, <4>4, <5>2 DEF Wanted
        <5> QED BY <5>2, <5>3
      <4> QED BY <4>5, <4>6
    <3> QED BY <3>3, <3>4
  <2> QED BY <2>1, <2>2
<1> QED BY <1>5, <1>6, <1>7, <1>8, <1>9 DEF WalkInv

\* WalkInv is an invariant.
THEOREM WalkInvariant == Spec => []WalkInv
<1>1. Init => WalkInv
  BY WalkInit
<1>2. WalkInv /\ [Next]_vars => WalkInv'
  <2> SUFFICES ASSUME WalkInv, [Next]_vars PROVE WalkInv'
    OBVIOUS
  <2>1. ASSUME NEW p \in {"Quick", "Full", "RiskySpots"}, Begin(p) PROVE WalkInv'
    BY <2>1, WalkBegin
  <2>2. CASE NextRoot
    BY <2>2, WalkNextRoot
  <2>3. CASE VisitNext
    BY <2>3, WalkVisit DEF VisitNext
  <2>4. CASE UNCHANGED vars
    <3>1. /\ world' = world /\ preset' = preset /\ roots' = roots /\ at' = at
          /\ todo' = todo /\ listed' = listed /\ done' = done
      BY <2>4 DEF vars
    <3>2. TypeInv' /\ RootsInv'
      BY <3>1, PlacesKept, WorldKept DEF WalkInv, TypeInv, RootsInv
    <3>3. TodoInv' /\ ListedInv'
      BY <3>1, RootsKept DEF WalkInv, TodoInv, ListedInv
    <3>4. CompleteInv'
      BY <3>1, RootsKept, WorldKept DEF WalkInv, CompleteInv, OnTheWay, Rest
    <3> QED BY <3>2, <3>3, <3>4 DEF WalkInv
  <2> QED BY <2>1, <2>2, <2>3, <2>4 DEF Next
<1> QED BY <1>1, <1>2, PTL DEF Spec

-----------------------------------------------------------------------------
(* What follows. *)

\* When enumerate returns, every file below a place of the preset has been listed.
THEOREM PlacesAreScannedHolds == Spec => []PlacesAreScanned
<1>1. WalkInv => PlacesAreScanned
  <2> SUFFICES ASSUME WalkInv, done,
                      NEW place \in Places(preset), Exists(place), Node(Lstat(place)).kind # "link",
                      NEW f \in DOMAIN world.tree, Node(f).kind = "file", Reaches(Real(place), f)
               PROVE  \E e \in listed : Real(e[2]) = f
    BY DEF PlacesAreScanned
  <2>1. preset # "none" /\ at = Len(roots) /\ todo = {} /\ roots \in Seq(Roots)
    BY DEF WalkInv, TypeInv
  <2>2. place \in Range(roots)
    BY <2>1 DEF WalkInv, RootsInv
  <2>3. PICK k \in 1..at : place = roots[k]
    BY <2>1, <2>2, LenProperties DEF Range
  <2>4. Wanted(k, f)
    BY <2>3 DEF Wanted, Walkable
  <2> QED BY <2>1, <2>4 DEF WalkInv, CompleteInv, OnTheWay
<1> QED BY <1>1, WalkInvariant, PTL

\* What is listed lies below the root it was found from, on a way without links, and
\* is listed once from there.
THEOREM WalkStaysInsideHolds == Spec => []WalkStaysInside
<1>1. WalkInv => WalkStaysInside
  <2> SUFFICES ASSUME WalkInv, NEW e \in listed
               PROVE  /\ Reaches(Real(roots[e[1]]), Real(e[2]))
                      /\ Node(Lstat(roots[e[1]])).kind # "link"
                      /\ \A g \in listed : g[1] = e[1] /\ Real(g[2]) = Real(e[2]) => g = e
    BY DEF WalkStaysInside
  <2>1. PICK k \in 1..at : \E s : e = <<k, Entry(k, s)>> /\ Found(k, s)
    BY DEF WalkInv, ListedInv
  <2>2. PICK s : e = <<k, Entry(k, s)>> /\ Found(k, s)
    BY <2>1
  <2>3. e[1] = k /\ e[2] = Entry(k, s) /\ Real(e[2]) = Place(k, s)
    BY <2>2 DEF Found
  <2>4. ASSUME NEW g \in listed, g[1] = e[1], Real(g[2]) = Real(e[2]) PROVE g = e
    <3>1. PICK j \in 1..at : \E t : g = <<j, Entry(j, t)>> /\ Found(j, t)
      BY DEF WalkInv, ListedInv
    <3>2. PICK t : g = <<j, Entry(j, t)>> /\ Found(j, t)
      BY <3>1
    <3>3. j = k /\ Place(k, t) = Place(k, s)
      BY <2>3, <2>4, <3>2 DEF Found
    <3>4. k \in 1..Len(roots)
      BY LenProperties DEF WalkInv, TypeInv
    <3>5. Real(roots[k]) \in Seq(Names) /\ s \in Seq(Names) /\ t \in Seq(Names)
      BY <2>2, <3>2, <3>4, RootIs DEF WalkInv, Found
    <3>6. t = s
      BY <3>3, <3>5, CancelLeft DEF Place
    <3> QED BY <2>2, <3>2, <3>3, <3>6
  <2> QED BY <2>2, <2>3, <2>4 DEF Found, Walkable
<1> QED BY <1>1, WalkInvariant, PTL
=============================================================================
