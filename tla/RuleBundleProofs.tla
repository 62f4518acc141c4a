--------------------------- MODULE RuleBundleProofs ---------------------------
(***************************************************************************)
(* Proofs about RuleBundle, for every text: that its three readers agree.  *)
(* Each of them goes through a text symbol by symbol, so what is said of   *)
(* two of them together is shown by induction over the symbols read.  Then *)
(* that files which end their lines are read one after the other as each   *)
(* would be alone, and what the build does with them.                      *)
(***************************************************************************)
EXTENDS RuleBundle, SequenceTheorems, FiniteSetTheorems, WellFoundedInduction, TLAPS

-----------------------------------------------------------------------------
(* Numbers.  A set of numbers stands for what is shown by induction. *)

\* A set of numbers that is not empty has a least one.
LEMMA LeastNat ==
    ASSUME NEW S \in SUBSET Nat, S # {}
    PROVE  \E x \in S : \A y \in S : x <= y
<1> DEFINE R == {ss \in Nat \X Nat : ss[1] < ss[2]}
<1>1. IsWellFoundedOn(R, Nat)
  BY NatLessThanWellFounded DEF OpToRel
<1>2. \A x, y \in Nat : <<y, x>> \in R <=> y < x
  OBVIOUS
<1> HIDE DEF R
<1>3. PICK x \in S : \A y \in S : ~ (<<y, x>> \in R)
  BY <1>1, WFMin
<1>4. ASSUME NEW y \in S PROVE x <= y
  <2>1. x \in Nat /\ y \in Nat
    OBVIOUS
  <2>2. ~ (y < x)
    BY <1>2, <1>3, <2>1
  <2> QED BY <2>1, <2>2
<1> QED BY <1>4

\* What holds of 0, and of the successor of each number it holds of, holds of all.
LEMMA Induction ==
    ASSUME NEW S, 0 \in S, \A n \in Nat : n \in S => n + 1 \in S
    PROVE  Nat \subseteq S
<1> SUFFICES ASSUME Nat \ S # {} PROVE FALSE
  OBVIOUS
<1>1. PICK x \in Nat \ S : \A y \in Nat \ S : x <= y
  <2> DEFINE T == Nat \ S
  <2>1. T \in SUBSET Nat /\ T # {}
    OBVIOUS
  <2> HIDE DEF T
  <2>2. \E x \in T : \A y \in T : x <= y
    BY <2>1, LeastNat
  <2> QED BY <2>2 DEF T
<1>2. x # 0 /\ x - 1 \in Nat /\ x - 1 \notin Nat \ S
  BY <1>1
<1>3. (x - 1) + 1 \in S
  BY <1>2
<1> QED BY <1>1, <1>3

\* What holds of 0, and below n of the successor of each number it holds of, holds up
\* to n.
LEMMA InductionTo ==
    ASSUME NEW n \in Nat, NEW S, 0 \in S, \A i \in Nat : i < n /\ i \in S => i + 1 \in S
    PROVE  0..n \subseteq S
<1> DEFINE T == {i \in Nat : i <= n => i \in S}
<1>1. 0 \in T
  OBVIOUS
<1>2. ASSUME NEW i \in Nat, i \in T PROVE i + 1 \in T
  <2>1. CASE i + 1 <= n
    <3>1. i < n /\ i <= n
      BY <2>1
    <3>2. i + 1 \in S
      BY <1>2, <3>1
    <3> QED BY <3>2
  <2> QED BY <2>1
<1> HIDE DEF T
<1>3. Nat \subseteq T
  BY <1>1, <1>2, Induction
<1> QED BY <1>3 DEF T

\* A function by recursion: n steps from a start.
Steps(States, n) == [States \X (1..n) -> States]
IsRun(States, start, n, step, f) ==
    /\ f \in [0..n -> States]
    /\ f[0] = start
    /\ \A i \in 0..n : i < n => f[i + 1] = step[<<f[i], i + 1>>]

\* A run exists: a function whose values are given, each by the one before, up to a number.
LEMMA Recursion ==
    ASSUME NEW States, NEW start \in States, NEW n \in Nat, NEW step \in Steps(States, n)
    PROVE  \E f : IsRun(States, start, n, step, f)
<1> DEFINE Is(f, k) == /\ f \in [0..k -> States]
                       /\ f[0] = start
                       /\ \A i \in 0..k : i < k => f[i + 1] = step[<<f[i], i + 1>>]
           S == {k \in Nat : \E f : Is(f, k)}
<1>1. 0 \in S
  <2>1. Is([i \in 0..0 |-> start], 0)
    OBVIOUS
  <2> QED BY <2>1
<1>2. ASSUME NEW k \in Nat, k < n, k \in S PROVE k + 1 \in S
  <2>1. PICK f : Is(f, k)
    BY <1>2
  <2> DEFINE last == step[<<f[k], k + 1>>]
             g == [i \in 0..(k + 1) |-> IF i <= k THEN f[i] ELSE last]
  <2>2. last \in States
    <3>1. f[k] \in States /\ k + 1 \in 1..n
      BY <1>2, <2>1
    <3> QED BY <3>1 DEF Steps
  <2>3. g \in [0..(k + 1) -> States]
    <3> HIDE DEF last
    <3>1. \A i \in 0..(k + 1) : i <= k => i \in 0..k
      OBVIOUS
    <3> QED BY <2>1, <2>2, <3>1
  <2>4. g[0] = start
    BY <2>1
  <2>5. ASSUME NEW i \in 0..(k + 1), i < k + 1 PROVE g[i + 1] = step[<<g[i], i + 1>>]
    <3>1. i \in 0..k /\ g[i] = f[i] /\ i + 1 \in 0..(k + 1)
      BY <2>5
    <3>2. CASE i = k
      BY <3>1, <3>2
    <3>3. CASE i # k
      <4>1. i < k /\ i + 1 <= k /\ g[i + 1] = f[i + 1]
        BY <3>1, <3>3
      <4> QED BY <2>1, <3>1, <4>1
    <3> QED BY <3>2, <3>3
  <2>6. Is(g, k + 1)
    BY <2>3, <2>4, <2>5
  <2> HIDE DEF g, Is
  <2> QED BY <2>6
<1>3. n \in S
  <2> HIDE DEF S
  <2>1. n \in 0..n
    OBVIOUS
  <2> QED BY <1>1, <1>2, <2>1, InductionTo
<1>4. PICK f : Is(f, n)
  BY <1>3
<1> QED BY <1>4 DEF IsRun

-----------------------------------------------------------------------------
(* The readers. *)

AwkStates == [mode : {"code", "line", "block", "quote", "regex"}, skip : BOOLEAN,
              escaped : BOOLEAN, sig : Symbols, out : Seq(Symbols)]

TokenSymbols == Symbols \cup {"string", "regex"}
TokenType == [sym : TokenSymbols, line : Nat, spaced : BOOLEAN]
LexStates == [mode : {"code", "line", "block", "string", "regex", "bad"}, skip : BOOLEAN,
              line : Nat, tokens : Seq(TokenType)]

\* A step of the awk program keeps the types of its state.
LEMMA AwkType ==
    ASSUME NEW s \in AwkStates, NEW c \in Symbols, NEW n \in Symbols
    PROVE  Awk(s, c, n) \in AwkStates
<1>1. NL \in Symbols /\ SP \in Symbols
  BY DEF Symbols
<1>2. Append(s.out, c) \in Seq(Symbols) /\ Append(s.out, NL) \in Seq(Symbols)
  BY <1>1 DEF AwkStates
<1>3. AwkNewline(s) \in AwkStates
  BY <1>2 DEF AwkNewline, AwkStates
<1>4. AwkPrint(s, c) \in AwkStates
  BY <1>2 DEF AwkPrint, AwkStates
<1>5. \A end : AwkQuoted(s, c, end) \in AwkStates
  BY <1>4 DEF AwkQuoted, AwkStates
<1>6. AwkCode(s, c, n) \in AwkStates
  BY <1>4 DEF AwkCode, AwkStates
<1>7. s.mode \in {"code", "line", "block", "quote", "regex"}
  BY DEF AwkStates
<1>8. [s EXCEPT !.skip = FALSE] \in AwkStates /\ [s EXCEPT !.mode = "code", !.skip = TRUE] \in AwkStates
  BY DEF AwkStates
<1> QED BY <1>3, <1>5, <1>6, <1>7, <1>8 DEF Awk

\* A token more keeps the types of the state of the reader.
LEMMA EmitType ==
    ASSUME NEW s \in LexStates, NEW t \in TokenSymbols, NEW n
    PROVE  Emit(s, t, n) \in LexStates
<1> DEFINE token == [sym |-> t, line |-> s.line, spaced |-> n = SP]
<1>1. token \in TokenType
  BY DEF TokenType, LexStates
<1> HIDE DEF token
<1>2. Append(s.tokens, token) \in Seq(TokenType)
  BY <1>1 DEF LexStates
<1>3. Emit(s, t, n) = [s EXCEPT !.mode = "code", !.tokens = Append(s.tokens, token)]
  BY DEF Emit, token
<1> QED BY <1>2, <1>3 DEF LexStates

\* A step of the reader of the compiler keeps the types of its state.
LEMMA LexType ==
    ASSUME NEW s \in LexStates, NEW c \in Symbols, NEW n
    PROVE  Lex(s, c, n) \in LexStates
<1>1. LexNewline(s) \in LexStates
  <2> DEFINE mode == IF s.mode \in {"string", "regex"} THEN "bad"
                     ELSE IF s.mode = "line" THEN "code" ELSE s.mode
  <2>1. mode \in {"code", "line", "block", "string", "regex", "bad"} /\ s.line + 1 \in Nat
    BY DEF LexStates
  <2>2. LexNewline(s) = [s EXCEPT !.line = s.line + 1, !.mode = mode]
    BY DEF LexNewline
  <2> HIDE DEF mode
  <2> QED BY <2>1, <2>2 DEF LexStates
<1>2. s.mode \in {"string", "regex"} => LexQuoted(s, c, n) \in LexStates
  <2>1. [s EXCEPT !.skip = TRUE] \in LexStates
    BY DEF LexStates
  <2>2. s.mode \in {"string", "regex"} => Emit(s, s.mode, n) \in LexStates
    <3>1. s.mode \in {"string", "regex"} => s.mode \in TokenSymbols
      BY DEF TokenSymbols
    <3> QED BY <3>1, EmitType
  <2> QED BY <2>1, <2>2 DEF LexQuoted
<1>3. LexCode(s, c, n) \in LexStates
  <2>1. /\ [s EXCEPT !.mode = "string"] \in LexStates
        /\ [s EXCEPT !.mode = "block", !.skip = TRUE] \in LexStates
        /\ [s EXCEPT !.mode = IF n = "/" THEN "line" ELSE "regex"] \in LexStates
    BY DEF LexStates
  <2>2. Emit(s, c, n) \in LexStates
    <3>1. c \in TokenSymbols
      BY DEF TokenSymbols
    <3> QED BY <3>1, EmitType
  <2> QED BY <2>1, <2>2 DEF LexCode
<1>4. s.mode \in {"code", "line", "block", "string", "regex", "bad"}
  BY DEF LexStates
<1>5. [s EXCEPT !.skip = FALSE] \in LexStates /\ [s EXCEPT !.mode = "code", !.skip = TRUE] \in LexStates
  BY DEF LexStates
<1> QED BY <1>1, <1>2, <1>3, <1>4, <1>5 DEF Lex

\* The symbol a reader sees after the i-th.
Ahead(text, i) == IF i < Len(text) THEN text[i + 1] ELSE NL

\* The states that the readers go through.
AwkRun(text) ==
    CHOOSE after : after = [i \in 0..Len(text) |->
                               IF i = 0 THEN AwkStart ELSE Awk(after[i - 1], text[i], Ahead(text, i))]
LexRun(text) ==
    CHOOSE after : after = [i \in 0..Len(text) |->
                               IF i = 0 THEN LexStart ELSE Lex(after[i - 1], text[i], Ahead(text, i))]

\* A text is a sequence of symbols, and so is what is ahead of each place.
LEMMA TextIs ==
    ASSUME NEW text \in Seq(Symbols)
    PROVE  /\ Len(text) \in Nat
           /\ \A i \in Nat : i < Len(text) => text[i + 1] \in Symbols
           /\ \A i \in 1..Len(text) : text[i] \in Symbols
           /\ \A i \in Nat : Ahead(text, i) \in Symbols
<1>1. Len(text) \in Nat /\ \A i \in 1..Len(text) : text[i] \in Symbols
  BY LenProperties, ElementOfSeq
<1>2. \A i \in Nat : i < Len(text) => i + 1 \in 1..Len(text)
  BY <1>1
<1>3. NL \in Symbols
  BY DEF Symbols
<1> QED BY <1>1, <1>2, <1>3 DEF Ahead

\* What each step keeps holds in all states of a run.
LEMMA RunType ==
    ASSUME NEW States, NEW n \in Nat, NEW r, r[0] \in States,
           \A i \in Nat : i < n /\ r[i] \in States => r[i + 1] \in States
    PROVE  \A i \in 0..n : r[i] \in States
<1> DEFINE S == {i \in Nat : r[i] \in States}
<1>1. 0 \in S /\ \A i \in Nat : i < n /\ i \in S => i + 1 \in S
  OBVIOUS
<1> HIDE DEF S
<1>2. 0..n \subseteq S
  BY <1>1, InductionTo
<1> QED BY <1>2 DEF S

\* The run of the awk program over a text: it exists, is typed, and ends where Read does.
LEMMA AwkRunIs ==
    ASSUME NEW text \in Seq(Symbols)
    PROVE  /\ AwkRun(text) \in [0..Len(text) -> AwkStates]
           /\ AwkRun(text)[0] = AwkStart
           /\ \A i \in Nat : i < Len(text) =>
                 AwkRun(text)[i + 1] = Awk(AwkRun(text)[i], text[i + 1], Ahead(text, i + 1))
           /\ Read(Awk, AwkStart, text) = AwkRun(text)[Len(text)]
<1> DEFINE n == Len(text)
           Step(s, i) == Awk(s, text[i], Ahead(text, i))
           step == [x \in AwkStates \X (1..n) |-> Step(x[1], x[2])]
           Is(f) == f = [i \in 0..n |-> IF i = 0 THEN AwkStart ELSE Step(f[i - 1], i)]
<1>1. n \in Nat /\ \A s \in AwkStates : \A i \in 1..n : Step(s, i) \in AwkStates
  BY TextIs, AwkType
<1>2. AwkStart \in AwkStates
  BY DEF AwkStart, AwkStates, Symbols
<1>3. \E f : Is(f)
  <2>1. step \in Steps(AwkStates, n)
    <3> HIDE DEF Step
    <3> QED BY <1>1 DEF Steps
  <2>2. \A s \in AwkStates : \A i \in 1..n : step[<<s, i>>] = Step(s, i)
    <3> HIDE DEF Step
    <3> QED OBVIOUS
  <2> HIDE DEF step, Step
  <2>3. PICK f : IsRun(AwkStates, AwkStart, n, step, f)
    <3> HIDE DEF n
    <3> QED BY <1>1, <1>2, <2>1, Recursion
  <2>4. ASSUME NEW i \in 0..n PROVE f[i] = IF i = 0 THEN AwkStart ELSE Step(f[i - 1], i)
    <3>1. CASE i = 0
      BY <2>3, <3>1 DEF IsRun
    <3>2. CASE i # 0
      <4>1. i \in 1..n /\ i - 1 \in 0..n /\ i - 1 < n /\ (i - 1) + 1 = i
        BY <1>1, <3>2
      <4>2. f[i - 1] \in AwkStates /\ f[(i - 1) + 1] = step[<<f[i - 1], (i - 1) + 1>>]
        BY <2>3, <4>1 DEF IsRun
      <4> QED BY <2>2, <3>2, <4>1, <4>2
    <3> QED BY <3>1, <3>2
  <2>5. f = [i \in 0..n |-> f[i]]
    BY <2>3 DEF IsRun
  <2>6. Is(f)
    BY <2>4, <2>5
  <2> QED BY <2>6
<1> DEFINE r == AwkRun(text)
<1>4. Is(r)
  BY <1>3 DEF AwkRun
<1>5. r[0] = AwkStart
  BY <1>1, <1>4
<1>6. ASSUME NEW i \in Nat, i < n PROVE r[i + 1] = Step(r[i], i + 1)
  <2>1. (i + 1) - 1 = i /\ i + 1 \in 0..n /\ i + 1 # 0
    BY <1>1, <1>6
  <2> HIDE DEF r, Step
  <2> QED BY <1>4, <2>1
<1>7. r \in [0..n -> AwkStates]
  <2> HIDE DEF r, Step, n
  <2>1. ASSUME NEW i \in Nat, i < n, r[i] \in AwkStates PROVE r[i + 1] \in AwkStates
    <3>1. i + 1 \in 1..n
      BY <1>1, <2>1
    <3> QED BY <1>1, <1>6, <2>1, <3>1
  <2>2. \A i \in 0..n : r[i] \in AwkStates
    BY <1>1, <1>2, <1>5, <2>1, RunType
  <2> QED BY <1>4, <2>2
<1>8. Read(Awk, AwkStart, text) = r[n]
  BY DEF Read, AwkRun, Ahead
<1> QED BY <1>5, <1>6, <1>7, <1>8

\* The run of the reader of the compiler over a text: it exists, is typed, and ends where Read does.
LEMMA LexRunIs ==
    ASSUME NEW text \in Seq(Symbols)
    PROVE  /\ LexRun(text) \in [0..Len(text) -> LexStates]
           /\ LexRun(text)[0] = LexStart
           /\ \A i \in Nat : i < Len(text) =>
                 LexRun(text)[i + 1] = Lex(LexRun(text)[i], text[i + 1], Ahead(text, i + 1))
           /\ Read(Lex, LexStart, text) = LexRun(text)[Len(text)]
<1> DEFINE n == Len(text)
           Step(s, i) == Lex(s, text[i], Ahead(text, i))
           step == [x \in LexStates \X (1..n) |-> Step(x[1], x[2])]
           Is(f) == f = [i \in 0..n |-> IF i = 0 THEN LexStart ELSE Step(f[i - 1], i)]
<1>1. n \in Nat /\ \A s \in LexStates : \A i \in 1..n : Step(s, i) \in LexStates
  BY TextIs, LexType
<1>2. LexStart \in LexStates
  BY DEF LexStart, LexStates
<1>3. \E f : Is(f)
  <2>1. step \in Steps(LexStates, n)
    <3> HIDE DEF Step
    <3> QED BY <1>1 DEF Steps
  <2>2. \A s \in LexStates : \A i \in 1..n : step[<<s, i>>] = Step(s, i)
    <3> HIDE DEF Step
    <3> QED OBVIOUS
  <2> HIDE DEF step, Step
  <2>3. PICK f : IsRun(LexStates, LexStart, n, step, f)
    <3> HIDE DEF n
    <3> QED BY <1>1, <1>2, <2>1, Recursion
  <2>4. ASSUME NEW i \in 0..n PROVE f[i] = IF i = 0 THEN LexStart ELSE Step(f[i - 1], i)
    <3>1. CASE i = 0
      BY <2>3, <3>1 DEF IsRun
    <3>2. CASE i # 0
      <4>1. i \in 1..n /\ i - 1 \in 0..n /\ i - 1 < n /\ (i - 1) + 1 = i
        BY <1>1, <3>2
      <4>2. f[i - 1] \in LexStates /\ f[(i - 1) + 1] = step[<<f[i - 1], (i - 1) + 1>>]
        BY <2>3, <4>1 DEF IsRun
      <4> QED BY <2>2, <3>2, <4>1, <4>2
    <3> QED BY <3>1, <3>2
  <2>5. f = [i \in 0..n |-> f[i]]
    BY <2>3 DEF IsRun
  <2>6. Is(f)
    BY <2>4, <2>5
  <2> QED BY <2>6
<1> DEFINE r == LexRun(text)
<1>4. Is(r)
  BY <1>3 DEF LexRun
<1>5. r[0] = LexStart
  BY <1>1, <1>4
<1>6. ASSUME NEW i \in Nat, i < n PROVE r[i + 1] = Step(r[i], i + 1)
  <2>1. (i + 1) - 1 = i /\ i + 1 \in 0..n /\ i + 1 # 0
    BY <1>1, <1>6
  <2> HIDE DEF r, Step
  <2> QED BY <1>4, <2>1
<1>7. r \in [0..n -> LexStates]
  <2> HIDE DEF r, Step, n
  <2>1. ASSUME NEW i \in Nat, i < n, r[i] \in LexStates PROVE r[i + 1] \in LexStates
    <3>1. i + 1 \in 1..n
      BY <1>1, <2>1
    <3> QED BY <1>1, <1>6, <2>1, <3>1
  <2>2. \A i \in 0..n : r[i] \in LexStates
    BY <1>1, <1>2, <1>5, <2>1, RunType
  <2> QED BY <1>4, <2>2
<1>8. Read(Lex, LexStart, text) = r[n]
  BY DEF Read, LexRun, Ahead
<1> QED BY <1>5, <1>6, <1>7, <1>8

-----------------------------------------------------------------------------
(***************************************************************************)
(* What build-rules.sh counts is declared.  The awk program and the lexer  *)
(* go through the text together until one of them is Broken: the text does *)
(* not compile, or has a regular expression that awk does not know.        *)
(***************************************************************************)
\* The word `rule` at k begins its line, as grep wants it.
BeginsLine(out, k) ==
    \E b \in 1..k : /\ b = 1 \/ out[b - 1] = NL
                    /\ \A m \in b..(k - 1) : out[m] = SP \/ (out[m] \in Modifiers /\ out[m + 1] = SP)
\* Only spaces are between k and j.
Spaces(out, k, j) == \A m \in (k + 1)..(j - 1) : out[m] = SP

Quoted(mode) == mode \in {"quote", "regex"}

\* Token t is the `rule` that is printed at k, and what follows it there is what
\* follows it in the tokens.
IsOf(out, tokens, mode, k, t) ==
    /\ tokens[t].sym = "rule"
    /\ Spaces(out, k, Len(out) + 1) => t = Len(tokens) /\ ~Quoted(mode)
    /\ \A j \in (k + 1)..Len(out) : out[j] \in Words /\ Spaces(out, k, j) =>
           t + 1 \in 1..Len(tokens) /\ tokens[t + 1].sym = out[j]
Tracked(out, tokens, mode) ==
    \A k \in 1..Len(out) : out[k] = "rule" /\ BeginsLine(out, k) =>
        \E t \in 1..Len(tokens) : IsOf(out, tokens, mode, k, t)

\* A string or a regular expression has begun on the line that is printed.
Opened(out) == \E m \in 1..Len(out) : /\ out[m] \in {"quote", "/"}
                                      /\ \A i \in m..Len(out) : out[i] # NL
\* The last token is one that a regular expression may follow.
Ends(tokens) == Len(tokens) > 0 /\ tokens[Len(tokens)].sym = "="

Together(a, l, n) ==
    /\ <<a.mode, l.mode>> \in {<<"code", "code">>, <<"line", "line">>, <<"block", "block">>,
                               <<"quote", "string">>, <<"regex", "regex">>}
    /\ IF Quoted(a.mode) THEN ~a.skip /\ (a.escaped <=> l.skip) /\ Opened(a.out)
       ELSE /\ a.skip <=> l.skip
            /\ a.skip => n \in {"*", "/"}
            /\ a.sig = "=" <=> Ends(l.tokens)
    /\ Tracked(a.out, l.tokens, a.mode)

Broken(l) ==
    \/ l.mode = "bad"
    \/ l.mode = "regex" /\ ~Ends(l.tokens)
    \/ \E t \in 1..Len(l.tokens) :
          l.tokens[t].sym = "regex" /\ (t = 1 \/ l.tokens[t - 1].sym # "=")

\* A sequence with one more element.
LEMMA Appended ==
    ASSUME NEW S, NEW s \in Seq(S), NEW x \in S
    PROVE  /\ Append(s, x) \in Seq(S)
           /\ Len(s) \in Nat
           /\ Len(Append(s, x)) = Len(s) + 1
           /\ Append(s, x)[Len(s) + 1] = x
           /\ \A i \in 1..Len(s) : Append(s, x)[i] = s[i] /\ s[i] \in S
BY AppendProperties, LenProperties, ElementOfSeq

\* What begins its line goes on to do so, and was seen to at once.
LEMMA BeginsBefore ==
    ASSUME NEW out \in Seq(Symbols), NEW c \in Symbols, NEW k \in 1..Len(out),
           BeginsLine(Append(out, c), k)
    PROVE  BeginsLine(out, k)
<1> DEFINE more == Append(out, c)
<1>1. Len(out) \in Nat /\ \A i \in 1..Len(out) : more[i] = out[i]
  BY Appended
<1> HIDE DEF more
<1>2. PICK b \in 1..k : /\ b = 1 \/ more[b - 1] = NL
                        /\ \A m \in b..(k - 1) : more[m] = SP \/ (more[m] \in Modifiers /\ more[m + 1] = SP)
  BY DEF BeginsLine, more
<1>3. b = 1 \/ out[b - 1] = NL
  <2>1. CASE b # 1
    <3>1. b - 1 \in 1..Len(out)
      BY <1>1, <2>1
    <3> QED BY <1>1, <1>2, <2>1, <3>1
  <2> QED BY <2>1
<1>4. ASSUME NEW m \in b..(k - 1) PROVE out[m] = SP \/ (out[m] \in Modifiers /\ out[m + 1] = SP)
  <2>1. m \in 1..Len(out) /\ m + 1 \in 1..Len(out)
    BY <1>1
  <2> QED BY <1>1, <1>2, <2>1
<1> QED BY <1>3, <1>4 DEF BeginsLine

\* The spaces before a place do not depend on what comes after it.
LEMMA SpacesBefore ==
    ASSUME NEW out \in Seq(Symbols), NEW c \in Symbols, NEW k \in 1..Len(out),
           NEW j \in 1..(Len(out) + 1)
    PROVE  Spaces(Append(out, c), k, j) <=> Spaces(out, k, j)
<1> DEFINE more == Append(out, c)
<1>1. Len(out) \in Nat /\ \A i \in 1..Len(out) : more[i] = out[i]
  BY Appended
<1>2. \A m \in (k + 1)..(j - 1) : m \in 1..Len(out)
  BY <1>1
<1> HIDE DEF more
<1>3. Spaces(more, k, j) <=> Spaces(out, k, j)
  BY <1>1, <1>2 DEF Spaces
<1> QED BY <1>3 DEF more

\* One more symbol is printed: it is followed as the ones before.
LEMMA TrackedStep ==
    ASSUME NEW out \in Seq(Symbols), NEW c \in Symbols, NEW tokens \in Seq(TokenType),
           NEW more \in Seq(TokenType), NEW mode, NEW modeMore, NEW token \in TokenType,
           more = tokens \/ more = Append(tokens, token),
           Tracked(out, tokens, mode),
           c = SP => Quoted(mode) \/ (more = tokens /\ ~Quoted(modeMore)),
           c \in Words /\ ~Quoted(mode) => more = Append(tokens, token) /\ token.sym = c /\ ~Quoted(modeMore),
           Quoted(mode) => ~BeginsLine(Append(out, c), Len(out) + 1)
    PROVE  Tracked(Append(out, c), more, modeMore)
<1> DEFINE after == Append(out, c)
<1>1. /\ Len(out) \in Nat /\ Len(after) = Len(out) + 1 /\ after[Len(out) + 1] = c
      /\ \A i \in 1..Len(out) : after[i] = out[i]
  BY Appended
<1>2. /\ Len(tokens) \in Nat /\ Len(more) \in Len(tokens)..(Len(tokens) + 1)
      /\ \A t \in 1..Len(tokens) : more[t] = tokens[t]
      /\ more = Append(tokens, token) => Len(more) = Len(tokens) + 1 /\ more[Len(tokens) + 1] = token
      /\ more = tokens => Len(more) = Len(tokens)
  BY Appended, SMTT(30)
<1>3. "rule" \in Words
  BY DEF Words
<1> SUFFICES ASSUME NEW k \in 1..Len(after), after[k] = "rule", BeginsLine(after, k)
             PROVE  \E t \in 1..Len(more) : IsOf(after, more, modeMore, k, t)
  BY DEF Tracked
<1>4. CASE k = Len(out) + 1
  <2>1. c = "rule" /\ ~Quoted(mode)
    BY <1>1, <1>4
  <2>2. more = Append(tokens, token) /\ token.sym = "rule" /\ ~Quoted(modeMore)
    BY <1>3, <2>1
  <2> DEFINE t == Len(tokens) + 1
  <2>3. t \in 1..Len(more) /\ more[t].sym = "rule" /\ t = Len(more)
    BY <1>2, <2>2
  <2>4. (k + 1)..Len(after) = {}
    BY <1>1, <1>4
  <2> QED BY <2>2, <2>3, <2>4 DEF IsOf
<1>5. CASE k # Len(out) + 1
  <2>1. k \in 1..Len(out)
    BY <1>1, <1>5
  <2>2. out[k] = "rule" /\ BeginsLine(out, k)
    BY <1>1, <2>1, BeginsBefore
  <2>3. PICK t \in 1..Len(tokens) : IsOf(out, tokens, mode, k, t)
    BY <2>1, <2>2 DEF Tracked
  <2>4. t \in 1..Len(more) /\ more[t].sym = "rule"
    BY <1>2, <2>3 DEF IsOf
  <2>5. \A j \in 1..(Len(out) + 1) : Spaces(after, k, j) <=> Spaces(out, k, j)
    BY <2>1, SpacesBefore
  <2>6. Spaces(out, k, Len(out) + 1) => t = Len(tokens) /\ ~Quoted(mode)
    BY <2>3 DEF IsOf
  <2>7. ASSUME Spaces(after, k, Len(after) + 1) PROVE t = Len(more) /\ ~Quoted(modeMore)
    <3>1. Len(out) + 1 \in (k + 1)..(Len(after) + 1 - 1)
      BY <1>1, <2>1
    <3>2. c = SP
      BY <1>1, <2>7, <3>1 DEF Spaces
    <3>3. Spaces(after, k, Len(out) + 1)
      <4>1. \A m \in (k + 1)..(Len(out) + 1 - 1) : m \in (k + 1)..(Len(after) + 1 - 1)
        BY <1>1
      <4> QED BY <2>7, <4>1 DEF Spaces
    <3>4. Len(out) + 1 \in 1..(Len(out) + 1)
      BY <1>1
    <3>5. t = Len(tokens) /\ ~Quoted(mode)
      BY <2>5, <2>6, <3>3, <3>4
    <3> QED BY <1>2, <3>2, <3>5
  <2>8. ASSUME NEW j \in (k + 1)..Len(after), after[j] \in Words, Spaces(after, k, j)
        PROVE  t + 1 \in 1..Len(more) /\ more[t + 1].sym = after[j]
    <3>1. j \in 1..(Len(out) + 1) /\ Len(out) \in Nat /\ k \in Nat /\ k + 1 <= j
      BY <1>1, <2>1
    <3>2. Spaces(out, k, j)
      BY <2>5, <2>8, <3>1
    <3>3. CASE j = Len(out) + 1
      <4>1. t = Len(tokens) /\ ~Quoted(mode)
        BY <2>6, <3>2, <3>3
      <4>2. c \in Words /\ after[j] = c
        BY <1>1, <2>8, <3>3
      <4>3. more = Append(tokens, token) /\ token.sym = c
        BY <4>1, <4>2
      <4> QED BY <1>2, <4>1, <4>2, <4>3
    <3>4. CASE j # Len(out) + 1
      <4>1. j \in (k + 1)..Len(out) /\ j \in 1..Len(out)
        BY <3>1, <3>4
      <4>2. out[j] \in Words /\ after[j] = out[j]
        BY <1>1, <2>8, <4>1
      <4>3. t + 1 \in 1..Len(tokens) /\ tokens[t + 1].sym = out[j]
        BY <2>3, <3>2, <4>1, <4>2 DEF IsOf
      <4> QED BY <1>2, <4>2, <4>3
    <3> QED BY <3>3, <3>4
  <2> QED BY <2>4, <2>7, <2>8 DEF IsOf
<1> QED BY <1>4, <1>5

\* A symbol that is not printed changes nothing, outside strings.
LEMMA TrackedMode ==
    ASSUME NEW out, NEW tokens, NEW mode, NEW modeMore, Tracked(out, tokens, mode), ~Quoted(modeMore)
    PROVE  Tracked(out, tokens, modeMore)
BY DEF Tracked, IsOf

\* A string or a regular expression that has begun takes the line.
LEMMA OpenedStep ==
    ASSUME NEW out \in Seq(Symbols), NEW c \in Symbols
    PROVE  /\ c \in {"quote", "/"} => Opened(Append(out, c))
           /\ Opened(out) /\ c # NL => Opened(Append(out, c))
           /\ Opened(out) => ~BeginsLine(Append(out, c), Len(out) + 1)
<1> DEFINE after == Append(out, c)
<1>1. /\ Len(out) \in Nat /\ Len(after) = Len(out) + 1 /\ after[Len(out) + 1] = c
      /\ \A i \in 1..Len(out) : after[i] = out[i]
  BY Appended
<1> HIDE DEF after
<1>2. ASSUME c \in {"quote", "/"} PROVE Opened(after)
  <2>1. Len(out) + 1 \in 1..Len(after) /\ \A i \in (Len(out) + 1)..Len(after) : i = Len(out) + 1
    BY <1>1
  <2>2. c # NL
    BY <1>2 DEF NL
  <2> QED BY <1>1, <1>2, <2>1, <2>2 DEF Opened
<1>3. ASSUME Opened(out), c # NL PROVE Opened(after)
  <2>1. PICK m \in 1..Len(out) : out[m] \in {"quote", "/"} /\ \A i \in m..Len(out) : out[i] # NL
    BY <1>3 DEF Opened
  <2>2. m \in 1..Len(after) /\ after[m] = out[m]
    BY <1>1
  <2>3. ASSUME NEW i \in m..Len(after) PROVE after[i] # NL
    <3>1. CASE i = Len(out) + 1
      BY <1>1, <1>3, <3>1
    <3>2. CASE i # Len(out) + 1
      <4>1. i \in 1..Len(out) /\ i \in m..Len(out)
        BY <1>1, <3>2
      <4> QED BY <1>1, <2>1, <4>1
    <3> QED BY <3>1, <3>2
  <2> QED BY <2>1, <2>2, <2>3 DEF Opened
<1>4. ASSUME Opened(out), BeginsLine(after, Len(out) + 1) PROVE FALSE
  <2>1. PICK m \in 1..Len(out) : out[m] \in {"quote", "/"} /\ \A i \in m..Len(out) : out[i] # NL
    BY <1>4 DEF Opened
  <2>2. PICK b \in 1..(Len(out) + 1) :
            /\ b = 1 \/ after[b - 1] = NL
            /\ \A i \in b..(Len(out) + 1 - 1) : after[i] = SP \/ (after[i] \in Modifiers /\ after[i + 1] = SP)
    BY <1>4 DEF BeginsLine
  <2>3. CASE b <= m
    <3>1. m \in b..(Len(out) + 1 - 1) /\ after[m] = out[m]
      BY <1>1, <2>3
    <3>2. out[m] = SP \/ out[m] \in Modifiers
      BY <2>2, <3>1
    <3> QED BY <2>1, <3>2 DEF SP, Modifiers
  <2>4. CASE ~(b <= m)
    <3>1. b # 1 /\ b - 1 \in 1..Len(out) /\ b - 1 \in m..Len(out)
      BY <1>1, <2>4
    <3>2. after[b - 1] = NL /\ after[b - 1] = out[b - 1]
      BY <1>1, <2>2, <3>1
    <3> QED BY <2>1, <3>1, <3>2
  <2> QED BY <2>3, <2>4
<1> QED BY <1>2, <1>3, <1>4 DEF after

\* What is no word, and what is no end of a line.
LEMMA NoWords ==
    /\ NL \notin Words /\ SP \notin Words /\ NL # SP
    /\ \A x \in Marks : x \notin Words /\ x # NL /\ x # SP
    /\ \A x \in Words : x # NL /\ x # SP
    /\ "rule" \in Words /\ NL \in Symbols /\ SP \in Symbols
BY NamesAssumption DEF Words, Modifiers, Marks, NL, SP, Symbols

TokenOf(l, t, n) == [sym |-> t, line |-> l.line, spaced |-> n = SP]

\* A token that is found is the last one.
LEMMA EmitIs ==
    ASSUME NEW l \in LexStates, NEW t \in TokenSymbols, NEW n
    PROVE  /\ Emit(l, t, n) \in LexStates
           /\ Emit(l, t, n).mode = "code" /\ Emit(l, t, n).skip = l.skip /\ Emit(l, t, n).line = l.line
           /\ TokenOf(l, t, n) \in TokenType /\ TokenOf(l, t, n).sym = t
           /\ Emit(l, t, n).tokens = Append(l.tokens, TokenOf(l, t, n))
           /\ Len(l.tokens) \in Nat /\ Len(Emit(l, t, n).tokens) = Len(l.tokens) + 1
           /\ Emit(l, t, n).tokens[Len(l.tokens) + 1].sym = t
           /\ \A i \in 1..Len(l.tokens) : Emit(l, t, n).tokens[i] = l.tokens[i]
<1> DEFINE token == TokenOf(l, t, n)
<1>1. token \in TokenType /\ token.sym = t
  BY DEF TokenType, LexStates, TokenOf
<1> HIDE DEF token
<1>2. l.tokens \in Seq(TokenType)
  BY DEF LexStates
<1>3. Emit(l, t, n) = [l EXCEPT !.mode = "code", !.tokens = Append(l.tokens, token)]
  BY DEF Emit, token, TokenOf
<1>4. /\ Emit(l, t, n).mode = "code" /\ Emit(l, t, n).skip = l.skip /\ Emit(l, t, n).line = l.line
      /\ Emit(l, t, n).tokens = Append(l.tokens, token)
  BY <1>3 DEF LexStates
<1>5. /\ Len(l.tokens) \in Nat /\ Len(Append(l.tokens, token)) = Len(l.tokens) + 1
      /\ Append(l.tokens, token)[Len(l.tokens) + 1] = token
      /\ \A i \in 1..Len(l.tokens) : Append(l.tokens, token)[i] = l.tokens[i]
  BY <1>1, <1>2, Appended
<1>6. Emit(l, t, n) \in LexStates
  BY EmitType
<1> QED BY <1>1, <1>4, <1>5, <1>6 DEF token

\* What a symbol that is printed changes.
LEMMA PrintIs ==
    ASSUME NEW a \in AwkStates, NEW c \in Symbols
    PROVE  /\ AwkPrint(a, c).out = Append(a.out, c) /\ AwkPrint(a, c).mode = a.mode
           /\ AwkPrint(a, c).skip = a.skip /\ AwkPrint(a, c).escaped = a.escaped
           /\ AwkPrint(a, c).sig = IF c = SP THEN a.sig ELSE c
BY DEF AwkPrint, AwkStates

\* A step of the reader finds no token, or one.
LEMMA LexGives ==
    ASSUME NEW l \in LexStates, NEW c \in Symbols, NEW n
    PROVE  \/ Lex(l, c, n).tokens = l.tokens /\ Lex(l, c, n).line \in {l.line, l.line + 1}
           \/ \E t \in TokenSymbols : l.mode # "bad" /\ Lex(l, c, n) = Emit(l, t, n)
<1>1. l.mode \in {"code", "line", "block", "string", "regex", "bad"} /\ l.tokens \in Seq(TokenType)
  BY DEF LexStates
<1>2. LexNewline(l).tokens = l.tokens /\ LexNewline(l).line = l.line + 1
  BY DEF LexNewline, LexStates
<1>3. l.mode \in {"string", "regex"} =>
        \/ LexQuoted(l, c, n).tokens = l.tokens /\ LexQuoted(l, c, n).line = l.line
        \/ LexQuoted(l, c, n) = Emit(l, l.mode, n)
  BY DEF LexQuoted, LexStates
<1>4. \/ LexCode(l, c, n).tokens = l.tokens /\ LexCode(l, c, n).line = l.line
      \/ LexCode(l, c, n) = Emit(l, c, n)
  BY DEF LexCode, LexStates
<1>5. /\ [l EXCEPT !.skip = FALSE].tokens = l.tokens /\ [l EXCEPT !.skip = FALSE].line = l.line
      /\ [l EXCEPT !.mode = "code", !.skip = TRUE].tokens = l.tokens
      /\ [l EXCEPT !.mode = "code", !.skip = TRUE].line = l.line
  BY DEF LexStates
<1>6. c \in TokenSymbols /\ (l.mode \in {"string", "regex"} => l.mode \in TokenSymbols)
  BY DEF TokenSymbols
<1> QED BY <1>1, <1>2, <1>3, <1>4, <1>5, <1>6 DEF Lex

\* The tokens that are found stay.
LEMMA LexGrows ==
    ASSUME NEW l \in LexStates, NEW c \in Symbols, NEW n
    PROVE  /\ Len(l.tokens) \in Nat /\ Len(Lex(l, c, n).tokens) \in Nat
           /\ Len(Lex(l, c, n).tokens) >= Len(l.tokens)
           /\ \A i \in 1..Len(l.tokens) : Lex(l, c, n).tokens[i] = l.tokens[i]
<1> DEFINE more == Lex(l, c, n)
<1>1. l.mode \in {"code", "line", "block", "string", "regex", "bad"} /\ l.tokens \in Seq(TokenType)
  BY DEF LexStates
<1>2. \/ more.tokens = l.tokens
      \/ \E t \in TokenSymbols : more = Emit(l, t, n)
  BY LexGives
<1>3. /\ Len(l.tokens) \in Nat /\ Len(more.tokens) \in Nat
      /\ Len(more.tokens) >= Len(l.tokens)
      /\ \A i \in 1..Len(l.tokens) : more.tokens[i] = l.tokens[i]
  <2>1. Len(l.tokens) \in Nat
    BY <1>1, LenProperties
  <2>2. CASE more.tokens = l.tokens
    BY <2>1, <2>2
  <2>3. ASSUME NEW t \in TokenSymbols, more = Emit(l, t, n)
        PROVE  /\ Len(more.tokens) \in Nat
               /\ Len(more.tokens) >= Len(l.tokens)
               /\ \A i \in 1..Len(l.tokens) : more.tokens[i] = l.tokens[i]
    <3> HIDE DEF more
    <3>1. Len(more.tokens) = Len(l.tokens) + 1 /\ \A i \in 1..Len(l.tokens) : more.tokens[i] = l.tokens[i]
      BY <2>3, EmitIs
    <3> QED BY <2>1, <3>1
  <2> HIDE DEF more
  <2> QED BY <1>2, <2>1, <2>2, <2>3
<1> QED BY <1>3

\* A reading that is broken stays so.
LEMMA BrokenStays ==
    ASSUME NEW l \in LexStates, NEW c \in Symbols, NEW n, Broken(l)
    PROVE  Broken(Lex(l, c, n))
<1> DEFINE more == Lex(l, c, n)
<1>1. l.mode \in {"code", "line", "block", "string", "regex", "bad"}
  BY DEF LexStates
<1>3. /\ Len(l.tokens) \in Nat /\ Len(more.tokens) >= Len(l.tokens)
      /\ \A i \in 1..Len(l.tokens) : more.tokens[i] = l.tokens[i]
  BY LexGrows
<1>4. CASE l.mode = "bad"
  BY <1>4 DEF Lex, Broken
<1>5. CASE l.mode = "regex" /\ ~Ends(l.tokens)
  <2>1. LexNewline(l).mode = "bad"
    BY <1>5 DEF LexNewline, LexStates
  <2>2. Broken([l EXCEPT !.skip = FALSE]) /\ Broken([l EXCEPT !.skip = TRUE])
    BY <1>5 DEF Broken, LexStates
  <2>3. Broken(Emit(l, "regex", n))
    <3>1. /\ Len(l.tokens) \in Nat /\ Len(Emit(l, "regex", n).tokens) = Len(l.tokens) + 1
          /\ Emit(l, "regex", n).tokens[Len(l.tokens) + 1].sym = "regex"
          /\ \A i \in 1..Len(l.tokens) : Emit(l, "regex", n).tokens[i] = l.tokens[i]
      <4> DEFINE r == "regex"
      <4>1. r \in TokenSymbols
        BY DEF TokenSymbols
      <4> HIDE DEF r
      <4>2. /\ Len(l.tokens) \in Nat /\ Len(Emit(l, r, n).tokens) = Len(l.tokens) + 1
            /\ Emit(l, r, n).tokens[Len(l.tokens) + 1].sym = r
            /\ \A i \in 1..Len(l.tokens) : Emit(l, r, n).tokens[i] = l.tokens[i]
        BY <4>1, EmitIs
      <4> QED BY <4>2 DEF r
    <3> DEFINE t == Len(l.tokens) + 1
    <3>2. t \in 1..Len(Emit(l, "regex", n).tokens)
      BY <3>1
    <3>3. t = 1 \/ Emit(l, "regex", n).tokens[t - 1].sym # "="
      <4>1. CASE t # 1
        <5>1. t - 1 = Len(l.tokens) /\ Len(l.tokens) \in 1..Len(l.tokens) /\ Len(l.tokens) > 0
          BY <3>1, <4>1
        <5> QED BY <1>5, <3>1, <5>1 DEF Ends
      <4> QED BY <4>1
    <3> QED BY <3>1, <3>2, <3>3 DEF Broken
  <2>4. Broken(LexQuoted(l, c, n))
    BY <1>5, <2>2, <2>3 DEF LexQuoted
  <2>5. more = LexNewline(l) \/ more = [l EXCEPT !.skip = FALSE] \/ more = LexQuoted(l, c, n)
    BY <1>5 DEF Lex
  <2>6. Broken(LexNewline(l)) /\ Broken([l EXCEPT !.skip = FALSE])
    BY <2>1, <2>2 DEF Broken
  <2> HIDE DEF more
  <2>7. Broken(more)
    BY <2>4, <2>5, <2>6
  <2> QED BY <2>7 DEF more
<1>6. CASE \E t \in 1..Len(l.tokens) : l.tokens[t].sym = "regex" /\ (t = 1 \/ l.tokens[t - 1].sym # "=")
  <2> HIDE DEF more
  <2>1. PICK t \in 1..Len(l.tokens) : l.tokens[t].sym = "regex" /\ (t = 1 \/ l.tokens[t - 1].sym # "=")
    BY <1>6
  <2>2. t \in 1..Len(more.tokens) /\ more.tokens[t] = l.tokens[t]
    BY <1>3
  <2>3. t = 1 \/ more.tokens[t - 1].sym # "="
    <3>1. CASE t # 1
      <4>1. t - 1 \in 1..Len(l.tokens)
        BY <1>3, <3>1
      <4> QED BY <1>3, <2>1, <3>1, <4>1
    <3> QED BY <3>1
  <2>4. Broken(more)
    BY <2>1, <2>2, <2>3 DEF Broken
  <2> QED BY <2>4 DEF more
<1> QED BY <1>4, <1>5, <1>6 DEF Broken

\* The types of the fields of the state of awk.
LEMMA AwkFields ==
    ASSUME NEW a \in AwkStates
    PROVE  /\ a.mode \in {"code", "line", "block", "quote", "regex"} /\ a.skip \in BOOLEAN
           /\ a.escaped \in BOOLEAN /\ a.sig \in Symbols /\ a.out \in Seq(Symbols)
BY DEF AwkStates

\* The types of the fields of the state of the reader.
LEMMA LexFields ==
    ASSUME NEW l \in LexStates
    PROVE  /\ l.mode \in {"code", "line", "block", "string", "regex", "bad"} /\ l.skip \in BOOLEAN
           /\ l.line \in Nat /\ l.tokens \in Seq(TokenType) /\ Len(l.tokens) \in Nat
BY LenProperties DEF LexStates

\* Outside a string and a regular expression a symbol is read by both in one way.
LEMMA TogetherPlain ==
    ASSUME NEW a \in AwkStates, NEW l \in LexStates, NEW c \in Symbols, NEW n \in Symbols,
           Together(a, l, c), a.mode \in {"line", "block"} \/ a.skip \/ c = NL, ~Quoted(a.mode)
    PROVE  Together(Awk(a, c, n), Lex(l, c, n), n)
<1>1. /\ l.mode = a.mode /\ a.mode \in {"code", "line", "block"} /\ l.mode # "bad"
      /\ l.mode \notin {"string", "regex"}
  BY DEF Together, Quoted
<1>2. (a.skip <=> l.skip) /\ (a.skip => c \in {"*", "/"}) /\ (a.sig = "=" <=> Ends(l.tokens))
  BY DEF Together
<1>3. \A mode : ~Quoted(mode) => Tracked(a.out, l.tokens, mode)
  BY <1>1, TrackedMode DEF Together
<1>4. a.skip \in BOOLEAN /\ l.skip \in BOOLEAN /\ a.out \in Seq(Symbols) /\ l.tokens \in Seq(TokenType)
  BY AwkFields, LexFields
<1>5. "*" # NL /\ "/" # NL
  BY DEF NL
<1>6. CASE a.skip
  <2>1. Awk(a, c, n) = [a EXCEPT !.skip = FALSE] /\ Lex(l, c, n) = [l EXCEPT !.skip = FALSE]
    BY <1>1, <1>2, <1>4, <1>5, <1>6 DEF Awk, Lex
  <2>2. /\ Awk(a, c, n).mode = a.mode /\ ~Awk(a, c, n).skip /\ Awk(a, c, n).out = a.out
        /\ Awk(a, c, n).sig = a.sig
        /\ Lex(l, c, n).mode = l.mode /\ ~Lex(l, c, n).skip /\ Lex(l, c, n).tokens = l.tokens
    BY <2>1 DEF AwkStates, LexStates
  <2> QED BY <1>1, <1>2, <1>3, <2>2 DEF Together, Quoted
<1>7. CASE ~a.skip /\ c = NL
  <2>1. Awk(a, c, n) = AwkNewline(a) /\ Lex(l, c, n) = LexNewline(l)
    BY <1>1, <1>2, <1>7 DEF Awk, Lex
  <2>2. /\ Awk(a, c, n).mode = (IF a.mode = "line" THEN "code" ELSE a.mode)
        /\ ~Awk(a, c, n).skip /\ Awk(a, c, n).out = Append(a.out, NL) /\ Awk(a, c, n).sig = a.sig
    BY <1>7, <2>1 DEF AwkNewline, AwkStates
  <2>3. /\ Lex(l, c, n).mode = (IF l.mode = "line" THEN "code" ELSE l.mode)
        /\ ~Lex(l, c, n).skip /\ Lex(l, c, n).tokens = l.tokens
    BY <1>1, <1>2, <1>7, <2>1 DEF LexNewline, LexStates
  <2>4. \A mode : ~Quoted(mode) => Tracked(Append(a.out, NL), l.tokens, mode)
    <3>1. NL \in Symbols /\ NL # SP /\ NL \notin Words
      BY NoWords
    <3> DEFINE token == [sym |-> NL, line |-> 0, spaced |-> FALSE]
    <3>2. token \in TokenType
      BY <3>1 DEF TokenType, TokenSymbols
    <3>3. Tracked(Append(a.out, NL), l.tokens, "code")
      <4>1. Tracked(a.out, l.tokens, "code") /\ ~Quoted("code")
        BY <1>3 DEF Quoted
      <4> HIDE DEF token
      <4> QED BY <1>4, <3>1, <3>2, <4>1, TrackedStep
    <3> QED BY <3>3, TrackedMode
  <2> QED BY <1>1, <1>2, <2>2, <2>3, <2>4 DEF Together, Quoted
<1>8. CASE ~a.skip /\ c # NL /\ a.mode = "line"
  <2>1. Awk(a, c, n) = a /\ Lex(l, c, n) = l
    BY <1>1, <1>2, <1>8 DEF Awk, Lex
  <2> QED BY <1>1, <1>2, <1>3, <1>8, <2>1 DEF Together, Quoted
<1>9. CASE ~a.skip /\ c # NL /\ a.mode = "block"
  <2>1. CASE c = "*" /\ n = "/"
    <3>1. /\ Awk(a, c, n) = [a EXCEPT !.mode = "code", !.skip = TRUE]
          /\ Lex(l, c, n) = [l EXCEPT !.mode = "code", !.skip = TRUE]
      BY <1>1, <1>2, <1>9, <2>1 DEF Awk, Lex
    <3>2. /\ Awk(a, c, n).mode = "code" /\ Awk(a, c, n).skip /\ Awk(a, c, n).out = a.out
          /\ Awk(a, c, n).sig = a.sig
          /\ Lex(l, c, n).mode = "code" /\ Lex(l, c, n).skip /\ Lex(l, c, n).tokens = l.tokens
      BY <3>1 DEF AwkStates, LexStates
    <3> QED BY <1>2, <1>3, <2>1, <3>2 DEF Together, Quoted
  <2>2. CASE ~(c = "*" /\ n = "/")
    <3>1. Awk(a, c, n) = a /\ Lex(l, c, n) = l
      BY <1>1, <1>2, <1>9, <2>2 DEF Awk, Lex
    <3> QED BY <1>1, <1>2, <1>3, <1>9, <3>1 DEF Together, Quoted
  <2> QED BY <2>1, <2>2
<1> QED BY <1>4, <1>6, <1>7, <1>8, <1>9

\* In a string or a regular expression: to its end, or the text is broken.
LEMMA TogetherQuoted ==
    ASSUME NEW a \in AwkStates, NEW l \in LexStates, NEW c \in Symbols, NEW n \in Symbols,
           Together(a, l, c), Quoted(a.mode)
    PROVE  Together(Awk(a, c, n), Lex(l, c, n), n) \/ Broken(Lex(l, c, n))
<1> DEFINE end == IF a.mode = "quote" THEN "quote" ELSE "/"
<1>1. /\ a.mode \in {"quote", "regex"} /\ l.mode = IF a.mode = "quote" THEN "string" ELSE "regex"
      /\ ~a.skip /\ (a.escaped <=> l.skip) /\ Opened(a.out) /\ Tracked(a.out, l.tokens, a.mode)
  BY DEF Together, Quoted
<1>2. /\ a.skip \in BOOLEAN /\ a.escaped \in BOOLEAN /\ l.skip \in BOOLEAN
      /\ a.out \in Seq(Symbols) /\ l.tokens \in Seq(TokenType)
  BY AwkFields, LexFields
<1>3. CASE c = NL
  <2>1. Lex(l, c, n).mode = "bad"
    BY <1>1, <1>3 DEF Lex, LexNewline, LexStates
  <2> QED BY <2>1 DEF Broken
<1>4. CASE c # NL
  <2>1. Awk(a, c, n) = AwkQuoted(a, c, end)
    BY <1>1, <1>4 DEF Awk
  <2>2. /\ Awk(a, c, n).out = Append(a.out, c) /\ ~Awk(a, c, n).skip
        /\ Awk(a, c, n).escaped = (~a.escaped /\ c = "backslash")
        /\ Awk(a, c, n).mode = (IF c = end /\ ~a.escaped THEN "code" ELSE a.mode)
        /\ Awk(a, c, n).sig = (IF c = SP THEN a.sig ELSE c)
    <3> HIDE DEF end
    <3> QED BY <1>1, <2>1 DEF AwkQuoted, AwkPrint, AwkStates
  <2>3. Opened(Append(a.out, c)) /\ ~BeginsLine(Append(a.out, c), Len(a.out) + 1)
    BY <1>1, <1>2, <1>4, OpenedStep
  <2>4. Tracked(Append(a.out, c), l.tokens, a.mode)
    <3> DEFINE token == [sym |-> c, line |-> 0, spaced |-> FALSE]
    <3>1. token \in TokenType
      BY DEF TokenType, TokenSymbols
    <3> HIDE DEF token
    <3> QED BY <1>1, <1>2, <2>3, <3>1, TrackedStep DEF Quoted
  <2>5. CASE c = end /\ ~a.escaped
    <3>1. Lex(l, c, n) = Emit(l, l.mode, n) /\ l.mode \in TokenSymbols /\ l.mode # "="
      BY <1>1, <1>2, <1>4, <2>5 DEF Lex, LexQuoted, TokenSymbols
    <3>2. /\ Lex(l, c, n).mode = "code" /\ ~Lex(l, c, n).skip
          /\ TokenOf(l, l.mode, n) \in TokenType
          /\ Lex(l, c, n).tokens = Append(l.tokens, TokenOf(l, l.mode, n))
          /\ Len(l.tokens) \in Nat /\ Len(Lex(l, c, n).tokens) = Len(l.tokens) + 1
          /\ Lex(l, c, n).tokens[Len(l.tokens) + 1].sym = l.mode
      <4> HIDE DEF end
      <4> QED BY <1>1, <1>2, <2>5, <3>1, EmitIs
    <3>3. Lex(l, c, n).tokens \in Seq(TokenType)
      BY <1>2, <3>2, Appended
    <3>4. Tracked(Append(a.out, c), Lex(l, c, n).tokens, "code")
      <4>1. Quoted(a.mode) /\ ~Quoted("code")
        BY <1>1 DEF Quoted
      <4> QED BY <1>1, <1>2, <2>3, <3>2, <3>3, <4>1, TrackedStep
    <3>5. ~Ends(Lex(l, c, n).tokens)
      BY <3>1, <3>2 DEF Ends
    <3>6. Awk(a, c, n).mode = "code" /\ Awk(a, c, n).sig # "="
      BY <2>2, <2>5 DEF SP
    <3> QED BY <2>2, <3>2, <3>4, <3>5, <3>6 DEF Together, Quoted
  <2>6. CASE ~(c = end /\ ~a.escaped)
    <3>1. /\ Lex(l, c, n).mode = l.mode /\ Lex(l, c, n).tokens = l.tokens
          /\ Lex(l, c, n).skip <=> (~a.escaped /\ c = "backslash")
      BY <1>1, <1>2, <1>4, <2>6 DEF Lex, LexQuoted, LexStates
    <3> QED BY <1>1, <2>2, <2>3, <2>4, <2>6, <3>1 DEF Together, Quoted
  <2> QED BY <2>5, <2>6
<1> QED BY <1>3, <1>4

\* In the code: where a comment, a string or a regular expression begins for one, it
\* begins for the other, or awk does not know the regular expression.
LEMMA TogetherCode ==
    ASSUME NEW a \in AwkStates, NEW l \in LexStates, NEW c \in Symbols, NEW n \in Symbols,
           Together(a, l, c), a.mode = "code", ~a.skip, c # NL
    PROVE  Together(Awk(a, c, n), Lex(l, c, n), n) \/ Broken(Lex(l, c, n))
<1>1. /\ l.mode = "code" /\ ~l.skip /\ (a.sig = "=" <=> Ends(l.tokens))
      /\ Tracked(a.out, l.tokens, "code") /\ ~Quoted("code")
  BY DEF Together, Quoted
<1>2. Awk(a, c, n) = AwkCode(a, c, n) /\ Lex(l, c, n) = LexCode(l, c, n)
  BY <1>1 DEF Awk, Lex
<1>3. a.out \in Seq(Symbols) /\ l.tokens \in Seq(TokenType) /\ Len(l.tokens) \in Nat
  BY AwkFields, LexFields
<1>4. /\ AwkPrint(a, c).out = Append(a.out, c) /\ AwkPrint(a, c).mode = "code"
      /\ ~AwkPrint(a, c).skip /\ AwkPrint(a, c) \in AwkStates
      /\ AwkPrint(a, c).sig = IF c = SP THEN a.sig ELSE c
  <2>1. AwkPrint(a, c) \in AwkStates
    <3>1. Append(a.out, c) \in Seq(Symbols)
      BY <1>3, Appended
    <3> QED BY <3>1 DEF AwkPrint, AwkStates
  <2> QED BY <2>1, PrintIs
<1> DEFINE token == [sym |-> c, line |-> 0, spaced |-> FALSE]
<1>5. token \in TokenType
  BY DEF TokenType, TokenSymbols
<1> HIDE DEF token
<1>6. CASE c = "quote"
  <2>1. Awk(a, c, n) = [AwkPrint(a, c) EXCEPT !.mode = "quote", !.escaped = FALSE]
    BY <1>2, <1>6 DEF AwkCode
  <2>2. /\ Awk(a, c, n).mode = "quote" /\ ~Awk(a, c, n).escaped /\ ~Awk(a, c, n).skip
        /\ Awk(a, c, n).out = Append(a.out, c)
    BY <1>4, <2>1 DEF AwkStates
  <2>3. Lex(l, c, n) = [l EXCEPT !.mode = "string"]
    BY <1>2, <1>6 DEF LexCode, SP
  <2>4. Lex(l, c, n).mode = "string" /\ ~Lex(l, c, n).skip /\ Lex(l, c, n).tokens = l.tokens
    BY <1>1, <2>3 DEF LexStates
  <2>5. c \notin Words /\ c # SP
    BY <1>6, NoWords DEF Marks
  <2>6. Tracked(Append(a.out, c), l.tokens, "quote")
    BY <1>1, <1>3, <1>5, <2>5, TrackedStep
  <2>7. Opened(Append(a.out, c))
    BY <1>3, <1>6, OpenedStep
  <2> QED BY <2>2, <2>4, <2>6, <2>7 DEF Together, Quoted
<1>7. CASE c = "/" /\ n = "*"
  <2>1. /\ Awk(a, c, n) = [a EXCEPT !.mode = "block", !.skip = TRUE]
        /\ Lex(l, c, n) = [l EXCEPT !.mode = "block", !.skip = TRUE]
    BY <1>2, <1>7 DEF AwkCode, LexCode, SP
  <2>2. /\ Awk(a, c, n).mode = "block" /\ Awk(a, c, n).skip /\ Awk(a, c, n).out = a.out
        /\ Awk(a, c, n).sig = a.sig
        /\ Lex(l, c, n).mode = "block" /\ Lex(l, c, n).skip /\ Lex(l, c, n).tokens = l.tokens
    BY <2>1 DEF AwkStates, LexStates
  <2>3. Tracked(a.out, l.tokens, "block")
    BY <1>1, TrackedMode DEF Quoted
  <2> QED BY <1>1, <1>7, <2>2, <2>3 DEF Together, Quoted
<1>8. CASE c = "/" /\ n = "/"
  <2>1. Awk(a, c, n) = [a EXCEPT !.mode = "line"] /\ Lex(l, c, n) = [l EXCEPT !.mode = "line"]
    BY <1>2, <1>8 DEF AwkCode, LexCode, SP
  <2>2. /\ Awk(a, c, n).mode = "line" /\ ~Awk(a, c, n).skip /\ Awk(a, c, n).out = a.out
        /\ Awk(a, c, n).sig = a.sig
        /\ Lex(l, c, n).mode = "line" /\ ~Lex(l, c, n).skip /\ Lex(l, c, n).tokens = l.tokens
    BY <1>1, <2>1 DEF AwkStates, LexStates
  <2>3. Tracked(a.out, l.tokens, "line")
    BY <1>1, TrackedMode DEF Quoted
  <2> QED BY <1>1, <2>2, <2>3 DEF Together, Quoted
<1>9. CASE c = "/" /\ n \notin {"*", "/"}
  <2>1. Lex(l, c, n) = [l EXCEPT !.mode = "regex"]
    BY <1>2, <1>9 DEF LexCode, SP
  <2>2. Lex(l, c, n).mode = "regex" /\ ~Lex(l, c, n).skip /\ Lex(l, c, n).tokens = l.tokens
    BY <1>1, <2>1 DEF LexStates
  <2>3. CASE ~Ends(l.tokens)
    BY <2>2, <2>3 DEF Broken
  <2>4. CASE Ends(l.tokens)
    <3>1. a.sig = "="
      BY <1>1, <2>4
    <3>2. Awk(a, c, n) = [AwkPrint(a, c) EXCEPT !.mode = "regex", !.escaped = FALSE]
      BY <1>2, <1>9, <3>1 DEF AwkCode, RegexFollows
    <3>3. /\ Awk(a, c, n).mode = "regex" /\ ~Awk(a, c, n).escaped /\ ~Awk(a, c, n).skip
          /\ Awk(a, c, n).out = Append(a.out, c)
      BY <1>4, <3>2 DEF AwkStates
    <3>4. c \notin Words /\ c # SP
      BY <1>9, NoWords DEF Marks
    <3>5. Tracked(Append(a.out, c), l.tokens, "regex")
      BY <1>1, <1>3, <1>5, <3>4, TrackedStep
    <3>6. Opened(Append(a.out, c))
      BY <1>3, <1>9, OpenedStep
    <3> QED BY <2>2, <3>3, <3>5, <3>6 DEF Together, Quoted
  <2> QED BY <2>3, <2>4
<1>10. CASE c \notin {"quote", "/"} /\ c = SP
  <2>1. Awk(a, c, n) = AwkPrint(a, c) /\ Lex(l, c, n) = l
    BY <1>2, <1>10 DEF AwkCode, LexCode
  <2>2. Tracked(Append(a.out, c), l.tokens, "code")
    <3>1. c \notin Words
      BY <1>10, NoWords
    <3> QED BY <1>1, <1>3, <1>5, <3>1, TrackedStep
  <2> QED BY <1>1, <1>4, <1>10, <2>1, <2>2 DEF Together, Quoted
<1>11. CASE c \notin {"quote", "/"} /\ c # SP
  <2>1. Awk(a, c, n) = AwkPrint(a, c) /\ Lex(l, c, n) = Emit(l, c, n) /\ c \in TokenSymbols
    BY <1>2, <1>11 DEF AwkCode, LexCode, TokenSymbols
  <2>2. /\ Lex(l, c, n).mode = "code" /\ ~Lex(l, c, n).skip
        /\ TokenOf(l, c, n) \in TokenType /\ TokenOf(l, c, n).sym = c
        /\ Lex(l, c, n).tokens = Append(l.tokens, TokenOf(l, c, n))
        /\ Len(Lex(l, c, n).tokens) = Len(l.tokens) + 1
        /\ Lex(l, c, n).tokens[Len(l.tokens) + 1].sym = c
    BY <1>1, <2>1, EmitIs
  <2>3. Lex(l, c, n).tokens \in Seq(TokenType)
    BY <1>3, <2>2, Appended
  <2>4. Tracked(Append(a.out, c), Lex(l, c, n).tokens, "code")
    BY <1>1, <1>3, <1>11, <2>2, <2>3, TrackedStep
  <2>5. Ends(Lex(l, c, n).tokens) <=> c = "="
    BY <1>3, <2>2 DEF Ends
  <2> QED BY <1>4, <1>11, <2>1, <2>2, <2>4, <2>5 DEF Together, Quoted
<1> QED BY <1>6, <1>7, <1>8, <1>9, <1>10, <1>11

-----------------------------------------------------------------------------
(* The parser. *)

ParseStates == {"top", "import", "mods", "name", "open", "body", "value", "regex", "bad"}
ParseTokens == [sym : TokenSymbols \cup {"bad"}, line : Nat, spaced : BOOLEAN]

\* The table Goes, row by row.
LEMMA ParseIs ==
    ASSUME NEW token \in ParseTokens, NEW n
    PROVE  /\ Parse("top", token, n) = (CASE token.sym = "import" -> "import"
                                          [] token.sym \in Modifiers -> "mods"
                                          [] token.sym = "rule" -> "name"
                                          [] OTHER -> "bad")
           /\ Parse("import", token, n) = (IF token.sym = "string" THEN "top" ELSE "bad")
           /\ Parse("mods", token, n) = (CASE token.sym \in Modifiers -> "mods"
                                           [] token.sym = "rule" -> "name"
                                           [] OTHER -> "bad")
           /\ Parse("name", token, n) = (IF token.sym \in Names THEN "open" ELSE "bad")
           /\ Parse("open", token, n) = (IF token.sym = "{" THEN "body" ELSE "bad")
           /\ Parse("body", token, n) = (CASE token.sym = "=" -> "value"
                                           [] token.sym = "matches" -> "regex"
                                           [] token.sym = "}" -> "top"
                                           [] OTHER -> "bad")
           /\ Parse("value", token, n) = (IF token.sym \in {"string", "regex"} THEN "body" ELSE "bad")
           /\ Parse("regex", token, n) = (IF token.sym = "regex" THEN "body" ELSE "bad")
           /\ Parse("bad", token, n) = "bad"
<1>1. Parse("top", token, n) = (CASE token.sym = "import" -> "import"
                                          [] token.sym \in Modifiers -> "mods"
                                          [] token.sym = "rule" -> "name"
                                          [] OTHER -> "bad")
  BY DEF Parse, Goes, Modifiers
<1>2. Parse("import", token, n) = (IF token.sym = "string" THEN "top" ELSE "bad")
  BY DEF Parse, Goes
<1>3. Parse("mods", token, n) = (CASE token.sym \in Modifiers -> "mods"
                                           [] token.sym = "rule" -> "name"
                                           [] OTHER -> "bad")
  BY DEF Parse, Goes, Modifiers
<1>4. Parse("name", token, n) = (IF token.sym \in Names THEN "open" ELSE "bad")
  BY DEF Parse
<1>5. Parse("open", token, n) = (IF token.sym = "{" THEN "body" ELSE "bad")
  BY DEF Parse, Goes
<1>6. Parse("body", token, n) = (CASE token.sym = "=" -> "value"
                                           [] token.sym = "matches" -> "regex"
                                           [] token.sym = "}" -> "top"
                                           [] OTHER -> "bad")
  BY DEF Parse, Goes
<1>7. Parse("value", token, n) = (IF token.sym \in {"string", "regex"} THEN "body" ELSE "bad")
  BY DEF Parse, Goes
<1>8. Parse("regex", token, n) = (IF token.sym = "regex" THEN "body" ELSE "bad")
  BY DEF Parse, Goes
<1>9. Parse("bad", token, n) = "bad"
  BY DEF Parse, Goes
<1> QED BY <1>1, <1>2, <1>3, <1>4, <1>5, <1>6, <1>7, <1>8, <1>9

\* A step of the parser leads from a state of the parser to one.
LEMMA ParseType ==
    ASSUME NEW token \in ParseTokens, NEW n, NEW state \in ParseStates
    PROVE  Parse(state, token, n) \in ParseStates
<1>1. /\ Parse("top", token, n) \in {"import", "mods", "name", "bad"}
      /\ Parse("import", token, n) \in {"top", "bad"}
      /\ Parse("mods", token, n) \in {"mods", "name", "bad"}
  BY ParseIs
<1>2. /\ Parse("name", token, n) \in {"open", "bad"}
      /\ Parse("open", token, n) \in {"body", "bad"}
      /\ Parse("body", token, n) \in {"value", "regex", "top", "bad"}
  BY ParseIs
<1>3. /\ Parse("value", token, n) \in {"body", "bad"}
      /\ Parse("regex", token, n) \in {"body", "bad"}
      /\ Parse("bad", token, n) = "bad"
  BY ParseIs
<1> QED BY <1>1, <1>2, <1>3 DEF ParseStates

ParseRun(tokens) ==
    CHOOSE after : after = [i \in 0..Len(tokens) |->
                               IF i = 0 THEN "top" ELSE Parse(after[i - 1], tokens[i], Ahead(tokens, i))]

\* The elements of a sequence of tokens are tokens.
LEMMA TokensAre ==
    ASSUME NEW tokens \in Seq(ParseTokens)
    PROVE  Len(tokens) \in Nat /\ \A i \in 1..Len(tokens) : tokens[i] \in ParseTokens
BY LenProperties, ElementOfSeq

\* The states of the parser, and that they end as Read says.
LEMMA ParseRunIs ==
    ASSUME NEW tokens \in Seq(ParseTokens)
    PROVE  /\ ParseRun(tokens) \in [0..Len(tokens) -> ParseStates]
           /\ ParseRun(tokens)[0] = "top"
           /\ \A i \in Nat : i < Len(tokens) =>
                 ParseRun(tokens)[i + 1] = Parse(ParseRun(tokens)[i], tokens[i + 1], Ahead(tokens, i + 1))
           /\ Read(Parse, "top", tokens) = ParseRun(tokens)[Len(tokens)]
<1> DEFINE n == Len(tokens)
           Step(s, i) == Parse(s, tokens[i], Ahead(tokens, i))
           step == [x \in ParseStates \X (1..n) |-> Step(x[1], x[2])]
           Is(f) == f = [i \in 0..n |-> IF i = 0 THEN "top" ELSE Step(f[i - 1], i)]
<1>1. n \in Nat /\ \A s \in ParseStates : \A i \in 1..n : Step(s, i) \in ParseStates
  BY TokensAre, ParseType
<1>2. "top" \in ParseStates
  BY DEF ParseStates
<1>3. \E f : Is(f)
  <2>1. step \in Steps(ParseStates, n)
    <3> HIDE DEF Step
    <3> QED BY <1>1 DEF Steps
  <2>2. \A s \in ParseStates : \A i \in 1..n : step[<<s, i>>] = Step(s, i)
    <3> HIDE DEF Step
    <3> QED OBVIOUS
  <2> HIDE DEF step, Step
  <2>3. PICK f : IsRun(ParseStates, "top", n, step, f)
    <3> HIDE DEF n
    <3> QED BY <1>1, <1>2, <2>1, Recursion
  <2>4. ASSUME NEW i \in 0..n PROVE f[i] = IF i = 0 THEN "top" ELSE Step(f[i - 1], i)
    <3>1. CASE i = 0
      BY <2>3, <3>1 DEF IsRun
    <3>2. CASE i # 0
      <4>1. i \in 1..n /\ i - 1 \in 0..n /\ i - 1 < n /\ (i - 1) + 1 = i
        BY <1>1, <3>2
      <4>2. f[i - 1] \in ParseStates /\ f[(i - 1) + 1] = step[<<f[i - 1], (i - 1) + 1>>]
        BY <2>3, <4>1 DEF IsRun
      <4> QED BY <2>2, <3>2, <4>1, <4>2
    <3> QED BY <3>1, <3>2
  <2>5. f = [i \in 0..n |-> f[i]]
    BY <2>3 DEF IsRun
  <2>6. Is(f)
    BY <2>4, <2>5
  <2> QED BY <2>6
<1> DEFINE r == ParseRun(tokens)
<1>4. Is(r)
  BY <1>3 DEF ParseRun
<1>5. r[0] = "top"
  BY <1>1, <1>4
<1>6. ASSUME NEW i \in Nat, i < n PROVE r[i + 1] = Step(r[i], i + 1)
  <2>1. (i + 1) - 1 = i /\ i + 1 \in 0..n /\ i + 1 # 0
    BY <1>1, <1>6
  <2> HIDE DEF r, Step
  <2> QED BY <1>4, <2>1
<1>7. r \in [0..n -> ParseStates]
  <2> HIDE DEF r, Step, n
  <2>1. ASSUME NEW i \in Nat, i < n, r[i] \in ParseStates PROVE r[i + 1] \in ParseStates
    <3>1. i + 1 \in 1..n
      BY <1>1, <2>1
    <3> QED BY <1>1, <1>6, <2>1, <3>1
  <2>2. \A i \in 0..n : r[i] \in ParseStates
    BY <1>1, <1>2, <1>5, <2>1, RunType
  <2> QED BY <1>4, <2>2
<1>8. Read(Parse, "top", tokens) = r[n]
  BY DEF Read, ParseRun, Ahead
<1> QED BY <1>5, <1>6, <1>7, <1>8

\* The tokens of a text that compiles, and that they parse.
LEMMA CompilesIs ==
    ASSUME NEW text \in Seq(Symbols), Compiles(text)
    PROVE  /\ LexRun(text)[Len(text)] \in LexStates
           /\ LexRun(text)[Len(text)].mode \in {"code", "line"}
           /\ Tokens(text) = LexRun(text)[Len(text)].tokens
           /\ Tokens(text) \in Seq(TokenType) /\ Tokens(text) \in Seq(ParseTokens)
           /\ ParseRun(Tokens(text))[Len(Tokens(text))] = "top"
<1> DEFINE end == LexRun(text)[Len(text)]
<1>1. Read(Lex, LexStart, text) = end /\ end \in LexStates
  <2>1. Len(text) \in Nat /\ Len(text) \in 0..Len(text)
    BY TextIs
  <2> QED BY <2>1, LexRunIs
<1>2. Tokens(text) = IF end.mode \in {"code", "line"} THEN end.tokens
                     ELSE <<[sym |-> "bad", line |-> 0, spaced |-> FALSE]>>
  BY <1>1 DEF Tokens
<1>3. Read(Parse, "top", Tokens(text)) = "top"
  BY DEF Compiles
<1>4. end.mode \in {"code", "line"}
  <2> SUFFICES ASSUME end.mode \notin {"code", "line"} PROVE FALSE
    OBVIOUS
  <2> DEFINE bad == [sym |-> "bad", line |-> 0, spaced |-> FALSE]
             one == <<bad>>
  <2>1. Tokens(text) = one
    BY <1>2
  <2>2. bad \in ParseTokens /\ bad.sym = "bad"
    BY DEF ParseTokens
  <2> HIDE DEF bad
  <2>3. one \in Seq(ParseTokens) /\ Len(one) = 1 /\ one[1] = bad
    BY <2>2
  <2> HIDE DEF one
  <2>4. /\ Read(Parse, "top", one) = ParseRun(one)[1]
        /\ ParseRun(one)[0] = "top"
        /\ \A i \in Nat : i < 1 => ParseRun(one)[i + 1] = Parse(ParseRun(one)[i], one[i + 1], Ahead(one, i + 1))
    <3> DEFINE n == Len(one)
    <3>1. /\ Read(Parse, "top", one) = ParseRun(one)[n]
          /\ ParseRun(one)[0] = "top"
          /\ \A i \in Nat : i < n => ParseRun(one)[i + 1] = Parse(ParseRun(one)[i], one[i + 1], Ahead(one, i + 1))
      BY <2>3, ParseRunIs
    <3> QED BY <2>3, <3>1
  <2>5. Read(Parse, "top", one) = Parse("top", bad, Ahead(one, 1))
    <3>1. 0 \in Nat /\ 0 < 1 /\ 0 + 1 = 1
      OBVIOUS
    <3> QED BY <2>3, <2>4, <3>1
  <2>6. Parse("top", bad, Ahead(one, 1)) = "bad"
    BY <2>2, ParseIs, NamesAssumption DEF Modifiers
  <2> QED BY <1>3, <2>1, <2>5, <2>6
<1>5. Tokens(text) \in Seq(TokenType)
  BY <1>1, <1>2, <1>4 DEF LexStates
<1>6. Tokens(text) \in Seq(ParseTokens)
  <2>1. TokenType \subseteq ParseTokens
    BY DEF TokenType, ParseTokens
  <2> QED BY <1>5, <2>1, SeqMonotonic
<1> QED BY <1>1, <1>2, <1>3, <1>4, <1>5, <1>6, ParseRunIs

-----------------------------------------------------------------------------
(* What is counted. *)

\* Before a text, awk and the reader agree.
LEMMA TogetherStart == \A n : Together(AwkStart, LexStart, n)
<1>1. Len(AwkStart.out) = 0 /\ Len(LexStart.tokens) = 0
  BY DEF AwkStart, LexStart
<1>2. Tracked(AwkStart.out, LexStart.tokens, AwkStart.mode)
  BY <1>1 DEF Tracked
<1>3. AwkStart.sig # "=" /\ ~Ends(LexStart.tokens)
  BY <1>1 DEF AwkStart, NL, Ends
<1>4. /\ AwkStart.mode = "code" /\ LexStart.mode = "code" /\ ~AwkStart.skip /\ ~LexStart.skip
  BY DEF AwkStart, LexStart
<1> QED BY <1>2, <1>3, <1>4 DEF Together, Quoted

\* One step of both.
LEMMA TogetherStep ==
    ASSUME NEW a \in AwkStates, NEW l \in LexStates, NEW c \in Symbols, NEW n \in Symbols,
           Together(a, l, c) \/ Broken(l)
    PROVE  Together(Awk(a, c, n), Lex(l, c, n), n) \/ Broken(Lex(l, c, n))
<1>1. CASE Broken(l)
  BY <1>1, BrokenStays
<1>2. CASE Together(a, l, c) /\ Quoted(a.mode)
  BY <1>2, TogetherQuoted
<1>3. CASE Together(a, l, c) /\ ~Quoted(a.mode)
  <2>1. a.mode \in {"line", "block"} \/ a.skip \/ c = NL \/ (a.mode = "code" /\ ~a.skip /\ c # NL)
    BY <1>3, AwkFields DEF Quoted
  <2> QED BY <1>3, <2>1, TogetherPlain, TogetherCode
<1> QED BY <1>1, <1>2, <1>3

\* The awk program and the lexer stay together, or the lexer ends broken.
LEMMA TogetherRun ==
    ASSUME NEW text \in Seq(Symbols)
    PROVE  \A i \in 0..Len(text) : \/ Together(AwkRun(text)[i], LexRun(text)[i], Ahead(text, i))
                                   \/ Broken(LexRun(text)[i])
<1> DEFINE a == AwkRun(text)
           l == LexRun(text)
           n == Len(text)
           S == {i \in Nat : Together(a[i], l[i], Ahead(text, i)) \/ Broken(l[i])}
<1>1. /\ n \in Nat
      /\ \A i \in Nat : i < n => text[i + 1] \in Symbols /\ Ahead(text, i) = text[i + 1]
      /\ \A i \in Nat : Ahead(text, i) \in Symbols
  BY TextIs DEF Ahead
<1>2. /\ a \in [0..n -> AwkStates] /\ a[0] = AwkStart
      /\ \A i \in Nat : i < n => a[i + 1] = Awk(a[i], text[i + 1], Ahead(text, i + 1))
  BY AwkRunIs
<1>3. /\ l \in [0..n -> LexStates] /\ l[0] = LexStart
      /\ \A i \in Nat : i < n => l[i + 1] = Lex(l[i], text[i + 1], Ahead(text, i + 1))
  BY LexRunIs
<1> HIDE DEF a, l, n
<1>4. 0 \in S
  BY <1>2, <1>3, TogetherStart
<1>5. ASSUME NEW i \in Nat, i < n, i \in S PROVE i + 1 \in S
  <2>1. i \in 0..n /\ i + 1 \in Nat
    BY <1>1, <1>5
  <2>2. a[i] \in AwkStates /\ l[i] \in LexStates /\ text[i + 1] \in Symbols /\ Ahead(text, i + 1) \in Symbols
    BY <1>1, <1>2, <1>3, <1>5, <2>1
  <2>3. Together(a[i], l[i], text[i + 1]) \/ Broken(l[i])
    BY <1>1, <1>5
  <2>4. \/ Together(Awk(a[i], text[i + 1], Ahead(text, i + 1)), Lex(l[i], text[i + 1], Ahead(text, i + 1)), Ahead(text, i + 1))
        \/ Broken(Lex(l[i], text[i + 1], Ahead(text, i + 1)))
    BY <2>2, <2>3, TogetherStep
  <2>5. Together(a[i + 1], l[i + 1], Ahead(text, i + 1)) \/ Broken(l[i + 1])
    BY <1>2, <1>3, <1>5, <2>4
  <2> QED BY <2>1, <2>5
<1> HIDE DEF S
<1>6. 0..n \subseteq S
  BY <1>1, <1>4, <1>5, InductionTo
<1> QED BY <1>6 DEF S, a, l, n

\* The names that grep finds in what is printed.
LEMMA RuleNamesAre ==
    ASSUME NEW text \in Seq(Symbols)
    PROVE  LET out == AwkRun(text)[Len(text)].out IN
           /\ out \in Seq(Symbols)
           /\ RuleNames(text) =
                {out[j] : j \in {j \in DOMAIN out : out[j] \in Words /\ \E k \in 1..(j - 2) :
                            /\ out[k] = "rule" /\ BeginsLine(out, k)
                            /\ Spaces(out, k, j)}}
<1>1. Len(text) \in 0..Len(text)
  BY TextIs
<1>2. AwkRun(text)[Len(text)] \in AwkStates /\ Read(Awk, AwkStart, text) = AwkRun(text)[Len(text)]
  BY <1>1, AwkRunIs
<1>3. AwkRun(text)[Len(text)].out \in Seq(Symbols)
  BY <1>2, AwkFields
<1> QED BY <1>2, <1>3 DEF RuleNames, BeginsLine, Spaces

\* In a text that compiles and has no regular expression that awk does not know, only
\* declared names are counted.
LEMMA CountedIsDeclared ==
    ASSUME NEW text \in Seq(Symbols), Compiles(text), KnownRegexes(text)
    PROVE  RuleNames(text) \subseteq Declared(text)
<1> DEFINE end == LexRun(text)[Len(text)]
           last == AwkRun(text)[Len(text)]
           out == last.out
           tokens == end.tokens
<1>1. /\ Len(text) \in 0..Len(text) /\ end.mode \in {"code", "line"} /\ Tokens(text) = tokens
      /\ tokens \in Seq(TokenType)
  BY CompilesIs, TextIs
<1>2. DOMAIN tokens = 1..Len(tokens) /\ Len(tokens) \in Nat
  BY <1>1, LenProperties
<1>3. ~Broken(end)
  <2> HIDE DEF end
  <2>1. \A i \in 1..Len(tokens) : tokens[i].sym = "regex" => i > 1 /\ tokens[i - 1].sym = "="
    BY <1>1, <1>2 DEF KnownRegexes, RegexFollows
  <2> QED BY <1>1, <1>2, <2>1 DEF Broken
<1>4. Together(last, end, Ahead(text, Len(text)))
  BY <1>1, <1>3, TogetherRun
<1>5. Tracked(out, tokens, last.mode)
  BY <1>4 DEF Together
<1>6. /\ out \in Seq(Symbols)
      /\ RuleNames(text) =
                {out[j] : j \in {j \in DOMAIN out : out[j] \in Words /\ \E k \in 1..(j - 2) :
                            /\ out[k] = "rule" /\ BeginsLine(out, k)
                            /\ Spaces(out, k, j)}}
  BY RuleNamesAre
<1>7. DOMAIN out = 1..Len(out) /\ Len(out) \in Nat
  BY <1>6, LenProperties
<1> HIDE DEF end, last
<1>8. ASSUME NEW j \in 1..Len(out), out[j] \in Words, NEW k \in 1..(j - 2),
             out[k] = "rule", BeginsLine(out, k), Spaces(out, k, j)
      PROVE  out[j] \in Declared(text)
  <2>1. k \in 1..Len(out) /\ j \in (k + 1)..Len(out)
    BY <1>7
  <2>2. PICK t \in 1..Len(tokens) : IsOf(out, tokens, last.mode, k, t)
    BY <1>5, <1>8, <2>1 DEF Tracked
  <2>3. tokens[t].sym = "rule" /\ tokens[t + 1].sym = out[j]
    BY <1>8, <2>1, <2>2 DEF IsOf
  <2> QED BY <1>1, <1>2, <2>3 DEF Declared, Declarations
<1> QED BY <1>6, <1>7, <1>8


-----------------------------------------------------------------------------
(***************************************************************************)
(* What the scanner sees is what the compiler declares.  A regular         *)
(* expression is only in a rule: where the scanner might take one for      *)
(* something else it has stopped.                                          *)
(***************************************************************************)
\* What holds of k and goes on up to n holds of n.
LEMMA InductionFrom ==
    ASSUME NEW k \in Nat, NEW n \in Nat, k <= n, NEW S, k \in S,
           \A i \in Nat : k <= i /\ i < n /\ i \in S => i + 1 \in S
    PROVE  n \in S
<1> DEFINE T == {i \in Nat : k <= i => i \in S}
<1>1. 0 \in T
  OBVIOUS
<1>2. ASSUME NEW i \in Nat, i < n, i \in T PROVE i + 1 \in T
  <2>1. CASE k <= i
    BY <1>2, <2>1
  <2>2. CASE ~(k <= i) /\ k <= i + 1
    <3>1. k = i + 1
      BY <2>2
    <3> QED BY <3>1
  <2>3. CASE ~(k <= i + 1)
    BY <2>3
  <2> QED BY <2>1, <2>2, <2>3
<1> HIDE DEF T
<1>3. 0..n \subseteq T
  BY <1>1, <1>2, InductionTo
<1>4. n \in 0..n
  OBVIOUS
<1> QED BY <1>3, <1>4 DEF T

\* The parser's states one by one.
LEMMA ParseSteps ==
    ASSUME NEW tokens \in Seq(ParseTokens)
    PROVE  /\ Len(tokens) \in Nat
           /\ ParseRun(tokens)[0] = "top"
           /\ \A i \in Nat : i < Len(tokens) =>
                 /\ ParseRun(tokens)[i] \in ParseStates
                 /\ tokens[i + 1] \in ParseTokens
                 /\ ParseRun(tokens)[i + 1] = Parse(ParseRun(tokens)[i], tokens[i + 1], Ahead(tokens, i + 1))
<1>1. Len(tokens) \in Nat
  BY TokensAre
<1>2. \A i \in Nat : i < Len(tokens) => i \in 0..Len(tokens) /\ i + 1 \in 1..Len(tokens)
  BY <1>1
<1> QED BY <1>1, <1>2, ParseRunIs, TokensAre

\* What does not parse up to some token does not parse.
LEMMA BadStays ==
    ASSUME NEW tokens \in Seq(ParseTokens), NEW k \in Nat, k <= Len(tokens), ParseRun(tokens)[k] = "bad"
    PROVE  ParseRun(tokens)[Len(tokens)] = "bad"
<1> DEFINE n == Len(tokens)
           S == {i \in Nat : ParseRun(tokens)[i] = "bad"}
<1>1. n \in Nat /\ k <= n
  BY TokensAre
<1>2. k \in S
  OBVIOUS
<1>3. ASSUME NEW i \in Nat, i < n, i \in S PROVE i + 1 \in S
  <2>1. ParseRun(tokens)[i + 1] = Parse("bad", tokens[i + 1], Ahead(tokens, i + 1)) /\ tokens[i + 1] \in ParseTokens
    BY <1>3, ParseSteps
  <2>2. ParseRun(tokens)[i + 1] = "bad"
    BY <2>1, ParseIs
  <2> QED BY <2>2
<1> HIDE DEF S
<1>4. n \in S
  <2> HIDE DEF n
  <2> QED BY <1>1, <1>2, <1>3, InductionFrom
<1> QED BY <1>4 DEF S

NoRule(tokens) == \A t \in 1..Len(tokens) : tokens[t].sym # "rule"

\* Before its first rule a text that parses has no regular expression.
LEMMA RegexInRule ==
    ASSUME NEW tokens \in Seq(ParseTokens), ParseRun(tokens)[Len(tokens)] = "top",
           NEW t \in 1..Len(tokens), tokens[t].sym = "regex"
    PROVE  \E s \in 1..(t - 1) : tokens[s].sym = "rule"
<1> SUFFICES ASSUME \A s \in 1..(t - 1) : tokens[s].sym # "rule" PROVE FALSE
  OBVIOUS
<1> DEFINE S == {i \in Nat : ParseRun(tokens)[i] \in {"top", "import", "mods", "bad"}}
<1>1. t - 1 \in Nat /\ t - 1 < Len(tokens) /\ (t - 1) + 1 = t /\ t \in Nat /\ t <= Len(tokens)
  BY TokensAre
<1>2. 0 \in S
  BY ParseSteps
<1>3. ASSUME NEW i \in Nat, i < t - 1, i \in S PROVE i + 1 \in S
  <2>1. i < Len(tokens) /\ i + 1 \in 1..(t - 1)
    BY <1>1, <1>3
  <2>2. /\ ParseRun(tokens)[i + 1] = Parse(ParseRun(tokens)[i], tokens[i + 1], Ahead(tokens, i + 1))
        /\ tokens[i + 1] \in ParseTokens /\ tokens[i + 1].sym # "rule"
    BY <2>1, ParseSteps
  <2>3. ParseRun(tokens)[i + 1] \in {"top", "import", "mods", "bad"}
    <3>1. ParseRun(tokens)[i] \in {"top", "import", "mods", "bad"}
      BY <1>3
    <3> DEFINE token == tokens[i + 1]
               n == Ahead(tokens, i + 1)
    <3>2. token \in ParseTokens /\ token.sym # "rule"
      BY <2>2
    <3>3. ParseRun(tokens)[i + 1] = Parse(ParseRun(tokens)[i], token, n)
      BY <2>2
    <3> HIDE DEF S, token, n
    <3>4. Parse("top", token, n) \in {"import", "mods", "bad"}
      BY <3>2, ParseIs
    <3>5. Parse("import", token, n) \in {"top", "bad"} /\ Parse("mods", token, n) \in {"mods", "bad"}
      BY <3>2, ParseIs
    <3>6. Parse("bad", token, n) = "bad"
      BY <3>2, ParseIs
    <3> QED BY <3>1, <3>3, <3>4, <3>5, <3>6
  <2> QED BY <2>3
<1> HIDE DEF S
<1>4. t - 1 \in S
  <2>1. 0..(t - 1) \subseteq S
    BY <1>1, <1>2, <1>3, InductionTo
  <2>2. t - 1 \in 0..(t - 1)
    BY <1>1
  <2> QED BY <2>1, <2>2
<1>5. /\ ParseRun(tokens)[t] = Parse(ParseRun(tokens)[t - 1], tokens[t], Ahead(tokens, t))
      /\ tokens[t] \in ParseTokens
  BY <1>1, ParseSteps
<1>6. ParseRun(tokens)[t] = "bad"
  <2> DEFINE token == tokens[t]
             n == Ahead(tokens, t)
             state == ParseRun(tokens)[t - 1]
  <2>1. state \in {"top", "import", "mods", "bad"}
    BY <1>4 DEF S
  <2>2. token \in ParseTokens /\ token.sym = "regex" /\ ParseRun(tokens)[t] = Parse(state, token, n)
    BY <1>5
  <2> HIDE DEF token, n, state
  <2>3. Parse("import", token, n) = "bad" /\ Parse("bad", token, n) = "bad"
    BY <2>2, ParseIs
  <2>4. Parse("top", token, n) = "bad" /\ Parse("mods", token, n) = "bad"
    <3>1. token.sym \notin Modifiers
      BY <2>2 DEF Modifiers
    <3> QED BY <2>2, <3>1, ParseIs
  <2> QED BY <2>1, <2>2, <2>3, <2>4
<1> QED BY <1>1, <1>6, BadStays

\* A reading that has a regular expression before the first rule, or does not end.
Off(l) ==
    \/ l.mode = "bad"
    \/ l.mode = "regex" /\ NoRule(l.tokens)
    \/ \E t \in 1..Len(l.tokens) :
          l.tokens[t].sym = "regex" /\ \A s \in 1..(t - 1) : l.tokens[s].sym # "rule"

\* What is off stays off: neither a bad mode nor a regular expression before any rule is left.
LEMMA OffStays ==
    ASSUME NEW l \in LexStates, NEW c \in Symbols, NEW n, Off(l)
    PROVE  Off(Lex(l, c, n))
<1> DEFINE more == Lex(l, c, n)
<1>1. l.mode \in {"code", "line", "block", "string", "regex", "bad"}
  BY DEF LexStates
<1>2. /\ Len(l.tokens) \in Nat /\ Len(more.tokens) \in Nat /\ Len(more.tokens) >= Len(l.tokens)
      /\ \A i \in 1..Len(l.tokens) : more.tokens[i] = l.tokens[i]
  BY LexGrows
<1>3. CASE l.mode = "bad"
  BY <1>3 DEF Lex, Off
<1>4. CASE l.mode = "regex" /\ NoRule(l.tokens)
  <2>1. Off(LexNewline(l))
    BY <1>4 DEF LexNewline, LexStates, Off
  <2>2. Off([l EXCEPT !.skip = FALSE]) /\ Off([l EXCEPT !.skip = TRUE])
    BY <1>4 DEF Off, LexStates
  <2>3. Off(Emit(l, "regex", n))
    <3> DEFINE r == "regex"
    <3>1. r \in TokenSymbols
      BY DEF TokenSymbols
    <3> HIDE DEF r
    <3>2. /\ Len(Emit(l, r, n).tokens) = Len(l.tokens) + 1
          /\ Emit(l, r, n).tokens[Len(l.tokens) + 1].sym = r
          /\ \A i \in 1..Len(l.tokens) : Emit(l, r, n).tokens[i] = l.tokens[i]
      BY <3>1, EmitIs
    <3> DEFINE t == Len(l.tokens) + 1
    <3>3. t \in 1..Len(Emit(l, r, n).tokens) /\ \A s \in 1..(t - 1) : s \in 1..Len(l.tokens)
      BY <1>2, <3>2
    <3>4. \A s \in 1..(t - 1) : Emit(l, r, n).tokens[s].sym # "rule"
      BY <1>4, <3>2, <3>3 DEF NoRule
    <3> QED BY <3>2, <3>3, <3>4 DEF Off, r
  <2>4. Off(LexQuoted(l, c, n))
    BY <1>4, <2>2, <2>3 DEF LexQuoted
  <2>5. more = LexNewline(l) \/ more = [l EXCEPT !.skip = FALSE] \/ more = LexQuoted(l, c, n)
    BY <1>4 DEF Lex
  <2> HIDE DEF more
  <2>6. Off(more)
    BY <2>1, <2>2, <2>4, <2>5
  <2> QED BY <2>6 DEF more
<1>5. CASE \E t \in 1..Len(l.tokens) :
             l.tokens[t].sym = "regex" /\ \A s \in 1..(t - 1) : l.tokens[s].sym # "rule"
  <2> HIDE DEF more
  <2>1. PICK t \in 1..Len(l.tokens) :
             l.tokens[t].sym = "regex" /\ \A s \in 1..(t - 1) : l.tokens[s].sym # "rule"
    BY <1>5
  <2>2. t \in 1..Len(more.tokens) /\ \A s \in 1..(t - 1) : s \in 1..Len(l.tokens)
    BY <1>2
  <2>3. more.tokens[t].sym = "regex" /\ \A s \in 1..(t - 1) : more.tokens[s].sym # "rule"
    BY <1>2, <2>1, <2>2
  <2>4. Off(more)
    BY <2>2, <2>3 DEF Off
  <2> QED BY <2>4 DEF more
<1> QED BY <1>3, <1>4, <1>5 DEF Off

\* The lexer's states one by one.
LEMMA LexSteps ==
    ASSUME NEW text \in Seq(Symbols)
    PROVE  /\ Len(text) \in Nat
           /\ LexRun(text)[0] = LexStart
           /\ \A i \in Nat : i <= Len(text) => LexRun(text)[i] \in LexStates
           /\ \A i \in 1..Len(text) :
                 /\ text[i] \in Symbols /\ i \in Nat /\ i - 1 \in Nat /\ i <= Len(text)
                 /\ LexRun(text)[i - 1] \in LexStates
                 /\ LexRun(text)[i] = Lex(LexRun(text)[i - 1], text[i], Ahead(text, i))
<1> DEFINE r == LexRun(text)
           n == Len(text)
<1>1. n \in Nat /\ \A i \in 1..n : text[i] \in Symbols
  BY TextIs
<1>2. /\ r \in [0..n -> LexStates] /\ r[0] = LexStart
      /\ \A i \in Nat : i < n => r[i + 1] = Lex(r[i], text[i + 1], Ahead(text, i + 1))
  BY LexRunIs
<1> HIDE DEF r, n
<1>3. ASSUME NEW i \in Nat, i <= n PROVE r[i] \in LexStates
  <2>1. i \in 0..n
    BY <1>1, <1>3
  <2> QED BY <1>2, <2>1
<1>4. ASSUME NEW i \in 1..n
      PROVE  /\ text[i] \in Symbols /\ i \in Nat /\ i - 1 \in Nat /\ i <= n
             /\ r[i - 1] \in LexStates /\ r[i] = Lex(r[i - 1], text[i], Ahead(text, i))
  <2>1. i \in Nat /\ i - 1 \in Nat /\ i - 1 < n /\ i <= n /\ (i - 1) + 1 = i /\ i - 1 <= n
    BY <1>1
  <2>2. r[(i - 1) + 1] = Lex(r[i - 1], text[(i - 1) + 1], Ahead(text, (i - 1) + 1))
    BY <1>2, <2>1
  <2> QED BY <1>1, <1>3, <2>1, <2>2
<1> QED BY <1>1, <1>2, <1>3, <1>4 DEF r, n

\* In a text that compiles no reading is off.
Readable(text) ==
    /\ LexRun(text)[Len(text)].mode \in {"code", "line"}
    /\ \A i \in Nat : i <= Len(text) => ~Off(LexRun(text)[i])

\* A text that compiles is readable: at no place is its reader off.
LEMMA CompilesReadable ==
    ASSUME NEW text \in Seq(Symbols), Compiles(text)
    PROVE  Readable(text)
<1> DEFINE r == LexRun(text)
           n == Len(text)
<1>1. /\ r[n] \in LexStates /\ r[n].mode \in {"code", "line"}
      /\ r[n].tokens \in Seq(ParseTokens)
      /\ ParseRun(r[n].tokens)[Len(r[n].tokens)] = "top"
  BY CompilesIs
<1>2. ~Off(r[n])
  <2> SUFFICES ASSUME NEW t \in 1..Len(r[n].tokens), r[n].tokens[t].sym = "regex"
               PROVE  \E s \in 1..(t - 1) : r[n].tokens[s].sym = "rule"
    BY <1>1 DEF Off
  <2> HIDE DEF r, n
  <2> QED BY <1>1, RegexInRule
<1>3. ASSUME NEW i \in Nat, i <= n, Off(r[i]) PROVE FALSE
  <2> DEFINE S == {j \in Nat : Off(r[j])}
  <2>1. n \in Nat /\ i \in S
    BY <1>3, LexSteps
  <2>2. ASSUME NEW j \in Nat, j < n, j \in S PROVE j + 1 \in S
    <3>1. j + 1 \in 1..n /\ (j + 1) - 1 = j
      BY <2>1, <2>2
    <3>2. r[j + 1] = Lex(r[j], text[j + 1], Ahead(text, j + 1)) /\ r[j] \in LexStates /\ text[j + 1] \in Symbols
      BY <3>1, LexSteps
    <3> QED BY <2>2, <3>2, OffStays
  <2> HIDE DEF S, r, n
  <2>3. n \in S
    BY <1>3, <2>1, <2>2, InductionFrom
  <2> QED BY <1>2, <2>3 DEF S
<1> QED BY <1>1, <1>3 DEF Readable

\* The first of some positions, or the one after the text.
FirstOf(stops, n) == IF stops = {} THEN n + 1 ELSE CHOOSE j \in stops : \A k \in stops : j <= k

\* FirstOf is the least of the stops, or the place behind the text.
LEMMA FirstIs ==
    ASSUME NEW n \in Nat, NEW i \in Nat, i >= 1, NEW stops \in SUBSET (i..n)
    PROVE  /\ FirstOf(stops, n) \in Nat
           /\ i <= n + 1 => FirstOf(stops, n) \in i..(n + 1)
           /\ FirstOf(stops, n) <= n => FirstOf(stops, n) \in stops
           /\ FirstOf(stops, n) > n => stops = {} /\ FirstOf(stops, n) = n + 1
           /\ \A j \in i..n : j < FirstOf(stops, n) => j \notin stops
<1>1. CASE stops = {}
  BY <1>1 DEF FirstOf
<1>2. CASE stops # {}
  <2>1. stops \in SUBSET Nat
    OBVIOUS
  <2>2. \E x \in stops : \A y \in stops : x <= y
    BY <1>2, <2>1, LeastNat
  <2>3. FirstOf(stops, n) \in stops /\ \A k \in stops : FirstOf(stops, n) <= k
    BY <1>2, <2>2 DEF FirstOf
  <2>4. FirstOf(stops, n) \in i..n
    BY <2>3
  <2>5. \A j \in i..n : j < FirstOf(stops, n) => j \notin stops
    <3>1. ASSUME NEW j \in i..n, j < FirstOf(stops, n), j \in stops PROVE FALSE
      <4>1. FirstOf(stops, n) <= j
        BY <2>3, <3>1
      <4> QED BY <2>4, <3>1, <4>1
    <3> QED BY <3>1
  <2> QED BY <2>3, <2>4, <2>5
<1> QED BY <1>1, <1>2

\* The end of a line, and of a block comment.
LineStops(text, i) == {j \in i..Len(text) : text[j] = NL}
BlockStops(text, i) == {j \in i..Len(text) : Pair(text, j, "*", "/")}

\* Where the scanner is between tokens and has met no rule, there the lexer is too.
AtCode(text, p) ==
    /\ p \in Nat /\ p >= 1 /\ p <= Len(text) + 1
    /\ ~LexRun(text)[p - 1].skip /\ NoRule(LexRun(text)[p - 1].tokens)
    /\ \/ LexRun(text)[p - 1].mode = "code"
       \/ LexRun(text)[p - 1].mode = "line" /\ (p <= Len(text) => text[p] = NL)

\* A line comment.
LEMMA AfterLine ==
    ASSUME NEW text \in Seq(Symbols), NEW p \in 1..Len(text), AtCode(text, p), Pair(text, p, "/", "/")
    PROVE  LET q == FirstOf(LineStops(text, p + 2), Len(text)) IN AtCode(text, q) /\ q > p
<1> DEFINE n == Len(text)
           l == LexRun(text)
           q == FirstOf(LineStops(text, p + 2), n)
<1>1. n \in Nat /\ p < n /\ text[p] = "/" /\ text[p + 1] = "/"
  BY LexSteps DEF Pair
<1>2. /\ q \in (p + 2)..(n + 1) /\ (q <= n => text[q] = NL)
      /\ \A j \in (p + 2)..n : j < q => text[j] # NL
  <2>1. LineStops(text, p + 2) \in SUBSET ((p + 2)..n) /\ p + 2 \in Nat /\ p + 2 >= 1 /\ p + 2 <= n + 1
    BY <1>1 DEF LineStops
  <2>2. /\ q \in (p + 2)..(n + 1) /\ (q <= n => q \in LineStops(text, p + 2))
        /\ \A j \in (p + 2)..n : j < q => j \notin LineStops(text, p + 2)
    BY <1>1, <2>1, FirstIs, SMTT(30)
  <2> QED BY <2>2 DEF LineStops
<1> HIDE DEF q, n, l
<1> DEFINE S == {i \in Nat : l[i] = [l[p - 1] EXCEPT !.mode = "line"]}
<1>3. l[p - 1].mode = "code" /\ ~l[p - 1].skip /\ NoRule(l[p - 1].tokens) /\ l[p - 1] \in LexStates
  BY <1>1, LexSteps DEF AtCode, NL, n, l
<1>4. p \in S
  <2>1. l[p] = Lex(l[p - 1], "/", "/")
    <3>1. l[p] = Lex(l[p - 1], text[p], Ahead(text, p))
      BY LexSteps DEF l
    <3> QED BY <1>1, <3>1 DEF Ahead, n
  <2>2. l[p] = [l[p - 1] EXCEPT !.mode = "line"]
    BY <1>3, <2>1 DEF Lex, LexCode, NL, SP
  <2> QED BY <2>2
<1>5. ASSUME NEW i \in Nat, p <= i, i < q - 1, i \in S PROVE i + 1 \in S
  <2>1. i + 1 \in 1..n /\ (i + 1) - 1 = i /\ (i = p \/ i + 1 \in (p + 2)..n) /\ i + 1 < q
    BY <1>1, <1>2, <1>5
  <2>2. l[i + 1] = Lex(l[i], text[i + 1], Ahead(text, i + 1))
    BY <2>1, LexSteps DEF l, n
  <2>3. text[i + 1] # NL
    BY <1>1, <1>2, <2>1 DEF NL
  <2>4. l[i].mode = "line" /\ ~l[i].skip
    BY <1>3, <1>5 DEF LexStates
  <2>5. l[i + 1] = l[i]
    BY <2>2, <2>3, <2>4 DEF Lex
  <2> QED BY <1>5, <2>5
<1> HIDE DEF S
<1>6. q - 1 \in S
  <2>1. p \in Nat /\ q - 1 \in Nat /\ p <= q - 1
    BY <1>1, <1>2
  <2> QED BY <1>4, <1>5, <2>1, InductionFrom
<1>7. l[q - 1].mode = "line" /\ ~l[q - 1].skip /\ l[q - 1].tokens = l[p - 1].tokens
  BY <1>3, <1>6 DEF S, LexStates
<1>8. q \in Nat /\ q >= 1 /\ q <= n + 1 /\ q > p
  BY <1>1, <1>2
<1> QED BY <1>2, <1>3, <1>7, <1>8 DEF AtCode, q, l, n

\* A block comment: it ends, or the text does not compile.
LEMMA AfterBlock ==
    ASSUME NEW text \in Seq(Symbols), Readable(text), NEW p \in 1..Len(text), AtCode(text, p),
           Pair(text, p, "/", "*")
    PROVE  LET q == FirstOf(BlockStops(text, p + 2), Len(text)) + 2 IN AtCode(text, q) /\ q > p
<1> DEFINE n == Len(text)
           l == LexRun(text)
           j == FirstOf(BlockStops(text, p + 2), n)
<1>1. n \in Nat /\ p < n /\ text[p] = "/" /\ text[p + 1] = "*"
  BY LexSteps DEF Pair
<1>2. /\ j \in (p + 2)..(n + 1) /\ (j <= n => Pair(text, j, "*", "/"))
      /\ \A i \in (p + 2)..n : i < j => ~Pair(text, i, "*", "/")
  <2>1. BlockStops(text, p + 2) \in SUBSET ((p + 2)..n) /\ p + 2 \in Nat /\ p + 2 >= 1 /\ p + 2 <= n + 1
    BY <1>1 DEF BlockStops
  <2>2. /\ j \in (p + 2)..(n + 1) /\ (j <= n => j \in BlockStops(text, p + 2))
        /\ \A i \in (p + 2)..n : i < j => i \notin BlockStops(text, p + 2)
    BY <1>1, <2>1, FirstIs, SMTT(30)
  <2> QED BY <2>2 DEF BlockStops
<1> HIDE DEF j, n, l
<1>3. l[p - 1].mode = "code" /\ ~l[p - 1].skip /\ NoRule(l[p - 1].tokens) /\ l[p - 1] \in LexStates
  BY <1>1, LexSteps DEF AtCode, NL, n, l
<1> DEFINE S == {i \in Nat : l[i].mode = "block" /\ ~l[i].skip /\ l[i].tokens = l[p - 1].tokens}
<1>4. p + 1 \in S
  <2>1. l[p] = Lex(l[p - 1], "/", "*")
    <3>1. l[p] = Lex(l[p - 1], text[p], Ahead(text, p))
      BY LexSteps DEF l
    <3> QED BY <1>1, <3>1 DEF Ahead, n
  <2>2. l[p] = [l[p - 1] EXCEPT !.mode = "block", !.skip = TRUE]
    BY <1>3, <2>1 DEF Lex, LexCode, NL, SP
  <2>3. l[p].mode = "block" /\ l[p].skip /\ l[p].tokens = l[p - 1].tokens /\ l[p] \in LexStates
    BY <1>3, <2>2 DEF LexStates
  <2>4. p + 1 \in 1..n /\ (p + 1) - 1 = p
    BY <1>1
  <2>5. l[p + 1] = Lex(l[p], "*", Ahead(text, p + 1))
    BY <1>1, <2>4, LexSteps DEF l, n
  <2>6. l[p + 1] = [l[p] EXCEPT !.skip = FALSE]
    BY <2>3, <2>5 DEF Lex, NL
  <2>7. l[p + 1].mode = "block" /\ ~l[p + 1].skip /\ l[p + 1].tokens = l[p - 1].tokens
    BY <2>3, <2>6 DEF LexStates
  <2> QED BY <2>7
<1>5. ASSUME NEW i \in Nat, p + 1 <= i, i < j - 1, i \in S PROVE i + 1 \in S
  <2>1. i + 1 \in 1..n /\ (i + 1) - 1 = i /\ i + 1 \in (p + 2)..n /\ i + 1 < j
    BY <1>1, <1>2, <1>5
  <2>2. l[i + 1] = Lex(l[i], text[i + 1], Ahead(text, i + 1)) /\ l[i] \in LexStates
    BY <2>1, LexSteps DEF l, n
  <2>3. ~(text[i + 1] = "*" /\ Ahead(text, i + 1) = "/")
    <3>1. ~Pair(text, i + 1, "*", "/")
      BY <1>2, <2>1
    <3> QED BY <3>1 DEF Pair, Ahead, NL
  <2>4. l[i].mode = "block" /\ ~l[i].skip /\ l[i].tokens = l[p - 1].tokens
    BY <1>5
  <2>5. l[i + 1] = l[i] \/ l[i + 1] = LexNewline(l[i])
    BY <2>2, <2>3, <2>4 DEF Lex
  <2>6. l[i + 1].mode = "block" /\ ~l[i + 1].skip /\ l[i + 1].tokens = l[p - 1].tokens
    BY <2>2, <2>4, <2>5 DEF LexNewline, LexStates
  <2> QED BY <2>6
<1> HIDE DEF S
<1>6. j - 1 \in S
  <2>1. p + 1 \in Nat /\ j - 1 \in Nat /\ p + 1 <= j - 1
    BY <1>1, <1>2
  <2> QED BY <1>4, <1>5, <2>1, InductionFrom
<1>7. l[j - 1].mode = "block" /\ ~l[j - 1].skip /\ l[j - 1].tokens = l[p - 1].tokens
  BY <1>6 DEF S
<1>8. j <= n
  <2> SUFFICES ASSUME ~(j <= n) PROVE FALSE
    OBVIOUS
  <2>1. j - 1 = n
    BY <1>1, <1>2
  <2> QED BY <1>7, <2>1 DEF Readable, n, l
<1>9. j < n /\ text[j] = "*" /\ text[j + 1] = "/"
  BY <1>2, <1>8 DEF Pair, n
<1>10. j \in 1..n /\ j + 1 \in 1..n /\ (j + 1) - 1 = j /\ (j + 2) - 1 = j + 1
  BY <1>1, <1>2, <1>9
<1>11. l[j] = [l[j - 1] EXCEPT !.mode = "code", !.skip = TRUE] /\ l[j - 1] \in LexStates
  <2>1. l[j] = Lex(l[j - 1], text[j], Ahead(text, j)) /\ l[j - 1] \in LexStates
    BY <1>10, LexSteps DEF l, n
  <2>2. Ahead(text, j) = "/"
    BY <1>9 DEF Ahead, n
  <2> QED BY <1>7, <1>9, <2>1, <2>2 DEF Lex, NL
<1>12. l[j].mode = "code" /\ l[j].skip /\ l[j].tokens = l[p - 1].tokens
  BY <1>7, <1>11 DEF LexStates
<1>13. l[j + 1] = [l[j] EXCEPT !.skip = FALSE] /\ l[j] \in LexStates
  <2>1. l[j + 1] = Lex(l[j], text[j + 1], Ahead(text, j + 1)) /\ l[j] \in LexStates
    BY <1>10, LexSteps DEF l, n
  <2> QED BY <1>9, <1>12, <2>1 DEF Lex, NL
<1>14. l[j + 1].mode = "code" /\ ~l[j + 1].skip /\ l[j + 1].tokens = l[p - 1].tokens
  BY <1>12, <1>13 DEF LexStates
<1>15. j + 2 \in Nat /\ j + 2 >= 1 /\ j + 2 <= n + 1 /\ j + 2 > p
  BY <1>1, <1>2, <1>9
<1> QED BY <1>3, <1>10, <1>14, <1>15 DEF AtCode, j, l, n

\* A loop of the scanner, step by step.
LoopsTo(f, n, start, F) ==
    /\ f \in [0..n -> Nat] /\ f[0] = start
    /\ \A k \in Nat : k < n => f[k + 1] = F[f[k]]

\* The values of a loop exist: a function that is given, each value by the one before.
LEMMA LoopExists ==
    ASSUME NEW n \in Nat, NEW start \in Nat, NEW F \in [Nat -> Nat]
    PROVE  \E f : LoopsTo(f, n, start, F)
<1> DEFINE step == [x \in Nat \X (1..n) |-> F[x[1]]]
<1>1. step \in Steps(Nat, n)
  BY DEF Steps
<1>2. \A x \in Nat : \A i \in 1..n : step[<<x, i>>] = F[x]
  OBVIOUS
<1> HIDE DEF step
<1>3. PICK f : IsRun(Nat, start, n, step, f)
  BY <1>1, Recursion
<1>4. ASSUME NEW k \in Nat, k < n PROVE f[k + 1] = F[f[k]]
  <2>1. k \in 0..n /\ k + 1 \in 1..n
    BY <1>4
  <2> QED BY <1>2, <1>3, <1>4, <2>1 DEF IsRun
<1> QED BY <1>3, <1>4 DEF IsRun, LoopsTo

StringNext(text, i) ==
    IF i > Len(text) \/ text[i] = "quote" THEN i ELSE IF text[i] = "backslash" THEN i + 2 ELSE i + 1

\* The loop in StringEnd.
StringRun(text, p, r) ==
    /\ r \in [0..Len(text) -> Nat] /\ r[0] = p + 1
    /\ \A k \in Nat : k < Len(text) => r[k + 1] = StringNext(text, r[k])
    /\ StringEnd(text, p) = r[Len(text)] + 1

\* The values of the loop that skips a string exist.
LEMMA StringLoop ==
    ASSUME NEW text \in Seq(Symbols), NEW p \in Nat
    PROVE  \E r : StringRun(text, p, r)
<1> DEFINE n == Len(text)
           start == p + 1
           Next1(i) == StringNext(text, i)
           F == [i \in Nat |-> Next1(i)]
           Is(f) == f = [k \in 0..n |-> IF k = 0 THEN start ELSE Next1(f[k - 1])]
           r == CHOOSE f : Is(f)
<1>1. n \in Nat /\ start \in Nat
  BY TextIs
<1>2. \A i \in Nat : Next1(i) \in Nat
  BY DEF StringNext
<1> HIDE DEF n, start
<1>3. \E f : Is(f)
  <2>1. F \in [Nat -> Nat] /\ \A i \in Nat : F[i] = Next1(i)
    <3> HIDE DEF Next1
    <3> QED BY <1>2
  <2> HIDE DEF F, Next1
  <2>2. PICK f : LoopsTo(f, n, start, F)
    BY <1>1, <2>1, LoopExists
  <2>3. ASSUME NEW k \in 0..n PROVE f[k] = IF k = 0 THEN start ELSE Next1(f[k - 1])
    <3>1. k # 0 => k - 1 \in Nat /\ k - 1 < n /\ (k - 1) + 1 = k /\ k - 1 \in 0..n
      BY <1>1
    <3>2. k # 0 => f[k - 1] \in Nat /\ f[(k - 1) + 1] = F[f[k - 1]]
      BY <2>2, <3>1 DEF LoopsTo
    <3> QED BY <2>1, <2>2, <3>1, <3>2 DEF LoopsTo
  <2>4. f = [k \in 0..n |-> f[k]]
    BY <2>2 DEF LoopsTo
  <2>5. Is(f)
    BY <2>3, <2>4
  <2> QED BY <2>5
<1>4. Is(r)
  <2> HIDE DEF Is
  <2> QED BY <1>3
<1>5. StringEnd(text, p) = r[n] + 1
  BY DEF StringEnd, Loop, n, start, StringNext
<1> HIDE DEF r, Next1
<1>6. r[0] = start
  BY <1>1, <1>4
<1>7. ASSUME NEW k \in Nat, k < n PROVE r[k + 1] = Next1(r[k])
  <2>1. k + 1 \in 0..n /\ k + 1 # 0 /\ (k + 1) - 1 = k
    BY <1>1, <1>7
  <2> QED BY <1>4, <2>1
<1>8. r \in [0..n -> Nat]
  <2>1. ASSUME NEW k \in Nat, k < n, r[k] \in Nat PROVE r[k + 1] \in Nat
    BY <1>2, <1>7, <2>1
  <2>2. \A k \in 0..n : r[k] \in Nat
    BY <1>1, <1>6, <2>1, RunType
  <2> QED BY <1>4, <2>2
<1> QED BY <1>5, <1>6, <1>7, <1>8 DEF StringRun, n, start, Next1

\* Where the scan goes on from a place, by what is there.
LEMMA BeyondIs ==
    ASSUME NEW text \in Seq(Symbols), NEW i \in Nat
    PROVE  Beyond(text, i) =
             IF Pair(text, i, "/", "/") THEN FirstOf(LineStops(text, i + 2), Len(text))
             ELSE IF Pair(text, i, "/", "*") THEN FirstOf(BlockStops(text, i + 2), Len(text)) + 2
             ELSE IF text[i] = "quote" THEN StringEnd(text, i)
             ELSE i + 1
<1>1. Skip(text, i + 2, LAMBDA j : text[j] = NL) = FirstOf(LineStops(text, i + 2), Len(text))
  BY DEF Skip, FirstOf, LineStops
<1>2. BlockEnd(text, i) = FirstOf(BlockStops(text, i + 2), Len(text)) + 2
  BY DEF BlockEnd, Skip, FirstOf, BlockStops
<1>3. Pair(text, i, "/", "/") => ~Pair(text, i, "/", "*") /\ text[i] # "quote"
  BY DEF Pair
<1>4. Pair(text, i, "/", "*") => text[i] # "quote"
  BY DEF Pair
<1> QED BY <1>1, <1>2, <1>3, <1>4 DEF Beyond

ScanNext(text, i) == IF i > Len(text) \/ text[i] = "rule" THEN i ELSE Beyond(text, i)

\* From a place the scan goes on at a place.
LEMMA ScanNextType ==
    ASSUME NEW text \in Seq(Symbols), NEW i \in Nat
    PROVE  ScanNext(text, i) \in Nat
<1> DEFINE n == Len(text)
<1>0. StringEnd(text, i) \in Nat
  <2>1. PICK r : StringRun(text, i, r)
    BY StringLoop
  <2>2. Len(text) \in 0..Len(text)
    BY TextIs
  <2> QED BY <2>1, <2>2 DEF StringRun
<1>1. n \in Nat /\ i + 2 \in Nat /\ i + 2 >= 1
  BY TextIs
<1>2. LineStops(text, i + 2) \in SUBSET ((i + 2)..n) /\ BlockStops(text, i + 2) \in SUBSET ((i + 2)..n)
  BY DEF LineStops, BlockStops
<1>3. FirstOf(LineStops(text, i + 2), n) \in Nat /\ FirstOf(BlockStops(text, i + 2), n) \in Nat
  <2> HIDE DEF n
  <2> QED BY <1>1, <1>2, FirstIs
<1> QED BY <1>0, <1>1, <1>3, BeyondIs DEF ScanNext

\* The loop in contains_rule_declaration.
ScanRun(text, r) ==
    /\ r \in [0..Len(text) -> Nat] /\ r[0] = 1
    /\ \A k \in Nat : k < Len(text) => r[k + 1] = ScanNext(text, r[k])
    /\ contains_rule_declaration(text) <=> r[Len(text)] <= Len(text)

\* The values of the loop of contains_rule_declaration exist.
LEMMA ScanLoop ==
    ASSUME NEW text \in Seq(Symbols)
    PROVE  \E r : ScanRun(text, r)
<1> DEFINE n == Len(text)
           start == 1
           Next1(i) == ScanNext(text, i)
           F == [i \in Nat |-> Next1(i)]
           Is(f) == f = [k \in 0..n |-> IF k = 0 THEN start ELSE Next1(f[k - 1])]
           r == CHOOSE f : Is(f)
<1>1. n \in Nat /\ start \in Nat
  BY TextIs
<1>2. \A i \in Nat : Next1(i) \in Nat
  BY ScanNextType
<1> HIDE DEF n, start
<1>3. \E f : Is(f)
  <2>1. F \in [Nat -> Nat] /\ \A i \in Nat : F[i] = Next1(i)
    <3> HIDE DEF Next1
    <3> QED BY <1>2
  <2> HIDE DEF F, Next1
  <2>2. PICK f : LoopsTo(f, n, start, F)
    BY <1>1, <2>1, LoopExists
  <2>3. ASSUME NEW k \in 0..n PROVE f[k] = IF k = 0 THEN start ELSE Next1(f[k - 1])
    <3>1. k # 0 => k - 1 \in Nat /\ k - 1 < n /\ (k - 1) + 1 = k /\ k - 1 \in 0..n
      BY <1>1
    <3>2. k # 0 => f[k - 1] \in Nat /\ f[(k - 1) + 1] = F[f[k - 1]]
      BY <2>2, <3>1 DEF LoopsTo
    <3> QED BY <2>1, <2>2, <3>1, <3>2 DEF LoopsTo
  <2>4. f = [k \in 0..n |-> f[k]]
    BY <2>2 DEF LoopsTo
  <2>5. Is(f)
    BY <2>3, <2>4
  <2> QED BY <2>5
<1>4. Is(r)
  <2> HIDE DEF Is
  <2> QED BY <1>3
<1>5. contains_rule_declaration(text) = (r[n] <= n)
  BY DEF contains_rule_declaration, Loop, n, start, ScanNext
<1> HIDE DEF r, Next1
<1>6. r[0] = start
  BY <1>1, <1>4
<1>7. ASSUME NEW k \in Nat, k < n PROVE r[k + 1] = Next1(r[k])
  <2>1. k + 1 \in 0..n /\ k + 1 # 0 /\ (k + 1) - 1 = k
    BY <1>1, <1>7
  <2> QED BY <1>4, <2>1
<1>8. r \in [0..n -> Nat]
  <2>1. ASSUME NEW k \in Nat, k < n, r[k] \in Nat PROVE r[k + 1] \in Nat
    BY <1>2, <1>7, <2>1
  <2>2. \A k \in 0..n : r[k] \in Nat
    BY <1>1, <1>6, <2>1, RunType
  <2> QED BY <1>4, <2>2
<1> QED BY <1>5, <1>6, <1>7, <1>8 DEF ScanRun, n, start, Next1

\* A token that is no rule.
LEMMA EmitNoRule ==
    ASSUME NEW l \in LexStates, NEW t \in TokenSymbols, t # "rule", NEW n, NoRule(l.tokens)
    PROVE  NoRule(Emit(l, t, n).tokens)
<1>1. /\ Len(l.tokens) \in Nat /\ Len(Emit(l, t, n).tokens) = Len(l.tokens) + 1
      /\ Emit(l, t, n).tokens[Len(l.tokens) + 1].sym = t
      /\ \A i \in 1..Len(l.tokens) : Emit(l, t, n).tokens[i] = l.tokens[i]
  BY EmitIs
<1>2. ASSUME NEW i \in 1..Len(Emit(l, t, n).tokens) PROVE Emit(l, t, n).tokens[i].sym # "rule"
  <2>1. i = Len(l.tokens) + 1 \/ i \in 1..Len(l.tokens)
    BY <1>1
  <2> QED BY <1>1, <2>1 DEF NoRule
<1> QED BY <1>2 DEF NoRule

\* A string: it ends on its line, or the text does not compile.
LEMMA AfterString ==
    ASSUME NEW text \in Seq(Symbols), Readable(text), NEW p \in 1..Len(text), AtCode(text, p),
           text[p] = "quote"
    PROVE  AtCode(text, StringEnd(text, p)) /\ StringEnd(text, p) > p
<1> DEFINE n == Len(text)
           l == LexRun(text)
           tokens == l[p - 1].tokens
           In(i) == l[i].mode = "string" /\ ~l[i].skip /\ l[i].tokens = tokens
<1>1. n \in Nat /\ p \in Nat /\ p >= 1 /\ p <= n
  BY LexSteps
<1>2. l[p - 1].mode = "code" /\ ~l[p - 1].skip /\ NoRule(tokens) /\ l[p - 1] \in LexStates
  <2>1. l[p - 1] \in LexStates
    BY LexSteps
  <2> QED BY <1>1, <2>1 DEF AtCode, NL
<1>3. In(p)
  <2>1. l[p] = Lex(l[p - 1], "quote", Ahead(text, p))
    BY LexSteps
  <2>2. l[p] = [l[p - 1] EXCEPT !.mode = "string"]
    BY <1>2, <2>1 DEF Lex, LexCode, NL, SP
  <2> QED BY <1>2, <2>2 DEF LexStates
<1>4. \A i \in Nat : i <= n => l[i].mode # "bad" /\ l[i] \in LexStates
  BY LexSteps DEF Readable, Off
<1>5. l[n].mode \in {"code", "line"}
  BY DEF Readable
<1>6. \A i \in 1..n : /\ text[i] \in Symbols /\ l[i - 1] \in LexStates
                      /\ l[i] = Lex(l[i - 1], text[i], Ahead(text, i))
  BY LexSteps
<1> HIDE DEF l, n, tokens
\* One symbol of the string.
<1>7. ASSUME NEW i \in 1..n, In(i - 1), text[i] # "quote", text[i] # "backslash" PROVE In(i)
  <2>1. l[i] = Lex(l[i - 1], text[i], Ahead(text, i)) /\ l[i - 1] \in LexStates /\ l[i].mode # "bad"
    BY <1>1, <1>4, <1>6
  <2>2. text[i] # NL
    <3>1. text[i] = NL => l[i].mode = "bad"
      BY <1>7, <2>1 DEF Lex, LexNewline, LexStates
    <3> QED BY <2>1, <3>1
  <2>3. l[i] = l[i - 1]
    BY <1>7, <2>1, <2>2 DEF Lex, LexQuoted
  <2> QED BY <1>7, <2>3
\* A backslash, and the symbol after it.
<1>8. ASSUME NEW i \in 1..n, In(i - 1), text[i] = "backslash" PROVE i < n /\ In(i + 1)
  <2>1. l[i] = Lex(l[i - 1], text[i], Ahead(text, i)) /\ l[i - 1] \in LexStates
    BY <1>1, <1>6
  <2>2. l[i] = [l[i - 1] EXCEPT !.skip = TRUE]
    BY <1>8, <2>1 DEF Lex, LexQuoted, NL
  <2>3. l[i].mode = "string" /\ l[i].skip /\ l[i].tokens = tokens
    BY <1>8, <2>1, <2>2 DEF LexStates
  <2>4. i < n
    BY <1>1, <1>5, <2>3
  <2>5. i + 1 \in 1..n /\ (i + 1) - 1 = i /\ i + 1 \in Nat /\ i + 1 <= n
    BY <1>1, <2>4
  <2>6. l[i + 1] = Lex(l[i], text[i + 1], Ahead(text, i + 1)) /\ l[i] \in LexStates /\ l[i + 1].mode # "bad"
    BY <1>4, <1>6, <2>5
  <2>7. text[i + 1] # NL
    <3>1. text[i + 1] = NL => l[i + 1].mode = "bad"
      BY <2>3, <2>6 DEF Lex, LexNewline, LexStates
    <3> QED BY <2>6, <3>1
  <2>8. l[i + 1] = [l[i] EXCEPT !.skip = FALSE]
    BY <2>3, <2>6, <2>7 DEF Lex
  <2>9. In(i + 1)
    BY <2>3, <2>6, <2>8 DEF LexStates
  <2> QED BY <2>4, <2>9
<1>9. PICK r : StringRun(text, p, r)
  BY <1>1, StringLoop
<1>10. /\ \A k \in Nat : k <= n => r[k] \in Nat
       /\ r[0] = p + 1 /\ StringEnd(text, p) = r[n] + 1
       /\ \A k \in Nat : k < n => r[k + 1] = StringNext(text, r[k])
  <2>1. \A k \in Nat : k <= n => k \in 0..n
    BY <1>1
  <2> QED BY <1>9, <2>1 DEF StringRun, n
<1> DEFINE Stopped(k) == r[k] <= n /\ text[r[k]] = "quote"
           S == {k \in Nat : /\ r[k] > p /\ r[k] <= n + 1 /\ In(r[k] - 1)
                             /\ r[k] > k + 1 \/ Stopped(k)}
<1>11. 0 \in S
  BY <1>1, <1>3, <1>10
<1>12. ASSUME NEW k \in Nat, k < n, k \in S PROVE k + 1 \in S
  <2> DEFINE i == r[k]
  <2>1. i \in Nat /\ i > p /\ i <= n + 1 /\ In(i - 1) /\ (i > k + 1 \/ Stopped(k))
    <3>1. k <= n
      BY <1>1, <1>12
    <3> HIDE DEF In
    <3> QED BY <1>10, <1>12, <3>1
  <2>2. r[k + 1] = StringNext(text, i)
    BY <1>10, <1>12
  <2>3. i <= n
    <3> SUFFICES ASSUME ~(i <= n) PROVE FALSE
      OBVIOUS
    <3>1. i - 1 = n
      BY <1>1, <2>1
    <3> QED BY <1>5, <2>1, <3>1
  <2>4. i \in 1..n
    BY <1>1, <2>1, <2>3
  <2> HIDE DEF In, i
  <2>5. CASE text[i] = "quote"
    <3>1. r[k + 1] = i
      BY <2>2, <2>5 DEF StringNext
    <3> QED BY <2>1, <2>3, <2>5, <3>1
  <2>6. CASE text[i] = "backslash"
    <3>1. r[k + 1] = i + 2
      BY <1>1, <2>1, <2>2, <2>3, <2>6 DEF StringNext, n
    <3>2. i < n /\ In(i + 1)
      BY <1>8, <2>1, <2>4, <2>6
    <3>3. (i + 2) - 1 = i + 1 /\ i + 2 > p /\ i + 2 <= n + 1
      BY <1>1, <2>1, <3>2
    <3>4. i + 2 > (k + 1) + 1
      BY <2>1, <2>6 DEF i
    <3>5. r[k + 1] > p /\ r[k + 1] <= n + 1 /\ In(r[k + 1] - 1) /\ r[k + 1] > (k + 1) + 1
      BY <3>1, <3>2, <3>3, <3>4
    <3> QED BY <3>5
  <2>7. CASE text[i] # "quote" /\ text[i] # "backslash"
    <3>1. r[k + 1] = i + 1
      BY <1>1, <2>1, <2>2, <2>3, <2>7 DEF StringNext, n
    <3>2. In(i)
      BY <1>7, <2>1, <2>4, <2>7
    <3>3. (i + 1) - 1 = i /\ i + 1 > p /\ i + 1 <= n + 1
      BY <1>1, <2>1, <2>3
    <3>4. i + 1 > (k + 1) + 1
      BY <2>1, <2>7 DEF i
    <3>5. r[k + 1] > p /\ r[k + 1] <= n + 1 /\ In(r[k + 1] - 1) /\ r[k + 1] > (k + 1) + 1
      BY <3>1, <3>2, <3>3, <3>4
    <3> QED BY <3>5
  <2> QED BY <2>5, <2>6, <2>7
<1> HIDE DEF S
<1>13. n \in S
  <2>1. 0..n \subseteq S
    BY <1>1, <1>11, <1>12, InductionTo
  <2>2. n \in 0..n
    BY <1>1
  <2> QED BY <2>1, <2>2
<1> DEFINE q == r[n]
<1>14. q \in Nat /\ q > p /\ q <= n /\ text[q] = "quote" /\ In(q - 1)
  <2> HIDE DEF In
  <2>1. q \in Nat /\ q > p /\ q <= n + 1 /\ In(q - 1) /\ (q > n + 1 \/ (q <= n /\ text[q] = "quote"))
    BY <1>1, <1>10, <1>13 DEF S
  <2> HIDE DEF q
  <2>2. q <= n /\ text[q] = "quote"
    BY <1>1, <2>1
  <2> QED BY <2>1, <2>2
<1> HIDE DEF q
<1>15. q \in 1..n
  BY <1>1, <1>14
<1>16. l[q] = Lex(l[q - 1], "quote", Ahead(text, q)) /\ l[q - 1] \in LexStates
  BY <1>6, <1>14, <1>15
<1>17. l[q] = Emit(l[q - 1], "string", Ahead(text, q))
  BY <1>14, <1>16 DEF Lex, LexQuoted, NL
<1> DEFINE t == "string"
<1>18. t \in TokenSymbols /\ t # "rule"
  BY DEF TokenSymbols
<1>19. l[q] = Emit(l[q - 1], t, Ahead(text, q))
  BY <1>17
<1> HIDE DEF t
<1>20. l[q].mode = "code" /\ ~l[q].skip
  BY <1>14, <1>16, <1>18, <1>19, EmitIs
<1>21. NoRule(l[q].tokens)
  BY <1>2, <1>14, <1>16, <1>18, <1>19, EmitNoRule
<1>22. StringEnd(text, p) = q + 1 /\ (q + 1) - 1 = q /\ q + 1 \in Nat /\ q + 1 >= 1 /\ q + 1 <= n + 1 /\ q + 1 > p
  BY <1>1, <1>10, <1>14 DEF q
<1> QED BY <1>20, <1>21, <1>22 DEF AtCode, l, n

\* Any other symbol that is no rule.
LEMMA AfterSymbol ==
    ASSUME NEW text \in Seq(Symbols), Readable(text), NEW p \in 1..Len(text), AtCode(text, p),
           text[p] # "rule", text[p] # "quote", ~Pair(text, p, "/", "/"), ~Pair(text, p, "/", "*")
    PROVE  AtCode(text, p + 1)
<1> DEFINE n == Len(text)
           l == LexRun(text)
           c == text[p]
<1>1. n \in Nat /\ p \in Nat /\ p >= 1 /\ p <= n
  BY LexSteps
<1>2. /\ ~l[p - 1].skip /\ NoRule(l[p - 1].tokens) /\ l[p - 1] \in LexStates
      /\ l[p - 1].mode = "code" \/ (l[p - 1].mode = "line" /\ c = NL)
      /\ l[p] = Lex(l[p - 1], c, Ahead(text, p)) /\ c \in Symbols
  <2>1. l[p - 1] \in LexStates /\ l[p] = Lex(l[p - 1], c, Ahead(text, p)) /\ c \in Symbols
    BY LexSteps
  <2> QED BY <1>1, <2>1 DEF AtCode
<1>3. ~Off(l[p])
  BY <1>1 DEF Readable
<1>4. c = "/" => Ahead(text, p) \notin {"/", "*"}
  BY <1>1 DEF Pair, Ahead, NL
<1>5. (p + 1) - 1 = p /\ p + 1 \in Nat /\ p + 1 >= 1 /\ p + 1 <= n + 1
  BY <1>1
<1> HIDE DEF l, n, c
<1>6. l[p].mode = "code" /\ ~l[p].skip /\ NoRule(l[p].tokens)
  <2>1. CASE c = NL
    <3>1. l[p] = LexNewline(l[p - 1])
      BY <1>2, <2>1 DEF Lex
    <3> QED BY <1>2, <3>1 DEF LexNewline, LexStates
  <2>2. CASE c = "/"
    <3>1. l[p] = [l[p - 1] EXCEPT !.mode = "regex"]
      BY <1>2, <1>4, <2>2 DEF Lex, LexCode, NL, SP
    <3>2. l[p].mode = "regex" /\ l[p].tokens = l[p - 1].tokens
      BY <1>2, <3>1 DEF LexStates
    <3> QED BY <1>2, <1>3, <3>2 DEF Off
  <2>3. CASE c = SP
    <3>1. l[p] = l[p - 1]
      BY <1>2, <2>3 DEF Lex, LexCode, NL, SP
    <3> QED BY <1>2, <2>3, <3>1 DEF NL, SP
  <2>4. CASE c \notin {NL, SP, "/"}
    <3>1. l[p - 1].mode = "code"
      BY <1>2, <2>4
    <3>2. l[p] = Emit(l[p - 1], c, Ahead(text, p))
      BY <1>2, <2>4, <3>1 DEF Lex, LexCode, c
    <3>3. c \in TokenSymbols /\ c # "rule"
      BY <1>2 DEF TokenSymbols, c
    <3> QED BY <1>2, <3>2, <3>3, EmitIs, EmitNoRule
  <2> QED BY <2>1, <2>2, <2>3, <2>4
<1> QED BY <1>5, <1>6 DEF AtCode, l, n

\* One round of the scanner's loop.
LEMMA ScanStep ==
    ASSUME NEW text \in Seq(Symbols), Readable(text), NEW p \in 1..Len(text), AtCode(text, p),
           text[p] # "rule"
    PROVE  AtCode(text, Beyond(text, p)) /\ Beyond(text, p) > p
<1>1. p \in Nat
  OBVIOUS
<1>2. CASE Pair(text, p, "/", "/")
  BY <1>1, <1>2, BeyondIs, AfterLine
<1>3. CASE Pair(text, p, "/", "*")
  <2>1. ~Pair(text, p, "/", "/")
    BY <1>3 DEF Pair
  <2> QED BY <1>1, <1>3, <2>1, BeyondIs, AfterBlock
<1>4. CASE text[p] = "quote"
  <2>1. ~Pair(text, p, "/", "/") /\ ~Pair(text, p, "/", "*")
    BY <1>4 DEF Pair
  <2> QED BY <1>1, <1>4, <2>1, BeyondIs, AfterString
<1>5. CASE ~Pair(text, p, "/", "/") /\ ~Pair(text, p, "/", "*") /\ text[p] # "quote"
  <2>1. Beyond(text, p) = p + 1
    BY <1>1, <1>5, BeyondIs
  <2> QED BY <1>1, <1>5, <2>1, AfterSymbol
<1> QED BY <1>2, <1>3, <1>4, <1>5

\* A rule that has been read is among the tokens.
LEMMA RuleStays ==
    ASSUME NEW text \in Seq(Symbols), NEW p \in Nat, p <= Len(text), ~NoRule(LexRun(text)[p].tokens)
    PROVE  ~NoRule(LexRun(text)[Len(text)].tokens)
<1> DEFINE n == Len(text)
           S == {i \in Nat : ~NoRule(LexRun(text)[i].tokens)}
<1>1. n \in Nat /\ p <= n
  BY LexSteps
<1>2. p \in S
  OBVIOUS
<1>3. ASSUME NEW i \in Nat, i < n, i \in S PROVE i + 1 \in S
  <2> DEFINE l == LexRun(text)[i]
             more == LexRun(text)[i + 1]
  <2>1. i + 1 \in 1..n /\ (i + 1) - 1 = i
    BY <1>1, <1>3
  <2>2. more = Lex(l, text[i + 1], Ahead(text, i + 1)) /\ l \in LexStates /\ text[i + 1] \in Symbols
    BY <2>1, LexSteps
  <2>3. PICK t \in 1..Len(l.tokens) : l.tokens[t].sym = "rule"
    BY <1>3 DEF NoRule
  <2>4. /\ Len(l.tokens) \in Nat /\ Len(more.tokens) \in Nat /\ Len(more.tokens) >= Len(l.tokens)
        /\ \A j \in 1..Len(l.tokens) : more.tokens[j] = l.tokens[j]
    <3> HIDE DEF l, more
    <3> QED BY <2>2, LexGrows
  <2> HIDE DEF l, more
  <2>5. t \in 1..Len(more.tokens) /\ more.tokens[t].sym = "rule"
    BY <2>3, <2>4
  <2>6. ~NoRule(more.tokens)
    BY <2>5 DEF NoRule
  <2> QED BY <2>6 DEF more
<1> HIDE DEF S
<1>4. n \in S
  <2> HIDE DEF n
  <2> QED BY <1>1, <1>2, <1>3, InductionFrom
<1> QED BY <1>4 DEF S

\* The scanner finds a rule in a text that compiles if there is one.
LEMMA ScanFinds ==
    ASSUME NEW text \in Seq(Symbols), Compiles(text)
    PROVE  contains_rule_declaration(text) <=> ~NoRule(Tokens(text))
<1> DEFINE n == Len(text)
           l == LexRun(text)
<1>1. n \in Nat /\ Readable(text) /\ Tokens(text) = l[n].tokens
  BY CompilesReadable, CompilesIs, LexSteps
<1>2. PICK r : ScanRun(text, r)
  BY ScanLoop
<1>3. /\ \A k \in Nat : k <= n => r[k] \in Nat
      /\ r[0] = 1 /\ (contains_rule_declaration(text) <=> r[n] <= n)
      /\ \A k \in Nat : k < n => r[k + 1] = ScanNext(text, r[k])
  <2>1. \A k \in Nat : k <= n => k \in 0..n
    BY <1>1
  <2> QED BY <1>2, <2>1 DEF ScanRun
<1>4. ASSUME NEW i \in 1..n, AtCode(text, i), text[i] # "rule"
      PROVE  AtCode(text, Beyond(text, i)) /\ Beyond(text, i) > i
  BY <1>1, <1>4, ScanStep
<1>5. \A i : AtCode(text, i) => i \in Nat /\ i >= 1 /\ i <= n + 1
  BY DEF AtCode
<1> DEFINE Stopped(k) == r[k] <= n /\ text[r[k]] = "rule"
           S == {k \in Nat : AtCode(text, r[k]) /\ (r[k] > k \/ Stopped(k))}
<1>6. 0 \in S
  <2>1. LexRun(text)[1 - 1] = LexStart
    BY LexSteps
  <2>2. ~LexStart.skip /\ LexStart.mode = "code" /\ NoRule(LexStart.tokens)
    BY DEF LexStart, NoRule
  <2>3. AtCode(text, 1)
    BY <1>1, <2>1, <2>2 DEF AtCode
  <2> QED BY <1>3, <2>3
<1>7. ASSUME NEW k \in Nat, k < n, k \in S PROVE k + 1 \in S
  <2> DEFINE i == r[k]
  <2>1. AtCode(text, i) /\ (i > k \/ (i <= n /\ text[i] = "rule"))
    BY <1>7
  <2>2. i \in Nat /\ i >= 1 /\ i <= n + 1
    BY <1>5, <2>1
  <2>3. r[k + 1] = ScanNext(text, i)
    BY <1>3, <1>7
  <2> HIDE DEF i
  <2>4. CASE i > n
    <3>1. r[k + 1] = i /\ i > k + 1
      BY <1>1, <1>7, <2>2, <2>3, <2>4 DEF ScanNext
    <3> QED BY <2>1, <3>1
  <2>5. CASE i <= n /\ text[i] = "rule"
    <3>1. r[k + 1] = i
      BY <2>3, <2>5 DEF ScanNext
    <3> QED BY <2>1, <2>5, <3>1
  <2>6. CASE i <= n /\ text[i] # "rule"
    <3>1. i \in 1..n
      BY <1>1, <2>2, <2>6
    <3>2. r[k + 1] = Beyond(text, i)
      BY <1>1, <2>2, <2>3, <2>6 DEF ScanNext
    <3>3. AtCode(text, r[k + 1]) /\ r[k + 1] > i
      BY <1>4, <2>1, <2>6, <3>1, <3>2
    <3>4. r[k + 1] \in Nat /\ i > k
      BY <1>5, <2>1, <2>6, <3>3
    <3>5. r[k + 1] > k + 1
      BY <2>2, <3>3, <3>4
    <3> QED BY <3>3, <3>5
  <2> QED BY <1>1, <2>2, <2>4, <2>5, <2>6
<1> DEFINE p == r[n]
<1>8. AtCode(text, p) /\ p \in Nat /\ p >= 1 /\ p <= n + 1 /\ (p > n \/ text[p] = "rule")
  <2>1. n \in S
    <3> HIDE DEF S
    <3>1. 0..n \subseteq S
      BY <1>1, <1>6, <1>7, InductionTo
    <3>2. n \in 0..n
      BY <1>1
    <3> QED BY <3>1, <3>2
  <2> QED BY <1>5, <2>1
<1> HIDE DEF p, S
<1>9. CASE p <= n
  <2>1. text[p] = "rule" /\ p \in 1..n
    BY <1>1, <1>8, <1>9
  <2>2. /\ l[p] = Lex(l[p - 1], "rule", Ahead(text, p)) /\ l[p - 1] \in LexStates
        /\ l[p - 1].mode = "code" /\ ~l[p - 1].skip
    <3>1. l[p] = Lex(l[p - 1], text[p], Ahead(text, p)) /\ l[p - 1] \in LexStates
      BY <2>1, LexSteps
    <3> QED BY <1>8, <1>9, <2>1, <3>1 DEF AtCode, NL
  <2> DEFINE t == "rule"
  <2>3. l[p] = Emit(l[p - 1], t, Ahead(text, p))
    BY <2>2 DEF Lex, LexCode, NL, SP
  <2>4. t \in TokenSymbols /\ t = "rule"
    BY NoWords DEF TokenSymbols, Symbols
  <2> HIDE DEF t, l
  <2>5. /\ Len(l[p - 1].tokens) \in Nat /\ Len(l[p].tokens) = Len(l[p - 1].tokens) + 1
        /\ l[p].tokens[Len(l[p - 1].tokens) + 1].sym = t
    BY <2>2, <2>3, <2>4, EmitIs
  <2>6. ~NoRule(l[p].tokens)
    <3>1. Len(l[p - 1].tokens) + 1 \in 1..Len(l[p].tokens)
      BY <2>5
    <3> QED BY <2>4, <2>5, <3>1 DEF NoRule
  <2>7. ~NoRule(l[n].tokens)
    BY <1>8, <1>9, <2>6, RuleStays DEF l
  <2> QED BY <1>1, <1>3, <1>9, <2>7 DEF p
<1>10. CASE p > n
  <2>1. p - 1 = n
    BY <1>1, <1>8, <1>10
  <2>2. NoRule(l[n].tokens)
    BY <1>8, <2>1 DEF AtCode
  <2>3. ~(p <= n)
    BY <1>1, <1>8, <1>10
  <2> QED BY <1>1, <1>3, <2>2, <2>3 DEF p
<1> QED BY <1>1, <1>8, <1>9, <1>10

\* A text that compiles declares a name if it has a rule.
LEMMA DeclaredIs ==
    ASSUME NEW text \in Seq(Symbols), Compiles(text)
    PROVE  Declared(text) = {} <=> NoRule(Tokens(text))
<1>1. DOMAIN Tokens(text) = 1..Len(Tokens(text))
  BY CompilesIs, LenProperties
<1> QED BY <1>1 DEF Declared, Declarations, NoRule

\* A text without a rule has no regular expression that awk does not know.
LEMMA NoRuleNoRegex ==
    ASSUME NEW text \in Seq(Symbols), Compiles(text), NoRule(Tokens(text))
    PROVE  KnownRegexes(text)
<1> DEFINE tokens == Tokens(text)
<1>1. tokens \in Seq(ParseTokens) /\ ParseRun(tokens)[Len(tokens)] = "top"
  BY CompilesIs
<1>2. DOMAIN tokens = 1..Len(tokens) /\ Len(tokens) \in Nat
  BY <1>1, LenProperties
<1>3. NoRule(tokens)
  OBVIOUS
<1> HIDE DEF tokens
<1>4. ASSUME NEW i \in 1..Len(tokens), tokens[i].sym = "regex" PROVE FALSE
  <2>1. PICK s \in 1..(i - 1) : tokens[s].sym = "rule"
    BY <1>1, <1>4, RegexInRule
  <2>2. s \in 1..Len(tokens)
    BY <1>2
  <2> QED BY <1>3, <2>1, <2>2 DEF NoRule
<1> QED BY <1>2, <1>4 DEF KnownRegexes, tokens

-----------------------------------------------------------------------------
(***************************************************************************)
(* What a tidy text declares is counted.  Each token has a place in what   *)
(* awk prints; everything else that is printed is spaces and the ends of   *)
(* the lines, which the lexer counts too.                                  *)
(***************************************************************************)
OneLine(out, i, j) == \A m \in i..j : out[m] # NL

\* Token t is at pos[t] (a string or a regular expression ends there).
Placed(out, tokens, pos) ==
    /\ pos \in Seq(Nat) /\ Len(pos) = Len(tokens)
    /\ \A t \in 1..Len(tokens) : /\ pos[t] \in 1..Len(out)
                                 /\ tokens[t].sym \notin {"string", "regex"} => out[pos[t]] = tokens[t].sym
    /\ \A s, t \in 1..Len(tokens) : s < t => pos[s] < pos[t]

\* The next symbol is a space, and it is printed.
Due(a, n) == a.mode = "code" /\ ~a.skip /\ n = SP

\* A space is printed after the tokens that have one.
SpacedAt(a, n, tokens, pos) ==
    \A t \in 1..Len(tokens) : tokens[t].spaced =>
        \/ pos[t] < Len(a.out) /\ a.out[pos[t] + 1] = SP
        \/ pos[t] = Len(a.out) /\ Due(a, n)

\* Two tokens are on one line if no line ends between them.
LinesAt(out, tokens, line, pos) ==
    /\ \A t \in 1..Len(tokens) : /\ tokens[t].line <= line
                                 /\ tokens[t].line = line <=> OneLine(out, pos[t] + 1, Len(out))
    /\ \A s, t \in 1..Len(tokens) : s < t =>
           (tokens[s].line = tokens[t].line <=> OneLine(out, pos[s] + 1, pos[t]))

\* m is in what is printed of token t.
Within(out, tokens, pos, t, m) ==
    \/ m = pos[t]
    \/ /\ m < pos[t] /\ tokens[t].sym \in {"string", "regex"}
       /\ \A s \in 1..(t - 1) : pos[s] < m
       /\ OneLine(out, m, pos[t])
\* m is in a string or a regular expression that is not at its end.
Begun(out, tokens, pos, m) ==
    (\A s \in 1..Len(tokens) : pos[s] < m) /\ OneLine(out, m, Len(out))
Covered(out, tokens, mode, pos) ==
    \A m \in 1..Len(out) : \/ out[m] \in {SP, NL}
                           \/ \E t \in 1..Len(tokens) : Within(out, tokens, pos, t, m)
                           \/ Quoted(mode) /\ Begun(out, tokens, pos, m)

Where(a, l, n, pos) ==
    /\ Placed(a.out, l.tokens, pos)
    /\ SpacedAt(a, n, l.tokens, pos)
    /\ LinesAt(a.out, l.tokens, l.line, pos)
    /\ Covered(a.out, l.tokens, a.mode, pos)

\* A symbol more, unless it ends the line, keeps a line one line.
LEMMA OneLineAppend ==
    ASSUME NEW out \in Seq(Symbols), NEW x \in Symbols, NEW i \in Nat, i >= 1
    PROVE  /\ \A j \in Nat : j <= Len(out) => (OneLine(Append(out, x), i, j) <=> OneLine(out, i, j))
           /\ i <= Len(out) + 1 =>
                (OneLine(Append(out, x), i, Len(out) + 1) <=> OneLine(out, i, Len(out)) /\ x # NL)
<1> DEFINE after == Append(out, x)
           N == Len(out)
<1>1. N \in Nat /\ after[N + 1] = x /\ \A m \in 1..N : after[m] = out[m]
  BY Appended
<1> HIDE DEF after, N
<1>2. ASSUME NEW j \in Nat, j <= N PROVE OneLine(after, i, j) <=> OneLine(out, i, j)
  <2>1. \A m \in i..j : m \in 1..N
    BY <1>1, <1>2
  <2> QED BY <1>1, <2>1 DEF OneLine
<1>3. ASSUME i <= N + 1 PROVE OneLine(after, i, N + 1) <=> OneLine(out, i, N) /\ x # NL
  <2>1. N + 1 \in i..(N + 1) /\ (\A m \in i..N : m \in i..(N + 1) /\ m \in 1..N)
        /\ \A m \in i..(N + 1) : m = N + 1 \/ m \in i..N
    BY <1>1, <1>3
  <2> QED BY <1>1, <2>1 DEF OneLine
<1> QED BY <1>2, <1>3 DEF after, N

\* A step that prints nothing.
LEMMA WhereStays ==
    ASSUME NEW a, NEW l, NEW c, NEW a2, NEW l2, NEW n, NEW pos, Where(a, l, c, pos),
           a2.out = a.out, l2.tokens = l.tokens, l2.line = l.line, ~Quoted(a.mode), ~Due(a, c)
    PROVE  Where(a2, l2, n, pos)
<1>1. SpacedAt(a2, n, l2.tokens, pos)
  BY DEF Where, SpacedAt
<1>2. Covered(a2.out, l2.tokens, a2.mode, pos)
  BY DEF Where, Covered
<1> QED BY <1>1, <1>2 DEF Where

\* A step that prints a symbol that is no token.
LEMMA WherePrints ==
    ASSUME NEW a \in AwkStates, NEW l \in LexStates, NEW c \in Symbols, NEW a2, NEW l2, NEW n, NEW pos,
           Where(a, l, c, pos),
           a2.out = Append(a.out, c), l2.tokens = l.tokens,
           l2.line = IF c = NL THEN l.line + 1 ELSE l.line,
           c \in {SP, NL} \/ Quoted(a2.mode), Quoted(a.mode) => Quoted(a2.mode) /\ c # NL
    PROVE  Where(a2, l2, n, pos)
<1> DEFINE out == a.out
           N == Len(out)
           tokens == l.tokens
<1>1. out \in Seq(Symbols) /\ tokens \in Seq(TokenType) /\ l.line \in Nat /\ Len(tokens) \in Nat
  BY AwkFields, LexFields
<1>2. N \in Nat /\ Len(a2.out) = N + 1 /\ a2.out[N + 1] = c /\ \A m \in 1..N : a2.out[m] = out[m]
  BY <1>1, Appended
<1>3. \A t \in 1..Len(tokens) : /\ pos[t] \in 1..N
                                /\ tokens[t].sym \notin {"string", "regex"} => out[pos[t]] = tokens[t].sym
                                /\ tokens[t] \in TokenType /\ tokens[t].line \in Nat
  <2>1. \A t \in 1..Len(tokens) : tokens[t] \in TokenType
    BY <1>1, ElementOfSeq
  <2> QED BY <2>1 DEF Where, Placed, TokenType
<1>4. \A i \in Nat : i >= 1 => /\ \A j \in Nat : j <= N => (OneLine(a2.out, i, j) <=> OneLine(out, i, j))
                               /\ i <= N + 1 => (OneLine(a2.out, i, N + 1) <=> OneLine(out, i, N) /\ c # NL)
  BY <1>1, OneLineAppend
<1> HIDE DEF N, out, tokens
<1>5. Placed(a2.out, tokens, pos)
  <2>1. /\ pos \in Seq(Nat) /\ Len(pos) = Len(tokens)
        /\ \A s, t \in 1..Len(tokens) : s < t => pos[s] < pos[t]
    BY DEF Where, Placed, out, tokens
  <2>2. \A t \in 1..Len(tokens) : pos[t] \in 1..Len(a2.out)
    BY <1>2, <1>3
  <2> QED BY <1>2, <1>3, <2>1, <2>2 DEF Placed
<1>6. SpacedAt(a2, n, tokens, pos)
  <2> SUFFICES ASSUME NEW t \in 1..Len(tokens), tokens[t].spaced
               PROVE  pos[t] < Len(a2.out) /\ a2.out[pos[t] + 1] = SP
    BY DEF SpacedAt
  <2>1. \/ pos[t] < N /\ out[pos[t] + 1] = SP
        \/ pos[t] = N /\ c = SP
    BY DEF Where, SpacedAt, Due, out, N, tokens
  <2>2. pos[t] \in 1..N
    BY <1>3
  <2>3. CASE pos[t] < N /\ out[pos[t] + 1] = SP
    <3>1. pos[t] + 1 \in 1..N /\ pos[t] < N + 1
      BY <1>2, <2>2, <2>3
    <3> QED BY <1>2, <2>3, <3>1
  <2>4. CASE pos[t] = N /\ c = SP
    BY <1>2, <2>4
  <2> QED BY <2>1, <2>3, <2>4
<1>7. LinesAt(a2.out, tokens, l2.line, pos)
  <2>1. \A t \in 1..Len(tokens) : /\ tokens[t].line <= l.line
                                  /\ tokens[t].line = l.line <=> OneLine(out, pos[t] + 1, N)
    BY DEF Where, LinesAt, out, N, tokens
  <2>2. \A s, t \in 1..Len(tokens) : s < t =>
           (tokens[s].line = tokens[t].line <=> OneLine(out, pos[s] + 1, pos[t]))
    BY DEF Where, LinesAt, out, tokens
  <2>3. ASSUME NEW t \in 1..Len(tokens)
        PROVE  /\ tokens[t].line <= l2.line
               /\ tokens[t].line = l2.line <=> OneLine(a2.out, pos[t] + 1, Len(a2.out))
    <3>1. pos[t] + 1 \in Nat /\ pos[t] + 1 >= 1 /\ pos[t] + 1 <= N + 1
      BY <1>2, <1>3
    <3>2. OneLine(a2.out, pos[t] + 1, Len(a2.out)) <=> OneLine(out, pos[t] + 1, N) /\ c # NL
      BY <1>2, <1>4, <3>1
    <3>3. tokens[t].line \in Nat /\ tokens[t].line <= l.line /\ (tokens[t].line = l.line <=> OneLine(out, pos[t] + 1, N))
      BY <1>3, <2>1
    <3>4. CASE c = NL
      <4>1. l2.line = l.line + 1
        BY <3>4
      <4>2. tokens[t].line <= l2.line /\ tokens[t].line # l2.line
        BY <1>1, <3>3, <4>1
      <4> QED BY <3>2, <3>4, <4>2
    <3>5. CASE c # NL
      <4>1. l2.line = l.line
        BY <3>5
      <4> QED BY <3>2, <3>3, <3>5, <4>1
    <3> QED BY <3>4, <3>5
  <2>4. ASSUME NEW s \in 1..Len(tokens), NEW t \in 1..Len(tokens), s < t
        PROVE  tokens[s].line = tokens[t].line <=> OneLine(a2.out, pos[s] + 1, pos[t])
    <3>1. pos[s] + 1 \in Nat /\ pos[s] + 1 >= 1 /\ pos[t] \in Nat /\ pos[t] <= N
      BY <1>2, <1>3
    <3> QED BY <1>4, <2>2, <2>4, <3>1
  <2> QED BY <2>3, <2>4 DEF LinesAt
<1>8. Covered(a2.out, tokens, a2.mode, pos)
  <2> SUFFICES ASSUME NEW m \in 1..Len(a2.out), a2.out[m] \notin {SP, NL}
               PROVE  \/ \E t \in 1..Len(tokens) : Within(a2.out, tokens, pos, t, m)
                      \/ Quoted(a2.mode) /\ Begun(a2.out, tokens, pos, m)
    BY DEF Covered
  <2>1. CASE m = N + 1
    <3>1. c \notin {SP, NL} /\ Quoted(a2.mode)
      BY <1>2, <2>1
    <3>2. \A s \in 1..Len(tokens) : pos[s] < m
      BY <1>2, <1>3, <2>1
    <3>3. OneLine(a2.out, m, Len(a2.out))
      <4>1. \A i \in m..Len(a2.out) : i = N + 1
        BY <1>2, <2>1
      <4> QED BY <1>2, <3>1, <4>1 DEF OneLine
    <3> QED BY <3>1, <3>2, <3>3 DEF Begun
  <2>2. CASE m # N + 1
    <3>1. m \in 1..N
      BY <1>2, <2>2
    <3>2. out[m] \notin {SP, NL}
      BY <1>2, <3>1
    <3>3. \/ \E t \in 1..Len(tokens) : Within(out, tokens, pos, t, m)
          \/ Quoted(a.mode) /\ Begun(out, tokens, pos, m)
      BY <3>1, <3>2 DEF Where, Covered, out, tokens, N
    <3>4. ASSUME NEW t \in 1..Len(tokens), Within(out, tokens, pos, t, m)
          PROVE  Within(a2.out, tokens, pos, t, m)
      <4>1. m \in Nat /\ m >= 1 /\ pos[t] \in Nat /\ pos[t] <= N
        BY <1>2, <1>3, <3>1
      <4> QED BY <1>4, <3>4, <4>1 DEF Within
    <3>5. ASSUME Quoted(a.mode), Begun(out, tokens, pos, m)
          PROVE  Quoted(a2.mode) /\ Begun(a2.out, tokens, pos, m)
      <4>1. Quoted(a2.mode) /\ c # NL /\ m \in Nat /\ m >= 1 /\ m <= N + 1
        BY <1>2, <3>1, <3>5
      <4>2. OneLine(a2.out, m, N + 1)
        BY <1>4, <3>5, <4>1 DEF Begun, N
      <4> QED BY <1>2, <3>5, <4>1, <4>2 DEF Begun
    <3> QED BY <3>3, <3>4, <3>5
  <2> QED BY <2>1, <2>2
<1> QED BY <1>5, <1>6, <1>7, <1>8 DEF Where, tokens

\* A step that prints a token, or its end.
LEMMA WhereEmits ==
    ASSUME NEW a \in AwkStates, NEW l \in LexStates, NEW c \in Symbols, NEW a2, NEW n, NEW pos,
           NEW sym \in TokenSymbols, Where(a, l, c, pos), ~Due(a, c),
           a2.out = Append(a.out, c), c # NL, a2.mode = "code", ~a2.skip,
           sym \notin {"string", "regex"} => sym = c /\ ~Quoted(a.mode)
    PROVE  Where(a2, Emit(l, sym, n), n, Append(pos, Len(a.out) + 1))
<1> DEFINE out == a.out
           N == Len(out)
           tokens == l.tokens
           L == Len(tokens)
           token == TokenOf(l, sym, n)
           more == Emit(l, sym, n).tokens
           at == Append(pos, N + 1)
<1>1. out \in Seq(Symbols) /\ tokens \in Seq(TokenType) /\ l.line \in Nat /\ L \in Nat /\ N \in Nat
  BY AwkFields, LexFields, LenProperties
<1>2. /\ Len(a2.out) = N + 1 /\ a2.out[N + 1] = c /\ \A m \in 1..N : a2.out[m] = out[m]
  BY <1>1, Appended
<1>3. /\ Emit(l, sym, n).line = l.line /\ token \in TokenType /\ token.sym = sym
      /\ token.line = l.line /\ (token.spaced <=> n = SP)
      /\ more = Append(tokens, token)
  <2>1. token.sym = sym /\ token.line = l.line /\ (token.spaced <=> n = SP)
    BY DEF TokenOf
  <2>2. Emit(l, sym, n).line = l.line /\ TokenOf(l, sym, n) \in TokenType
        /\ Emit(l, sym, n).tokens = Append(l.tokens, TokenOf(l, sym, n))
    BY EmitIs
  <2> QED BY <2>1, <2>2
<1> HIDE DEF token
<1>4. Len(more) = L + 1 /\ more[L + 1] = token /\ \A t \in 1..L : more[t] = tokens[t] /\ tokens[t] \in TokenType
  BY <1>1, <1>3, Appended
<1>5. pos \in Seq(Nat) /\ Len(pos) = L /\ \A s, t \in 1..L : s < t => pos[s] < pos[t]
  BY DEF Where, Placed
<1>6. at \in Seq(Nat) /\ Len(at) = L + 1 /\ at[L + 1] = N + 1 /\ \A t \in 1..L : at[t] = pos[t]
  BY <1>1, <1>5, Appended
<1>7. \A t \in 1..L : /\ pos[t] \in 1..N
                      /\ tokens[t].sym \notin {"string", "regex"} => out[pos[t]] = tokens[t].sym
                      /\ tokens[t].line \in Nat
  BY <1>4 DEF Where, Placed, TokenType
<1>8. \A i \in Nat : i >= 1 => /\ \A j \in Nat : j <= N => (OneLine(a2.out, i, j) <=> OneLine(out, i, j))
                               /\ i <= N + 1 => (OneLine(a2.out, i, N + 1) <=> OneLine(out, i, N) /\ c # NL)
  BY <1>1, OneLineAppend
<1>9. \A t \in 1..(L + 1) : t = L + 1 \/ t \in 1..L
  BY <1>1
<1>10. Where(a, l, c, pos)
  OBVIOUS
<1> HIDE DEF N, out, tokens, L, more, at
<1>11. Placed(a2.out, more, at)
  <2>1. ASSUME NEW t \in 1..(L + 1)
        PROVE  /\ at[t] \in 1..Len(a2.out)
               /\ more[t].sym \notin {"string", "regex"} => a2.out[at[t]] = more[t].sym
    <3>1. CASE t = L + 1
      BY <1>1, <1>2, <1>3, <1>4, <1>6, <3>1
    <3>2. CASE t \in 1..L
      <4>1. pos[t] \in 1..N /\ at[t] = pos[t] /\ more[t] = tokens[t]
        BY <1>4, <1>6, <1>7, <3>2
      <4> QED BY <1>1, <1>2, <1>7, <3>2, <4>1
    <3> QED BY <1>9, <3>1, <3>2
  <2>2. ASSUME NEW s \in 1..(L + 1), NEW t \in 1..(L + 1), s < t PROVE at[s] < at[t]
    <3>0. s \in 1..L
      BY <1>1, <2>2
    <3>1. s \in 1..L /\ at[s] = pos[s] /\ pos[s] \in 1..N
      BY <1>6, <1>7, <3>0
    <3>2. CASE t = L + 1
      BY <1>1, <1>6, <3>1, <3>2
    <3>3. CASE t \in 1..L
      BY <1>5, <1>6, <2>2, <3>1, <3>3
    <3> QED BY <1>9, <3>2, <3>3
  <2> QED BY <1>4, <1>6, <2>1, <2>2 DEF Placed
<1>12. SpacedAt(a2, n, more, at)
  <2> SUFFICES ASSUME NEW t \in 1..(L + 1), more[t].spaced
               PROVE  \/ at[t] < Len(a2.out) /\ a2.out[at[t] + 1] = SP
                      \/ at[t] = Len(a2.out) /\ Due(a2, n)
    BY <1>4 DEF SpacedAt
  <2>1. CASE t = L + 1
    BY <1>2, <1>3, <1>4, <1>6, <2>1 DEF Due
  <2>2. CASE t \in 1..L
    <3>1. pos[t] < N /\ out[pos[t] + 1] = SP
      BY <1>4, <1>10, <2>2 DEF Where, SpacedAt, out, N, tokens, L
    <3>2. at[t] = pos[t] /\ pos[t] + 1 \in 1..N /\ pos[t] < N + 1
      BY <1>1, <1>6, <1>7, <2>2, <3>1, SMTT(30)
    <3> QED BY <1>2, <3>1, <3>2
  <2> QED BY <1>9, <2>1, <2>2
<1>13. LinesAt(a2.out, more, l.line, at)
  <2>1. \A t \in 1..L : /\ tokens[t].line <= l.line
                        /\ tokens[t].line = l.line <=> OneLine(out, pos[t] + 1, N)
    BY <1>10 DEF Where, LinesAt, out, N, tokens, L
  <2>2. \A s, t \in 1..L : s < t =>
           (tokens[s].line = tokens[t].line <=> OneLine(out, pos[s] + 1, pos[t]))
    BY <1>10 DEF Where, LinesAt, out, tokens, L
  <2>3. ASSUME NEW t \in 1..L
        PROVE  /\ at[t] = pos[t] /\ more[t] = tokens[t]
               /\ pos[t] + 1 \in Nat /\ pos[t] + 1 >= 1 /\ pos[t] + 1 <= N + 1
               /\ pos[t] \in Nat /\ pos[t] <= N
    <3>1. pos[t] \in 1..N
      BY <1>7
    <3>2. /\ pos[t] + 1 \in Nat /\ pos[t] + 1 >= 1 /\ pos[t] + 1 <= N + 1
          /\ pos[t] \in Nat /\ pos[t] <= N
      BY <1>1, <3>1
    <3> QED BY <1>4, <1>6, <3>2
  <2>4. ASSUME NEW t \in 1..L
        PROVE  tokens[t].line = l.line <=> OneLine(a2.out, pos[t] + 1, N + 1)
    BY <1>8, <2>1, <2>3
  <2>5. ASSUME NEW t \in 1..(L + 1)
        PROVE  /\ more[t].line <= l.line
               /\ more[t].line = l.line <=> OneLine(a2.out, at[t] + 1, Len(a2.out))
    <3>1. CASE t = L + 1
      <4>1. OneLine(a2.out, (N + 1) + 1, N + 1)
        <5>1. \A m \in ((N + 1) + 1)..(N + 1) : FALSE
          BY <1>1
        <5> QED BY <5>1 DEF OneLine
      <4>2. l.line <= l.line
        BY <1>1
      <4> QED BY <1>2, <1>3, <1>4, <1>6, <3>1, <4>1, <4>2
    <3>2. CASE t \in 1..L
      BY <1>2, <2>1, <2>3, <2>4, <3>2
    <3> QED BY <1>9, <3>1, <3>2
  <2>6. ASSUME NEW s \in 1..(L + 1), NEW t \in 1..(L + 1), s < t
        PROVE  more[s].line = more[t].line <=> OneLine(a2.out, at[s] + 1, at[t])
    <3>1. s \in 1..L
      BY <1>1, <2>6
    <3>2. CASE t = L + 1
      BY <1>3, <1>4, <1>6, <2>3, <2>4, <3>1, <3>2
    <3>3. CASE t \in 1..L
      <4>1. OneLine(a2.out, pos[s] + 1, pos[t]) <=> OneLine(out, pos[s] + 1, pos[t])
        BY <1>8, <2>3, <3>1, <3>3
      <4> QED BY <2>2, <2>3, <2>6, <3>1, <3>3, <4>1
    <3> QED BY <1>9, <3>2, <3>3
  <2> QED BY <1>4, <2>5, <2>6 DEF LinesAt
<1>14. Covered(a2.out, more, a2.mode, at)
  <2> SUFFICES ASSUME NEW m \in 1..(N + 1), a2.out[m] \notin {SP, NL}
               PROVE  \E t \in 1..(L + 1) : Within(a2.out, more, at, t, m)
    BY <1>2, <1>4 DEF Covered
  <2>1. L + 1 \in 1..(L + 1) /\ \A t \in 1..L : t \in 1..(L + 1) /\ \A s \in 1..(t - 1) : s \in 1..L
    BY <1>1
  <2>2. CASE m = N + 1
    BY <1>6, <2>1, <2>2 DEF Within
  <2>3. CASE m # N + 1
    <3>1. m \in 1..N /\ m \in Nat /\ m >= 1 /\ m <= N + 1
      BY <1>1, <2>3
    <3>2. out[m] \notin {SP, NL}
      BY <1>2, <3>1
    <3>3. \/ \E t \in 1..L : Within(out, tokens, pos, t, m)
          \/ Quoted(a.mode) /\ Begun(out, tokens, pos, m)
      BY <1>10, <3>1, <3>2 DEF Where, Covered, out, tokens, N, L
    <3>4. ASSUME NEW t \in 1..L, Within(out, tokens, pos, t, m)
          PROVE  Within(a2.out, more, at, t, m)
      <4>1. pos[t] \in Nat /\ pos[t] <= N /\ at[t] = pos[t] /\ more[t] = tokens[t]
        <5>1. pos[t] \in 1..N
          BY <1>7
        <5> QED BY <1>1, <1>4, <1>6, <5>1
      <4>2. \A s \in 1..(t - 1) : at[s] = pos[s]
        BY <1>6, <2>1
      <4> QED BY <1>8, <3>1, <3>4, <4>1, <4>2 DEF Within
    <3>5. ASSUME Quoted(a.mode), Begun(out, tokens, pos, m)
          PROVE  Within(a2.out, more, at, L + 1, m)
      <4>1. sym \in {"string", "regex"} /\ more[L + 1].sym = sym
        BY <1>3, <1>4, <3>5
      <4>2. OneLine(a2.out, m, N + 1)
        BY <1>8, <3>1, <3>5 DEF Begun, N
      <4>3. \A s \in 1..L : at[s] < m
        BY <1>6, <3>5 DEF Begun, L
      <4>4. (L + 1) - 1 = L /\ m < N + 1
        BY <1>1, <3>1
      <4> QED BY <1>6, <4>1, <4>2, <4>3, <4>4 DEF Within
    <3> QED BY <2>1, <3>3, <3>4, <3>5
  <2> QED BY <2>2, <2>3
<1> QED BY <1>3, <1>11, <1>12, <1>13, <1>14 DEF Where, tokens, more, at, out, N

\* Outside a string and a regular expression, in a comment and at the end of a line.
LEMMA WherePlain ==
    ASSUME NEW a \in AwkStates, NEW l \in LexStates, NEW c \in Symbols, NEW n \in Symbols, NEW pos,
           Together(a, l, c), a.mode \in {"line", "block"} \/ a.skip \/ c = NL, ~Quoted(a.mode),
           Where(a, l, c, pos)
    PROVE  Where(Awk(a, c, n), Lex(l, c, n), n, pos)
<1>1. /\ l.mode = a.mode /\ a.mode \in {"code", "line", "block"} /\ l.mode # "bad"
      /\ l.mode \notin {"string", "regex"}
  BY DEF Together, Quoted
<1>2. (a.skip <=> l.skip) /\ (a.skip => c \in {"*", "/"}) /\ a.skip \in BOOLEAN /\ l.skip \in BOOLEAN
  BY AwkFields, LexFields DEF Together
<1>3. "*" # NL /\ "/" # NL
  BY DEF NL
<1>4. CASE a.skip
  <2>1. Awk(a, c, n) = [a EXCEPT !.skip = FALSE] /\ Lex(l, c, n) = [l EXCEPT !.skip = FALSE]
    BY <1>1, <1>2, <1>3, <1>4 DEF Awk, Lex
  <2>2. Awk(a, c, n).out = a.out /\ Lex(l, c, n).tokens = l.tokens /\ Lex(l, c, n).line = l.line
    BY <2>1 DEF AwkStates, LexStates
  <2>3. ~Due(a, c)
    BY <1>4 DEF Due
  <2> QED BY <2>2, <2>3, WhereStays
<1>5. CASE ~a.skip /\ c = NL
  <2>1. Awk(a, c, n) = AwkNewline(a) /\ Lex(l, c, n) = LexNewline(l)
    BY <1>1, <1>2, <1>5 DEF Awk, Lex
  <2>2. Awk(a, c, n).out = Append(a.out, c)
    BY <1>5, <2>1 DEF AwkNewline, AwkStates
  <2>3. Lex(l, c, n).tokens = l.tokens /\ Lex(l, c, n).line = l.line + 1
    BY <2>1 DEF LexNewline, LexStates
  <2> QED BY <1>5, <2>2, <2>3, WherePrints
<1>6. CASE ~a.skip /\ c # NL /\ a.mode \in {"line", "block"}
  <2>1. Awk(a, c, n).out = a.out /\ Lex(l, c, n).tokens = l.tokens /\ Lex(l, c, n).line = l.line
    <3>1. CASE a.mode = "block" /\ c = "*" /\ n = "/"
      <4>1. /\ Awk(a, c, n) = [a EXCEPT !.mode = "code", !.skip = TRUE]
            /\ Lex(l, c, n) = [l EXCEPT !.mode = "code", !.skip = TRUE]
        BY <1>1, <1>2, <1>6, <3>1 DEF Awk, Lex
      <4> QED BY <4>1 DEF AwkStates, LexStates
    <3>2. CASE ~(a.mode = "block" /\ c = "*" /\ n = "/")
      <4>1. Awk(a, c, n) = a /\ Lex(l, c, n) = l
        BY <1>1, <1>2, <1>6, <3>2 DEF Awk, Lex
      <4> QED BY <4>1
    <3> QED BY <3>1, <3>2
  <2>2. ~Due(a, c)
    BY <1>6 DEF Due
  <2> QED BY <2>1, <2>2, WhereStays
<1> QED BY <1>1, <1>2, <1>4, <1>5, <1>6

\* In a string or a regular expression, on its line.
LEMMA WhereQuoted ==
    ASSUME NEW a \in AwkStates, NEW l \in LexStates, NEW c \in Symbols, NEW n \in Symbols, NEW pos,
           Together(a, l, c), Quoted(a.mode), Where(a, l, c, pos), ~Broken(Lex(l, c, n))
    PROVE  \E at : Where(Awk(a, c, n), Lex(l, c, n), n, at)
<1> DEFINE end == IF a.mode = "quote" THEN "quote" ELSE "/"
<1>1. /\ a.mode \in {"quote", "regex"} /\ l.mode = IF a.mode = "quote" THEN "string" ELSE "regex"
      /\ ~a.skip /\ (a.escaped <=> l.skip)
  BY DEF Together, Quoted
<1>2. a.skip \in BOOLEAN /\ a.escaped \in BOOLEAN /\ l.skip \in BOOLEAN
  BY AwkFields, LexFields
<1>3. c # NL
  <2>1. c = NL => Lex(l, c, n).mode = "bad"
    BY <1>1 DEF Lex, LexNewline, LexStates
  <2> QED BY <2>1 DEF Broken
<1>4. Awk(a, c, n) = AwkQuoted(a, c, end)
  BY <1>1, <1>3 DEF Awk
<1>5. /\ Awk(a, c, n).out = Append(a.out, c) /\ ~Awk(a, c, n).skip
      /\ Awk(a, c, n).mode = (IF c = end /\ ~a.escaped THEN "code" ELSE a.mode)
  <2> HIDE DEF end
  <2> QED BY <1>1, <1>4 DEF AwkQuoted, AwkPrint, AwkStates
<1>6. CASE c = end /\ ~a.escaped
  <2>1. Lex(l, c, n) = Emit(l, l.mode, n) /\ l.mode \in TokenSymbols /\ l.mode \in {"string", "regex"}
    BY <1>1, <1>2, <1>3, <1>6 DEF Lex, LexQuoted, TokenSymbols
  <2>2. Awk(a, c, n).mode = "code" /\ ~Due(a, c)
    BY <1>1, <1>5, <1>6 DEF Due
  <2> HIDE DEF end
  <2>3. Where(Awk(a, c, n), Emit(l, l.mode, n), n, Append(pos, Len(a.out) + 1))
    BY <1>3, <1>5, <2>1, <2>2, WhereEmits
  <2> QED BY <2>1, <2>3
<1>7. CASE ~(c = end /\ ~a.escaped)
  <2>1. Lex(l, c, n).tokens = l.tokens /\ Lex(l, c, n).line = l.line
    BY <1>1, <1>2, <1>3, <1>7 DEF Lex, LexQuoted, LexStates
  <2>2. Quoted(Awk(a, c, n).mode)
    BY <1>5, <1>7
  <2> HIDE DEF end
  <2>3. Where(Awk(a, c, n), Lex(l, c, n), n, pos)
    BY <1>3, <1>5, <2>1, <2>2, WherePrints
  <2> QED BY <2>3
<1> QED BY <1>6, <1>7

\* In the code.
LEMMA WhereCode ==
    ASSUME NEW a \in AwkStates, NEW l \in LexStates, NEW c \in Symbols, NEW n \in Symbols, NEW pos,
           Together(a, l, c), a.mode = "code", ~a.skip, c # NL, Where(a, l, c, pos),
           ~Broken(Lex(l, c, n))
    PROVE  \E at : Where(Awk(a, c, n), Lex(l, c, n), n, at)
<1>1. l.mode = "code" /\ ~l.skip /\ (a.sig = "=" <=> Ends(l.tokens)) /\ ~Quoted(a.mode)
  BY DEF Together, Quoted
<1>2. Awk(a, c, n) = AwkCode(a, c, n) /\ Lex(l, c, n) = LexCode(l, c, n)
  BY <1>1 DEF Awk, Lex
<1>3. /\ AwkPrint(a, c).out = Append(a.out, c) /\ AwkPrint(a, c).mode = "code"
      /\ ~AwkPrint(a, c).skip /\ AwkPrint(a, c) \in AwkStates
  <2>1. AwkPrint(a, c) \in AwkStates
    <3>1. Append(a.out, c) \in Seq(Symbols)
      BY AwkFields, Appended
    <3> QED BY <3>1 DEF AwkPrint, AwkStates
  <2> QED BY <2>1, PrintIs
<1>4. CASE c = "quote" \/ (c = "/" /\ n \notin {"*", "/"})
  <2>1. Lex(l, c, n) = [l EXCEPT !.mode = IF c = "quote" THEN "string" ELSE "regex"]
    BY <1>2, <1>4 DEF LexCode, SP
  <2>2. /\ Lex(l, c, n).tokens = l.tokens /\ Lex(l, c, n).line = l.line
        /\ c # "quote" => Lex(l, c, n).mode = "regex"
    BY <2>1 DEF LexStates
  <2>3. c # "quote" => a.sig = "="
    BY <1>1, <2>2 DEF Broken
  <2>4. Awk(a, c, n) = [AwkPrint(a, c) EXCEPT !.mode = IF c = "quote" THEN "quote" ELSE "regex", !.escaped = FALSE]
    BY <1>2, <1>4, <2>3 DEF AwkCode, RegexFollows
  <2>5. Quoted(Awk(a, c, n).mode) /\ Awk(a, c, n).out = Append(a.out, c)
    BY <1>3, <2>4 DEF AwkStates, Quoted
  <2>6. Where(Awk(a, c, n), Lex(l, c, n), n, pos)
    BY <1>1, <2>2, <2>5, WherePrints
  <2> QED BY <2>6
<1>5. CASE c = "/" /\ n \in {"*", "/"}
  <2>1. /\ \/ Awk(a, c, n) = [a EXCEPT !.mode = "block", !.skip = TRUE]
           \/ Awk(a, c, n) = [a EXCEPT !.mode = "line"]
        /\ \/ Lex(l, c, n) = [l EXCEPT !.mode = "block", !.skip = TRUE]
           \/ Lex(l, c, n) = [l EXCEPT !.mode = "line"]
    BY <1>2, <1>5 DEF AwkCode, LexCode, SP
  <2>2. Awk(a, c, n).out = a.out /\ Lex(l, c, n).tokens = l.tokens /\ Lex(l, c, n).line = l.line
    BY <2>1 DEF AwkStates, LexStates
  <2>3. ~Due(a, c)
    BY <1>5 DEF Due, SP
  <2>4. Where(Awk(a, c, n), Lex(l, c, n), n, pos)
    BY <1>1, <2>2, <2>3, WhereStays
  <2> QED BY <2>4
<1>6. CASE c = SP
  <2>1. Awk(a, c, n) = AwkPrint(a, c) /\ Lex(l, c, n) = l
    BY <1>2, <1>6 DEF AwkCode, LexCode, SP
  <2>2. Where(Awk(a, c, n), Lex(l, c, n), n, pos)
    BY <1>1, <1>3, <1>6, <2>1, WherePrints
  <2> QED BY <2>2
<1>7. CASE c \notin {"quote", "/", SP}
  <2>1. Awk(a, c, n) = AwkPrint(a, c) /\ Lex(l, c, n) = Emit(l, c, n) /\ c \in TokenSymbols
    BY <1>2, <1>7 DEF AwkCode, LexCode, TokenSymbols
  <2>2. ~Due(a, c)
    BY <1>7 DEF Due
  <2>3. Where(Awk(a, c, n), Emit(l, c, n), n, Append(pos, Len(a.out) + 1))
    BY <1>1, <1>3, <2>1, <2>2, WhereEmits
  <2> QED BY <2>1, <2>3
<1> QED BY <1>4, <1>5, <1>6, <1>7

\* A step of both keeps a place for each token.
LEMMA WhereStep ==
    ASSUME NEW a \in AwkStates, NEW l \in LexStates, NEW c \in Symbols, NEW n \in Symbols, NEW pos,
           Together(a, l, c), Where(a, l, c, pos), ~Broken(Lex(l, c, n))
    PROVE  \E at : Where(Awk(a, c, n), Lex(l, c, n), n, at)
<1>1. a.mode \in {"code", "line", "block", "quote", "regex"} /\ a.skip \in BOOLEAN
  BY AwkFields
<1>2. CASE Quoted(a.mode)
  BY <1>2, WhereQuoted
<1>3. CASE ~Quoted(a.mode) /\ (a.mode \in {"line", "block"} \/ a.skip \/ c = NL)
  BY <1>3, WherePlain
<1>4. CASE a.mode = "code" /\ ~a.skip /\ c # NL
  BY <1>4, WhereCode
<1> QED BY <1>1, <1>2, <1>3, <1>4 DEF Quoted

\* In a text that compiles and whose regular expressions awk knows, no reading is broken,
\* and awk and the compiler agree all along.
LEMMA NeverBroken ==
    ASSUME NEW text \in Seq(Symbols), Compiles(text), KnownRegexes(text), NEW i \in 0..Len(text)
    PROVE  /\ ~Broken(LexRun(text)[i])
           /\ Together(AwkRun(text)[i], LexRun(text)[i], Ahead(text, i))
<1> DEFINE r == LexRun(text)
           n == Len(text)
           tokens == r[n].tokens
           S == {j \in Nat : Broken(r[j])}
<1>1. /\ n \in Nat /\ r[n].mode \in {"code", "line"} /\ Tokens(text) = tokens
      /\ tokens \in Seq(TokenType)
  BY CompilesIs, TextIs
<1>2. DOMAIN tokens = 1..Len(tokens) /\ Len(tokens) \in Nat
  BY <1>1, LenProperties
<1>3. \A j \in 1..Len(tokens) : tokens[j].sym = "regex" => j > 1 /\ tokens[j - 1].sym = "="
  BY <1>1, <1>2 DEF KnownRegexes, RegexFollows
<1>4. ASSUME NEW j \in Nat, j < n
      PROVE  /\ r[j] \in LexStates /\ text[j + 1] \in Symbols
             /\ r[j + 1] = Lex(r[j], text[j + 1], Ahead(text, j + 1))
  <2>1. r \in [0..n -> LexStates] /\ j \in 0..n
    <3>1. r \in [0..n -> LexStates]
      BY LexRunIs
    <3>2. n \in Nat
      BY <1>1
    <3> HIDE DEF r, n
    <3> QED BY <1>4, <3>1, <3>2
  <2>2. r[j + 1] = Lex(r[j], text[j + 1], Ahead(text, j + 1))
    BY <1>4, LexRunIs
  <2> QED BY <1>4, <2>1, <2>2, TextIs
<1>5. ~Broken(r[n])
  <2> HIDE DEF r
  <2> QED BY <1>1, <1>2, <1>3 DEF Broken
<1> HIDE DEF r, n
<1>6. ~Broken(r[i])
  <2> SUFFICES ASSUME Broken(r[i]) PROVE FALSE
    OBVIOUS
  <2>1. i \in Nat /\ i <= n /\ i \in S
    BY <1>1 DEF n
  <2>2. \A j \in Nat : i <= j /\ j < n /\ j \in S => j + 1 \in S
    BY <1>4, BrokenStays
  <2> HIDE DEF S
  <2>3. n \in S
    BY <1>1, <2>1, <2>2, InductionFrom
  <2> QED BY <1>5, <2>3 DEF S
<1> QED BY <1>6, TogetherRun DEF r

\* Each token has a place in what awk prints of a text that compiles, if awk knows its
\* regular expressions.
LEMMA WhereRun ==
    ASSUME NEW text \in Seq(Symbols), Compiles(text), KnownRegexes(text)
    PROVE  \E pos : Where(AwkRun(text)[Len(text)], LexRun(text)[Len(text)], NL, pos)
<1> DEFINE a == AwkRun(text)
           l == LexRun(text)
           n == Len(text)
           S == {i \in Nat : \E pos : Where(a[i], l[i], Ahead(text, i), pos)}
<1>1. /\ n \in Nat
      /\ \A i \in Nat : i < n => text[i + 1] \in Symbols /\ Ahead(text, i) = text[i + 1]
      /\ \A i \in Nat : Ahead(text, i) \in Symbols
      /\ Ahead(text, n) = NL
  BY TextIs DEF Ahead
<1>2. /\ a \in [0..n -> AwkStates] /\ a[0] = AwkStart
      /\ \A i \in Nat : i < n => a[i + 1] = Awk(a[i], text[i + 1], Ahead(text, i + 1))
  BY AwkRunIs
<1>3. /\ l \in [0..n -> LexStates] /\ l[0] = LexStart
      /\ \A i \in Nat : i < n => l[i + 1] = Lex(l[i], text[i + 1], Ahead(text, i + 1))
  BY LexRunIs
<1>4. \A i \in 0..n : ~Broken(l[i]) /\ Together(a[i], l[i], Ahead(text, i))
  BY NeverBroken
<1> HIDE DEF a, l, n
<1>5. 0 \in S
  <2>1. Where(AwkStart, LexStart, Ahead(text, 0), <<>>)
    <3>1. AwkStart.out = <<>> /\ LexStart.tokens = <<>> /\ LexStart.line = 1
      BY DEF AwkStart, LexStart
    <3>2. Placed(<<>>, <<>>, <<>>)
      BY DEF Placed
    <3>3. SpacedAt(AwkStart, Ahead(text, 0), <<>>, <<>>)
      BY DEF SpacedAt
    <3>4. LinesAt(<<>>, <<>>, 1, <<>>)
      BY DEF LinesAt
    <3>5. Covered(<<>>, <<>>, AwkStart.mode, <<>>)
      BY DEF Covered
    <3> QED BY <3>1, <3>2, <3>3, <3>4, <3>5 DEF Where
  <2> QED BY <1>2, <1>3, <2>1
<1>6. ASSUME NEW i \in Nat, i < n, i \in S PROVE i + 1 \in S
  <2>1. i \in 0..n /\ i + 1 \in 0..n /\ i + 1 \in Nat
    BY <1>1, <1>6
  <2>2. a[i] \in AwkStates /\ l[i] \in LexStates /\ text[i + 1] \in Symbols /\ Ahead(text, i + 1) \in Symbols
    BY <1>1, <1>2, <1>3, <1>6, <2>1
  <2>3. PICK pos : Where(a[i], l[i], text[i + 1], pos)
    BY <1>1, <1>6
  <2>4. Together(a[i], l[i], text[i + 1])
    BY <1>1, <1>4, <1>6, <2>1
  <2>5. ~Broken(Lex(l[i], text[i + 1], Ahead(text, i + 1)))
    BY <1>3, <1>4, <1>6, <2>1
  <2>6. \E at : Where(Awk(a[i], text[i + 1], Ahead(text, i + 1)), Lex(l[i], text[i + 1], Ahead(text, i + 1)),
                      Ahead(text, i + 1), at)
    BY <2>2, <2>3, <2>4, <2>5, WhereStep
  <2>7. \E at : Where(a[i + 1], l[i + 1], Ahead(text, i + 1), at)
    BY <1>2, <1>3, <1>6, <2>6
  <2> QED BY <2>1, <2>7
<1> HIDE DEF S
<1>7. n \in 0..n /\ 0..n \subseteq S
  <2>1. 0..n \subseteq S
    BY <1>1, <1>5, <1>6, InductionTo
  <2>2. n \in 0..n
    BY <1>1
  <2> QED BY <2>1, <2>2
<1>8. \E pos : Where(a[n], l[n], Ahead(text, n), pos)
  BY <1>7 DEF S
<1> QED BY <1>1, <1>8 DEF a, l, n

\* In a text that parses a name follows the word `rule`.
LEMMA NameFollows ==
    ASSUME NEW tokens \in Seq(ParseTokens), ParseRun(tokens)[Len(tokens)] = "top",
           NEW t \in 1..Len(tokens), tokens[t].sym = "rule"
    PROVE  t + 1 \in 1..Len(tokens) /\ tokens[t + 1].sym \in Names
<1> DEFINE r == ParseRun(tokens)
           n == Len(tokens)
<1>1. n \in Nat /\ t - 1 \in Nat /\ t - 1 < n /\ (t - 1) + 1 = t /\ t \in Nat /\ t <= n
  BY ParseSteps
<1>2. /\ r[t - 1] \in ParseStates /\ tokens[t] \in ParseTokens
      /\ r[t] = Parse(r[t - 1], tokens[t], Ahead(tokens, t))
  BY <1>1, ParseSteps
<1>3. r[t] \in {"name", "bad"}
  <2>1. "rule" \notin Names /\ "rule" \notin Modifiers
    BY NamesAssumption DEF Modifiers
  <2> DEFINE token == tokens[t]
             ahead == Ahead(tokens, t)
             s == r[t - 1]
  <2>2. token.sym = "rule" /\ token \in ParseTokens /\ s \in ParseStates /\ r[t] = Parse(s, token, ahead)
    BY <1>2
  <2> HIDE DEF r, token, ahead, s
  <2>3. /\ Parse("top", token, ahead) = "name" /\ Parse("mods", token, ahead) = "name"
        /\ Parse("import", token, ahead) = "bad" /\ Parse("name", token, ahead) = "bad"
    BY <2>1, <2>2, ParseIs
  <2>4. /\ Parse("open", token, ahead) = "bad" /\ Parse("body", token, ahead) = "bad"
        /\ Parse("value", token, ahead) = "bad" /\ Parse("regex", token, ahead) = "bad"
        /\ Parse("bad", token, ahead) = "bad"
    BY <2>2, ParseIs
  <2> QED BY <2>2, <2>3, <2>4 DEF ParseStates
<1>4. r[t] = "name" /\ t < n
  <2>1. r[t] # "bad"
    BY <1>1, BadStays
  <2>2. r[t] = "name" /\ t # n
    BY <1>3, <2>1
  <2> QED BY <1>1, <2>2
<1>5. tokens[t + 1] \in ParseTokens /\ r[t + 1] = Parse(r[t], tokens[t + 1], Ahead(tokens, t + 1))
  BY <1>1, <1>4, ParseSteps
<1>6. t + 1 \in Nat /\ t + 1 <= n /\ t + 1 \in 1..n
  BY <1>1, <1>4
<1>7. r[t + 1] # "bad"
  BY <1>6, BadStays
<1>8. r[t + 1] = IF tokens[t + 1].sym \in Names THEN "open" ELSE "bad"
  <2> DEFINE token == tokens[t + 1]
             ahead == Ahead(tokens, t + 1)
  <2>1. token \in ParseTokens /\ r[t + 1] = Parse("name", token, ahead)
    BY <1>4, <1>5
  <2>2. Parse("name", token, ahead) = IF token.sym \in Names THEN "open" ELSE "bad"
    <3> HIDE DEF r, token, ahead
    <3> QED BY <2>1, ParseIs
  <2> QED BY <2>1, <2>2
<1> QED BY <1>6, <1>7, <1>8

\* What is declared in a tidy text that compiles is counted.
LEMMA DeclaredIsCounted ==
    ASSUME NEW text \in Seq(Symbols), Compiles(text), Tidy(text)
    PROVE  Declared(text) \subseteq RuleNames(text)
<1> DEFINE last == AwkRun(text)[Len(text)]
           end == LexRun(text)[Len(text)]
           out == last.out
           tokens == end.tokens
           N == Len(out)
           L == Len(tokens)
<1>1. /\ Tokens(text) = tokens /\ tokens \in Seq(TokenType) /\ tokens \in Seq(ParseTokens)
      /\ ParseRun(tokens)[L] = "top"
  BY CompilesIs
<1>2. KnownRegexes(text)
  BY DEF Tidy
<1>3. PICK pos : Where(last, end, NL, pos)
  BY <1>2, WhereRun
<1>4. /\ out \in Seq(Symbols)
      /\ RuleNames(text) =
                {out[j] : j \in {j \in DOMAIN out : out[j] \in Words /\ \E k \in 1..(j - 2) :
                            /\ out[k] = "rule" /\ BeginsLine(out, k)
                            /\ Spaces(out, k, j)}}
  BY RuleNamesAre
<1>5. DOMAIN out = 1..N /\ N \in Nat /\ DOMAIN tokens = 1..L /\ L \in Nat
  BY <1>1, <1>4, LenProperties
<1>6. \A i \in 1..L : tokens[i].sym = "rule" =>
          /\ tokens[i].spaced /\ tokens[i + 1].line = tokens[i].line
          /\ \A k \in 1..(i - 1) : tokens[k].line = tokens[i].line =>
                                      tokens[k].sym \in Modifiers /\ tokens[k].spaced
  BY <1>1, <1>5 DEF Tidy, Declarations
<1>7. \A t \in 1..L : /\ pos[t] \in 1..N
                      /\ tokens[t].sym \notin {"string", "regex"} => out[pos[t]] = tokens[t].sym
  BY <1>3 DEF Where, Placed
<1>8. \A s, t \in 1..L : s < t => pos[s] < pos[t]
  BY <1>3 DEF Where, Placed
<1>9. \A t \in 1..L : tokens[t].spaced => pos[t] < N /\ out[pos[t] + 1] = SP
  BY <1>3, NoWords DEF Where, SpacedAt, Due
<1>10. \A s, t \in 1..L : s < t => (tokens[s].line = tokens[t].line <=> OneLine(out, pos[s] + 1, pos[t]))
  BY <1>3 DEF Where, LinesAt
<1>11. \A m \in 1..N : \/ out[m] \in {SP, NL}
                       \/ \E t \in 1..L : Within(out, tokens, pos, t, m)
                       \/ Begun(out, tokens, pos, m)
  BY <1>3 DEF Where, Covered
<1>12. Declared(text) = {tokens[i + 1].sym : i \in {i \in 1..L : tokens[i].sym = "rule"}}
  BY <1>1, <1>5 DEF Declared, Declarations
<1> HIDE DEF last, end, out, tokens, N, L
<1>13. ASSUME NEW i \in 1..L, tokens[i].sym = "rule" PROVE tokens[i + 1].sym \in RuleNames(text)
  <2> DEFINE k == pos[i]
             j == pos[i + 1]
  <2>1. i + 1 \in 1..L /\ tokens[i + 1].sym \in Names
    BY <1>1, <1>13, NameFollows DEF L
  <2>2. /\ k \in 1..N /\ j \in 1..N /\ k < j /\ out[k] = "rule"
        /\ out[j] = tokens[i + 1].sym /\ out[j] \in Words /\ k + 1 < j
    <3>1. k \in 1..N /\ j \in 1..N
      BY <1>7, <2>1
    <3>2. i < i + 1
      BY <1>5
    <3>3. k < j
      BY <1>8, <2>1, <3>2
    <3>4. out[k] = "rule"
      BY <1>7, <1>13
    <3>5. tokens[i + 1].sym \notin {"string", "regex"} /\ tokens[i + 1].sym \in Words
      BY <2>1, NamesAssumption DEF Words
    <3>6. out[j] = tokens[i + 1].sym
      BY <1>7, <2>1, <3>5
    <3>7. out[k + 1] = SP
      BY <1>6, <1>9, <1>13
    <3>8. k + 1 # j
      BY <3>5, <3>6, <3>7, NoWords
    <3>9. k + 1 < j
      BY <3>1, <3>3, <3>8
    <3> QED BY <3>1, <3>3, <3>4, <3>5, <3>6, <3>9
  <2>3. OneLine(out, k + 1, j)
    <3>1. i < i + 1
      BY <1>5
    <3> QED BY <1>6, <1>10, <1>13, <2>1, <3>1
  <2>4. Spaces(out, k, j)
    <3> SUFFICES ASSUME NEW m \in (k + 1)..(j - 1) PROVE out[m] = SP
      BY DEF Spaces
    <3>1. m \in Nat /\ m \in 1..N /\ k < m /\ m < j /\ m \in (k + 1)..j
      BY <1>5, <2>2
    <3>2. out[m] # NL
      BY <2>3, <3>1 DEF OneLine
    <3>3. ~Begun(out, tokens, pos, m)
      <4>1. ~(j < m)
        BY <2>2, <3>1
      <4> QED BY <2>1, <4>1 DEF Begun, L
    <3>4. ASSUME NEW t \in 1..L, Within(out, tokens, pos, t, m) PROVE FALSE
      <4>1. pos[t] \in 1..N
        BY <1>7
      <4>2. CASE t <= i
        <5>1. pos[t] <= k
          <6>1. CASE t = i
            BY <2>2, <6>1
          <6>2. CASE t # i
            <7>1. t < i
              BY <4>2, <6>2
            <7>2. pos[t] < k
              BY <1>8, <7>1
            <7> QED BY <2>2, <4>1, <7>2
          <6> QED BY <6>1, <6>2
        <5>2. pos[t] < m
          BY <2>2, <3>1, <4>1, <5>1
        <5>3. ~(m < pos[t]) /\ m # pos[t]
          BY <3>1, <4>1, <5>2
        <5> QED BY <3>4, <5>3 DEF Within
      <4>3. CASE t = i + 1
        <5>1. m # pos[t]
          BY <2>2, <3>1, <4>3
        <5>2. tokens[t].sym \notin {"string", "regex"}
          BY <2>1, <4>3, NamesAssumption
        <5> QED BY <3>4, <5>1, <5>2 DEF Within
      <4>4. CASE t > i + 1
        <5>1. i + 1 \in 1..(t - 1) /\ i + 1 < t
          BY <2>1, <4>4
        <5>2. j < pos[t]
          BY <1>8, <2>1, <5>1
        <5>3. m # pos[t] /\ ~(j < m)
          BY <2>2, <3>1, <4>1, <5>2
        <5> QED BY <3>4, <5>1, <5>3 DEF Within
      <4> QED BY <1>5, <4>2, <4>3, <4>4
    <3> QED BY <1>11, <3>1, <3>2, <3>3, <3>4
  <2>5. BeginsLine(out, k)
    <3> DEFINE B == {b \in 1..k : OneLine(out, b, k)}
    <3>1. B \in SUBSET Nat /\ k \in B
      <4>1. \A m \in k..k : m = k
        BY <2>2
      <4>2. OneLine(out, k, k)
        BY <2>2, <4>1, NoWords DEF OneLine
      <4> QED BY <2>2, <4>2
    <3>2. PICK b \in B : \A x \in B : b <= x
      <4> HIDE DEF B
      <4> QED BY <3>1, LeastNat
    <3>3. b \in 1..k /\ OneLine(out, b, k)
      BY <3>2
    <3>4. b = 1 \/ out[b - 1] = NL
      <4> SUFFICES ASSUME b # 1, out[b - 1] # NL PROVE FALSE
        OBVIOUS
      <4>1. b - 1 \in 1..k /\ ~(b <= b - 1) /\ \A m \in (b - 1)..k : m = b - 1 \/ m \in b..k
        BY <2>2, <3>3
      <4>2. OneLine(out, b - 1, k)
        BY <3>3, <4>1 DEF OneLine
      <4> QED BY <3>2, <4>1, <4>2
    <3>5. ASSUME NEW m \in b..(k - 1)
          PROVE  out[m] = SP \/ (out[m] \in Modifiers /\ out[m + 1] = SP)
      <4>1. m \in Nat /\ m \in 1..N /\ m < k /\ m \in b..k /\ b \in Nat /\ b >= 1 /\ k \in Nat
        BY <1>5, <2>2, <3>3
      <4>2. out[m] # NL
        BY <3>3, <4>1 DEF OneLine
      <4>3. ~Begun(out, tokens, pos, m)
        <5>1. ~(k < m)
          BY <4>1
        <5> QED BY <5>1 DEF Begun, L
      <4>4. ASSUME NEW t \in 1..L, Within(out, tokens, pos, t, m)
            PROVE  out[m] \in Modifiers /\ out[m + 1] = SP
        <5>1. pos[t] \in 1..N
          BY <1>7
        <5>2. t < i
          <6>1. CASE t = i
            <7>1. m # pos[t] /\ tokens[t].sym \notin {"string", "regex"}
              BY <1>13, <4>1, <6>1
            <7> QED BY <4>4, <7>1 DEF Within
          <6>2. CASE t > i
            <7>1. i \in 1..(t - 1) /\ i < t
              BY <6>2
            <7>2. k < pos[t]
              BY <1>8, <7>1
            <7>3. m # pos[t] /\ ~(k < m)
              BY <4>1, <5>1, <7>2
            <7> QED BY <4>4, <7>1, <7>3 DEF Within
          <6> QED BY <6>1, <6>2
        <5>3. pos[t] < k /\ pos[t] + 1 \in Nat /\ m <= pos[t]
          <6>1. pos[t] < k
            BY <1>8, <5>2
          <6>2. m <= pos[t]
            <7>1. m = pos[t] \/ m < pos[t]
              BY <4>4 DEF Within
            <7> QED BY <4>1, <5>1, <7>1
          <6> QED BY <5>1, <6>1, <6>2
        <5>4. OneLine(out, pos[t] + 1, k)
          <6>1. \A x \in (pos[t] + 1)..k : x \in b..k
            BY <3>3, <4>1, <5>1, <5>3
          <6> QED BY <3>3, <6>1 DEF OneLine
        <5>5. tokens[t].line = tokens[i].line
          BY <1>10, <5>2, <5>4
        <5>6. t \in 1..(i - 1)
          BY <5>2
        <5>7. tokens[t].sym \in Modifiers /\ tokens[t].spaced
          BY <1>6, <1>13, <5>5, <5>6
        <5>8. tokens[t].sym \notin {"string", "regex"}
          BY <5>7 DEF Modifiers
        <5>9. m = pos[t]
          BY <4>4, <5>8 DEF Within
        <5> QED BY <1>7, <1>9, <5>7, <5>8, <5>9
      <4> QED BY <1>11, <4>1, <4>2, <4>3, <4>4
    <3> QED BY <3>3, <3>4, <3>5 DEF BeginsLine
  <2>6. j \in 1..N /\ k \in 1..(j - 2)
    BY <2>2
  <2> QED BY <1>4, <1>5, <2>2, <2>4, <2>5, <2>6
<1> QED BY <1>12, <1>13

\* In a tidy text that compiles the rules that are counted are those that are declared.
LEMMA TidyCount ==
    ASSUME NEW text \in Seq(Symbols), Compiles(text), Tidy(text)
    PROVE  RuleNames(text) = Declared(text)
<1>1. KnownRegexes(text)
  BY DEF Tidy
<1> QED BY <1>1, CountedIsDeclared, DeclaredIsCounted

-----------------------------------------------------------------------------
(***************************************************************************)
(* One file after the other.  A tidy file leaves the reader of the         *)
(* compiler as it began, some lines and tokens further on.                 *)
(***************************************************************************)
\* The token d lines further on, and such tokens.
Lower(token, d) == [sym |-> token.sym, line |-> token.line + d, spaced |-> token.spaced]
Moved(tokens, d) == [k \in 1..Len(tokens) |-> Lower(tokens[k], d)]
\* The state l of a reader that was d lines down, with the tokens `before`, when it began.
After(before, l, d) ==
    [mode |-> l.mode, skip |-> l.skip, line |-> l.line + d, tokens |-> before \o Moved(l.tokens, d)]

\* A token further down is a token.
LEMMA LowerIs ==
    ASSUME NEW token \in TokenType, NEW d \in Nat
    PROVE  /\ Lower(token, d) \in TokenType
           /\ Lower(token, d).sym = token.sym /\ Lower(token, d).spaced = token.spaced
           /\ Lower(token, d).line = token.line + d
BY DEF Lower, TokenType

\* Tokens further down, one by one.
LEMMA MovedIs ==
    ASSUME NEW tokens \in Seq(TokenType), NEW d \in Nat
    PROVE  /\ Len(tokens) \in Nat
           /\ Moved(tokens, d) \in Seq(TokenType) /\ Len(Moved(tokens, d)) = Len(tokens)
           /\ \A k \in 1..Len(tokens) : Moved(tokens, d)[k] = Lower(tokens[k], d) /\ tokens[k] \in TokenType
<1> DEFINE n == Len(tokens)
<1>1. n \in Nat /\ \A k \in 1..n : tokens[k] \in TokenType
  BY LenProperties, ElementOfSeq
<1>2. \A k \in 1..n : Lower(tokens[k], d) \in TokenType
  BY <1>1, LowerIs
<1>3. Moved(tokens, d) = [k \in 1..n |-> Lower(tokens[k], d)]
  BY DEF Moved
<1> HIDE DEF n
<1>4. Moved(tokens, d) \in [1..n -> TokenType]
  BY <1>2, <1>3
<1>5. Moved(tokens, d) \in Seq(TokenType) /\ Len(Moved(tokens, d)) = n
  BY <1>1, <1>4
<1> QED BY <1>1, <1>3, <1>5 DEF n

\* The tokens further down of one token more.
LEMMA MovedAppend ==
    ASSUME NEW tokens \in Seq(TokenType), NEW token \in TokenType, NEW d \in Nat
    PROVE  Moved(Append(tokens, token), d) = Append(Moved(tokens, d), Lower(token, d))
<1> DEFINE more == Append(tokens, token)
           n == Len(tokens)
           s == Moved(more, d)
           t == Append(Moved(tokens, d), Lower(token, d))
<1>1. /\ more \in Seq(TokenType) /\ n \in Nat /\ Len(more) = n + 1 /\ more[n + 1] = token
      /\ \A i \in 1..n : more[i] = tokens[i]
  BY Appended
<1>2. /\ s \in Seq(TokenType) /\ Len(s) = Len(more)
      /\ \A k \in 1..Len(more) : s[k] = Lower(more[k], d)
  <2> HIDE DEF more
  <2> QED BY <1>1, MovedIs
<1>3. Lower(token, d) \in TokenType
  BY LowerIs
<1>4. /\ Moved(tokens, d) \in Seq(TokenType) /\ Len(Moved(tokens, d)) = n
      /\ \A k \in 1..n : Moved(tokens, d)[k] = Lower(tokens[k], d)
  BY MovedIs
<1>5. /\ t \in Seq(TokenType) /\ Len(t) = n + 1 /\ t[n + 1] = Lower(token, d)
      /\ \A i \in 1..n : t[i] = Moved(tokens, d)[i]
  <2> DEFINE m == Moved(tokens, d)
             x == Lower(token, d)
  <2>1. m \in Seq(TokenType) /\ x \in TokenType /\ Len(m) = n
    BY <1>3, <1>4
  <2> HIDE DEF m, x, n
  <2>2. /\ Append(m, x) \in Seq(TokenType) /\ Len(Append(m, x)) = Len(m) + 1 /\ Append(m, x)[Len(m) + 1] = x
        /\ \A i \in 1..Len(m) : Append(m, x)[i] = m[i]
    BY <2>1, Appended
  <2> QED BY <2>1, <2>2 DEF m, x
<1> HIDE DEF more, n, s, t
<1>6. ASSUME NEW i \in 1..(n + 1) PROVE s[i] = t[i]
  <2>1. CASE i = n + 1
    BY <1>1, <1>2, <1>5, <2>1
  <2>2. CASE i # n + 1
    <3>1. i \in 1..n
      BY <1>1, <2>2
    <3> QED BY <1>1, <1>2, <1>4, <1>5, <3>1
  <2> QED BY <2>1, <2>2
<1>7. s = t
  BY <1>1, <1>2, <1>5, <1>6, SeqEqual
<1> QED BY <1>7 DEF s, t, more

\* A sequence that goes on with one more element.
LEMMA ConcatAppend ==
    ASSUME NEW S, NEW s \in Seq(S), NEW t \in Seq(S), NEW x \in S
    PROVE  s \o Append(t, x) = Append(s \o t, x)
<1>1. Append(t, x) = t \o <<x>> /\ <<x>> \in Seq(S)
  BY AppendIsConcat
<1>2. s \o t \in Seq(S)
  BY ConcatProperties
<1>3. Append(s \o t, x) = (s \o t) \o <<x>>
  BY <1>2, AppendIsConcat
<1>4. (s \o t) \o <<x>> = s \o (t \o <<x>>)
  BY <1>1, ConcatAssociative
<1> QED BY <1>1, <1>3, <1>4

\* The state of a reader that began further down is one.
LEMMA AfterIs ==
    ASSUME NEW before \in Seq(TokenType), NEW l \in LexStates, NEW d \in Nat
    PROVE  /\ After(before, l, d) \in LexStates
           /\ After(before, l, d).mode = l.mode /\ After(before, l, d).skip = l.skip
           /\ After(before, l, d).line = l.line + d
           /\ After(before, l, d).tokens = before \o Moved(l.tokens, d)
<1>1. l.tokens \in Seq(TokenType) /\ l.mode \in {"code", "line", "block", "string", "regex", "bad"}
      /\ l.skip \in BOOLEAN /\ l.line + d \in Nat
  BY LexFields
<1>2. Moved(l.tokens, d) \in Seq(TokenType)
  BY <1>1, MovedIs
<1> DEFINE tokens == before \o Moved(l.tokens, d)
<1>3. tokens \in Seq(TokenType)
  BY <1>2, ConcatProperties
<1>4. After(before, l, d) = [mode |-> l.mode, skip |-> l.skip, line |-> l.line + d, tokens |-> tokens]
  BY DEF After
<1> HIDE DEF tokens
<1>5. After(before, l, d) \in LexStates /\ After(before, l, d).mode = l.mode /\ After(before, l, d).skip = l.skip
      /\ After(before, l, d).line = l.line + d /\ After(before, l, d).tokens = tokens
  BY <1>1, <1>3, <1>4 DEF LexStates
<1> QED BY <1>5 DEF tokens

\* A token is found further down as it would be.
LEMMA EmitMoved ==
    ASSUME NEW before \in Seq(TokenType), NEW l \in LexStates, NEW d \in Nat, NEW t \in TokenSymbols, NEW n
    PROVE  Emit(After(before, l, d), t, n) = After(before, Emit(l, t, n), d)
<1> DEFINE m == After(before, l, d)
           token == TokenOf(l, t, n)
<1>1. /\ m \in LexStates /\ m.mode = l.mode /\ m.skip = l.skip /\ m.line = l.line + d
      /\ m.tokens = before \o Moved(l.tokens, d)
  BY AfterIs
<1>2. l.tokens \in Seq(TokenType) /\ l.line \in Nat
  BY LexFields
<1>3. token \in TokenType /\ Lower(token, d) = TokenOf(m, t, n) /\ Lower(token, d) \in TokenType
  <2>1. token \in TokenType
    BY EmitIs
  <2>2. Lower(token, d) = TokenOf(m, t, n)
    <3>1. m.line = l.line + d
      BY <1>1
    <3> HIDE DEF m
    <3> QED BY <3>1 DEF TokenOf, Lower
  <2> QED BY <2>1, <2>2, LowerIs
<1>4. /\ Emit(l, t, n) \in LexStates /\ Emit(l, t, n).mode = "code" /\ Emit(l, t, n).skip = l.skip
      /\ Emit(l, t, n).line = l.line /\ Emit(l, t, n).tokens = Append(l.tokens, token)
  BY EmitIs
<1> HIDE DEF m, token
<1>5. before \o Moved(Append(l.tokens, token), d) = Append(m.tokens, TokenOf(m, t, n))
  <2>1. Moved(Append(l.tokens, token), d) = Append(Moved(l.tokens, d), Lower(token, d))
    BY <1>2, <1>3, MovedAppend
  <2>2. Moved(l.tokens, d) \in Seq(TokenType)
    BY <1>2, MovedIs
  <2> QED BY <1>1, <1>3, <2>1, <2>2, ConcatAppend
<1>6. After(before, Emit(l, t, n), d)
        = [mode |-> "code", skip |-> m.skip, line |-> m.line, tokens |-> Append(m.tokens, TokenOf(m, t, n))]
  BY <1>1, <1>4, <1>5 DEF After
<1>7. Emit(m, t, n) = [m EXCEPT !.mode = "code", !.tokens = Append(m.tokens, TokenOf(m, t, n))]
  BY DEF Emit, TokenOf
<1>8. Emit(m, t, n)
        = [mode |-> "code", skip |-> m.skip, line |-> m.line, tokens |-> Append(m.tokens, TokenOf(m, t, n))]
  BY <1>1, <1>7 DEF LexStates
<1> QED BY <1>6, <1>8 DEF m

\* The steps of the reader that find no token.
To(l, mode) == [l EXCEPT !.mode = mode]
Skipping(l, mode) == [l EXCEPT !.mode = mode, !.skip = TRUE]
Skips(l, skip) == [l EXCEPT !.skip = skip]
NextLine(l, mode) == [l EXCEPT !.line = @ + 1, !.mode = mode]

\* What such a step leads to, field by field.
LEMMA ToIs ==
    ASSUME NEW l \in LexStates, NEW mode, NEW skip
    PROVE  /\ To(l, mode) = [mode |-> mode, skip |-> l.skip, line |-> l.line, tokens |-> l.tokens]
           /\ Skipping(l, mode) = [mode |-> mode, skip |-> TRUE, line |-> l.line, tokens |-> l.tokens]
           /\ Skips(l, skip) = [mode |-> l.mode, skip |-> skip, line |-> l.line, tokens |-> l.tokens]
           /\ NextLine(l, mode) = [mode |-> mode, skip |-> l.skip, line |-> l.line + 1, tokens |-> l.tokens]
<1>1. To(l, mode) = [mode |-> mode, skip |-> l.skip, line |-> l.line, tokens |-> l.tokens]
  BY DEF To, LexStates
<1>2. Skipping(l, mode) = [mode |-> mode, skip |-> TRUE, line |-> l.line, tokens |-> l.tokens]
  <2> DEFINE m == [l EXCEPT !.mode = mode]
  <2>1. m = [mode |-> mode, skip |-> l.skip, line |-> l.line, tokens |-> l.tokens]
    BY DEF LexStates
  <2>2. Skipping(l, mode) = [m EXCEPT !.skip = TRUE]
    BY DEF Skipping
  <2> HIDE DEF m
  <2> QED BY <2>1, <2>2
<1>3. Skips(l, skip) = [mode |-> l.mode, skip |-> skip, line |-> l.line, tokens |-> l.tokens]
  BY DEF Skips, LexStates
<1>4. NextLine(l, mode) = [mode |-> mode, skip |-> l.skip, line |-> l.line + 1, tokens |-> l.tokens]
  <2> DEFINE m == [l EXCEPT !.line = l.line + 1]
  <2>1. m = [mode |-> l.mode, skip |-> l.skip, line |-> l.line + 1, tokens |-> l.tokens]
    BY DEF LexStates
  <2>2. NextLine(l, mode) = [m EXCEPT !.mode = mode]
    BY DEF NextLine
  <2> HIDE DEF m
  <2> QED BY <2>1, <2>2
<1> QED BY <1>1, <1>2, <1>3, <1>4

\* It leads to the same further down.
LEMMA ModeMoved ==
    ASSUME NEW before \in Seq(TokenType), NEW l \in LexStates, NEW d \in Nat, NEW mode, NEW skip
    PROVE  /\ To(After(before, l, d), mode) = After(before, To(l, mode), d)
           /\ Skipping(After(before, l, d), mode) = After(before, Skipping(l, mode), d)
           /\ Skips(After(before, l, d), skip) = After(before, Skips(l, skip), d)
           /\ NextLine(After(before, l, d), mode) = After(before, NextLine(l, mode), d)
<1> DEFINE m == After(before, l, d)
           tokens == before \o Moved(l.tokens, d)
<1>1. m \in LexStates /\ m.mode = l.mode /\ m.skip = l.skip /\ m.line = l.line + d /\ m.tokens = tokens
  BY AfterIs
<1>2. (l.line + d) + 1 = (l.line + 1) + d
  BY LexFields
<1> HIDE DEF m, tokens
<1>3. /\ To(m, mode) = [mode |-> mode, skip |-> l.skip, line |-> l.line + d, tokens |-> tokens]
      /\ Skipping(m, mode) = [mode |-> mode, skip |-> TRUE, line |-> l.line + d, tokens |-> tokens]
      /\ Skips(m, skip) = [mode |-> l.mode, skip |-> skip, line |-> l.line + d, tokens |-> tokens]
      /\ NextLine(m, mode) = [mode |-> mode, skip |-> l.skip, line |-> (l.line + 1) + d, tokens |-> tokens]
  BY <1>1, <1>2, ToIs
<1>4. /\ After(before, To(l, mode), d)
           = [mode |-> mode, skip |-> l.skip, line |-> l.line + d, tokens |-> tokens]
      /\ After(before, Skipping(l, mode), d)
           = [mode |-> mode, skip |-> TRUE, line |-> l.line + d, tokens |-> tokens]
      /\ After(before, Skips(l, skip), d)
           = [mode |-> l.mode, skip |-> skip, line |-> l.line + d, tokens |-> tokens]
      /\ After(before, NextLine(l, mode), d)
           = [mode |-> mode, skip |-> l.skip, line |-> (l.line + 1) + d, tokens |-> tokens]
  <2>1. /\ To(l, mode) = [mode |-> mode, skip |-> l.skip, line |-> l.line, tokens |-> l.tokens]
        /\ Skipping(l, mode) = [mode |-> mode, skip |-> TRUE, line |-> l.line, tokens |-> l.tokens]
        /\ Skips(l, skip) = [mode |-> l.mode, skip |-> skip, line |-> l.line, tokens |-> l.tokens]
        /\ NextLine(l, mode) = [mode |-> mode, skip |-> l.skip, line |-> l.line + 1, tokens |-> l.tokens]
    BY ToIs
  <2> QED BY <2>1 DEF After, tokens
<1> QED BY <1>3, <1>4 DEF m

\* The reader reads further down as it would have read from the beginning.
LEMMA LexMoved ==
    ASSUME NEW before \in Seq(TokenType), NEW l \in LexStates, NEW d \in Nat, NEW c \in Symbols, NEW n
    PROVE  Lex(After(before, l, d), c, n) = After(before, Lex(l, c, n), d)
<1> DEFINE m == After(before, l, d)
<1>1. m.mode = l.mode /\ m.skip = l.skip
  BY AfterIs
<1>2. l.mode \in {"code", "line", "block", "string", "regex", "bad"}
  BY LexFields
<1>3. /\ \A mode : To(m, mode) = After(before, To(l, mode), d)
      /\ \A mode : Skipping(m, mode) = After(before, Skipping(l, mode), d)
      /\ \A skip : Skips(m, skip) = After(before, Skips(l, skip), d)
      /\ \A mode : NextLine(m, mode) = After(before, NextLine(l, mode), d)
  BY ModeMoved
<1>4. c \in TokenSymbols /\ (l.mode \in {"string", "regex"} => l.mode \in TokenSymbols)
  BY DEF TokenSymbols
<1>5. \A t \in TokenSymbols : Emit(m, t, n) = After(before, Emit(l, t, n), d)
  BY EmitMoved
<1>6. m = After(before, l, d)
  OBVIOUS
<1> HIDE DEF m
<1>7. LexNewline(m) = After(before, LexNewline(l), d)
  <2> DEFINE mode == IF l.mode \in {"string", "regex"} THEN "bad"
                     ELSE IF l.mode = "line" THEN "code" ELSE l.mode
  <2>1. LexNewline(l) = NextLine(l, mode) /\ LexNewline(m) = NextLine(m, mode)
    BY <1>1 DEF LexNewline, NextLine
  <2> HIDE DEF mode
  <2> QED BY <1>3, <2>1
<1>8. ASSUME l.mode \in {"string", "regex"} PROVE LexQuoted(m, c, n) = After(before, LexQuoted(l, c, n), d)
  <2>1. Skips(m, TRUE) = After(before, Skips(l, TRUE), d)
    BY <1>3
  <2>2. Emit(m, l.mode, n) = After(before, Emit(l, l.mode, n), d)
    BY <1>4, <1>5, <1>8
  <2> QED BY <1>1, <1>6, <2>1, <2>2 DEF LexQuoted, Skips
<1>9. LexCode(m, c, n) = After(before, LexCode(l, c, n), d)
  <2>1. /\ To(m, "string") = After(before, To(l, "string"), d)
        /\ Skipping(m, "block") = After(before, Skipping(l, "block"), d)
        /\ To(m, "line") = After(before, To(l, "line"), d)
        /\ To(m, "regex") = After(before, To(l, "regex"), d)
    BY <1>3
  <2>2. Emit(m, c, n) = After(before, Emit(l, c, n), d)
    BY <1>4, <1>5
  <2> QED BY <1>6, <2>1, <2>2 DEF LexCode, To, Skipping
<1>10. Skips(m, FALSE) = After(before, Skips(l, FALSE), d)
       /\ Skipping(m, "code") = After(before, Skipping(l, "code"), d)
  BY <1>3
<1>11. Lex(m, c, n) = After(before, Lex(l, c, n), d)
  BY <1>1, <1>2, <1>6, <1>7, <1>8, <1>9, <1>10 DEF Lex, Skips, Skipping
<1> QED BY <1>6, <1>11

\* The tokens are on lines that were read.
Numbered(l) ==
    /\ l.line >= 1
    /\ \A k \in 1..Len(l.tokens) : 1 <= l.tokens[k].line /\ l.tokens[k].line <= l.line

\* A step of the reader keeps them there.
LEMMA NumberedStep ==
    ASSUME NEW l \in LexStates, NEW c \in Symbols, NEW n, Numbered(l)
    PROVE  Numbered(Lex(l, c, n))
<1> DEFINE more == Lex(l, c, n)
<1>1. l.line \in Nat /\ l.tokens \in Seq(TokenType) /\ Len(l.tokens) \in Nat
  BY LexFields
<1>2. \A k \in 1..Len(l.tokens) : l.tokens[k].line \in Nat
  <2>1. \A k \in 1..Len(l.tokens) : l.tokens[k] \in TokenType
    BY <1>1, ElementOfSeq
  <2> QED BY <2>1 DEF TokenType
<1>3. CASE more.tokens = l.tokens /\ more.line \in {l.line, l.line + 1}
  <2> HIDE DEF more
  <2>1. more.line >= 1
    BY <1>1, <1>3 DEF Numbered
  <2>2. ASSUME NEW k \in 1..Len(more.tokens)
        PROVE  1 <= more.tokens[k].line /\ more.tokens[k].line <= more.line
    <3>1. 1 <= l.tokens[k].line /\ l.tokens[k].line <= l.line /\ l.tokens[k].line \in Nat
      BY <1>2, <1>3 DEF Numbered
    <3> QED BY <1>1, <1>3, <3>1
  <2>3. Numbered(more)
    BY <2>1, <2>2 DEF Numbered
  <2> QED BY <2>3 DEF more
<1>4. ASSUME NEW t \in TokenSymbols, more = Emit(l, t, n) PROVE Numbered(more)
  <2> DEFINE token == TokenOf(l, t, n)
  <2> HIDE DEF more
  <2>1. /\ more.line = l.line /\ more.tokens = Append(l.tokens, token) /\ token \in TokenType
        /\ Len(more.tokens) = Len(l.tokens) + 1
    BY <1>4, EmitIs
  <2>2. token.line = l.line
    BY DEF TokenOf
  <2> HIDE DEF token
  <2>3. /\ more.tokens[Len(l.tokens) + 1] = token
        /\ \A k \in 1..Len(l.tokens) : more.tokens[k] = l.tokens[k]
    BY <1>1, <2>1, Appended
  <2>4. ASSUME NEW k \in 1..Len(more.tokens)
        PROVE  1 <= more.tokens[k].line /\ more.tokens[k].line <= more.line
    <3>1. CASE k = Len(l.tokens) + 1
      <4>1. l.line >= 1
        BY DEF Numbered
      <4> QED BY <1>1, <2>1, <2>2, <2>3, <3>1, <4>1
    <3>2. CASE k # Len(l.tokens) + 1
      <4>1. k \in 1..Len(l.tokens)
        BY <1>1, <2>1, <3>2
      <4>2. 1 <= l.tokens[k].line /\ l.tokens[k].line <= l.line
        BY <4>1 DEF Numbered
      <4> QED BY <2>1, <2>3, <4>1, <4>2
    <3> QED BY <3>1, <3>2
  <2> QED BY <2>1, <2>4 DEF Numbered
<1> QED BY <1>3, <1>4, LexGives

\* They always are.
LEMMA NumberedRun ==
    ASSUME NEW text \in Seq(Symbols), NEW i \in Nat, i <= Len(text)
    PROVE  Numbered(LexRun(text)[i])
<1> DEFINE r == LexRun(text)
           n == Len(text)
           States == {l \in LexStates : Numbered(l)}
<1>1. n \in Nat /\ r[0] = LexStart /\ \A j \in Nat : j <= n => r[j] \in LexStates
  BY LexSteps
<1>2. r[0] \in States
  <2>1. LexStart.line = 1 /\ LexStart.tokens = <<>>
    BY DEF LexStart
  <2>2. Numbered(LexStart)
    BY <2>1 DEF Numbered
  <2>3. r[0] \in LexStates
    BY <1>1
  <2> HIDE DEF r
  <2> QED BY <1>1, <2>2, <2>3
<1>3. ASSUME NEW j \in Nat, j < n, r[j] \in States PROVE r[j + 1] \in States
  <2>1. j + 1 \in 1..n /\ (j + 1) - 1 = j /\ j + 1 <= n
    BY <1>1, <1>3
  <2>2. r[j + 1] = Lex(r[j], text[j + 1], Ahead(text, j + 1)) /\ r[j] \in LexStates /\ text[j + 1] \in Symbols
    BY <2>1, LexSteps
  <2> HIDE DEF r, n
  <2>3. Numbered(r[j]) /\ r[j + 1] \in LexStates
    BY <1>1, <1>3, <2>1
  <2> QED BY <2>2, <2>3, NumberedStep
<1> HIDE DEF r, n, States
<1>4. \A j \in 0..n : r[j] \in States
  BY <1>1, <1>2, <1>3, RunType
<1>5. i \in 0..n
  BY <1>1 DEF n
<1>6. r[i] \in States
  BY <1>4, <1>5
<1> QED BY <1>6 DEF States, r

\* After a tidy text the reader is as it began, with all tokens on lines above.
LEMMA TidyEnd ==
    ASSUME NEW text \in Seq(Symbols), Compiles(text), Tidy(text),
           NEW end, end = LexRun(text)[Len(text)]
    PROVE  /\ end = After(end.tokens, LexStart, end.line - 1)
           /\ end.tokens \in Seq(TokenType) /\ end.tokens = Tokens(text) /\ end.line - 1 \in Nat
           /\ \A k \in 1..Len(end.tokens) : end.tokens[k].line <= end.line - 1
<1> DEFINE r == LexRun(text)
           n == Len(text)
<1>1. /\ n \in Nat /\ end \in LexStates /\ end.mode \in {"code", "line"} /\ end.tokens = Tokens(text)
  BY CompilesIs, TextIs
<1>2. end.line \in Nat /\ end.tokens \in Seq(TokenType) /\ Len(end.tokens) \in Nat /\ end.skip \in BOOLEAN
  BY <1>1, LexFields
<1>3. /\ end.mode = "code" /\ ~end.skip /\ end.line - 1 \in Nat
      /\ \A k \in 1..Len(end.tokens) : end.tokens[k].line <= end.line - 1
  <2>1. CASE text = <<>>
    <3>1. end = LexStart
      <4>1. n = 0
        BY <2>1
      <4> QED BY <4>1, LexRunIs
    <3>2. LexStart.tokens = <<>> /\ LexStart.line = 1 /\ LexStart.mode = "code" /\ ~LexStart.skip
      BY DEF LexStart
    <3> QED BY <3>1, <3>2
  <2>2. CASE text # <<>>
    <3>1. n \in 1..n /\ text[n] = NL /\ NL \in Symbols
      <4>1. n # 0
        BY <2>2, EmptySeq
      <4>2. Last(text) = NL
        BY <2>2 DEF Tidy
      <4>3. text[n] = NL
        BY <4>2 DEF Last
      <4> QED BY <1>1, <4>1, <4>3 DEF Symbols
    <3> DEFINE l == r[n - 1]
               ahead == Ahead(text, n)
    <3>2. l \in LexStates /\ end = Lex(l, NL, ahead)
      BY <3>1, LexSteps
    <3>3. Numbered(l)
      <4>1. n - 1 \in Nat /\ n - 1 <= n
        BY <1>1, <3>1
      <4> QED BY <4>1, NumberedRun
    <3>4. l.mode \in {"code", "line", "block", "string", "regex", "bad"} /\ l.line \in Nat
      BY <3>2, LexFields
    <3> HIDE DEF l, ahead
    <3>5. l.mode # "bad" /\ end = LexNewline(l)
      BY <1>1, <3>2 DEF Lex
    <3>6. end.mode = "code" /\ end.line = l.line + 1 /\ end.tokens = l.tokens
      BY <1>1, <3>2, <3>4, <3>5 DEF LexNewline, LexStates
    <3>7. ~end.skip
      <4> DEFINE a == AwkRun(text)[n]
      <4>1. Together(a, end, NL)
        <5>1. n \in 0..n /\ Ahead(text, n) = NL
          BY <1>1 DEF Ahead
        <5>2. KnownRegexes(text)
          BY DEF Tidy
        <5> QED BY <5>1, <5>2, NeverBroken
      <4> HIDE DEF a
      <4>2. a.mode = "code"
        BY <3>6, <4>1 DEF Together
      <4>3. (a.skip <=> end.skip) /\ (a.skip => NL \in {"*", "/"})
        BY <4>1, <4>2 DEF Together, Quoted
      <4> QED BY <1>2, <4>3 DEF NL
    <3>8. end.line - 1 = l.line /\ end.line - 1 \in Nat
      BY <3>4, <3>6
    <3>9. \A k \in 1..Len(end.tokens) : end.tokens[k].line <= end.line - 1
      BY <3>3, <3>6, <3>8 DEF Numbered
    <3> QED BY <3>6, <3>7, <3>8, <3>9
  <2> QED BY <2>1, <2>2
<1>4. end = After(end.tokens, LexStart, end.line - 1)
  <2>1. end = [mode |-> "code", skip |-> FALSE, line |-> end.line, tokens |-> end.tokens]
    BY <1>1, <1>3 DEF LexStates
  <2>2. Moved(<<>>, end.line - 1) = <<>>
    <3>1. <<>> \in Seq(TokenType) /\ Len(<<>>) = 0
      BY EmptySeq
    <3>2. /\ Moved(<<>>, end.line - 1) \in Seq(TokenType)
          /\ Len(Moved(<<>>, end.line - 1)) = Len(<<>>)
      BY <1>3, <3>1, MovedIs
    <3> QED BY <3>1, <3>2, EmptySeq
  <2>3. end.tokens \o <<>> = end.tokens
    BY <1>2, ConcatEmptySeq
  <2>4. 1 + (end.line - 1) = end.line
    BY <1>2
  <2>5. After(end.tokens, LexStart, end.line - 1)
          = [mode |-> "code", skip |-> FALSE, line |-> end.line, tokens |-> end.tokens]
    BY <2>2, <2>3, <2>4 DEF After, LexStart
  <2> QED BY <2>1, <2>5
<1> QED BY <1>1, <1>2, <1>3, <1>4

\* Two texts, symbol by symbol.
LEMMA JoinIs ==
    ASSUME NEW t \in Seq(Symbols), NEW u \in Seq(Symbols)
    PROVE  /\ Len(t) \in Nat /\ Len(u) \in Nat
           /\ t \o u \in Seq(Symbols) /\ Len(t \o u) = Len(t) + Len(u)
           /\ \A i \in 1..Len(t) : (t \o u)[i] = t[i]
           /\ \A j \in 1..Len(u) : (t \o u)[Len(t) + j] = u[j]
           /\ \A i \in Nat : i < Len(t) => Ahead(t \o u, i) = Ahead(t, i)
           /\ \A j \in Nat : j <= Len(u) /\ j > 0 => Ahead(t \o u, Len(t) + j) = Ahead(u, j)
<1> DEFINE w == t \o u
           m == Len(t)
           n == Len(u)
<1>1. m \in Nat /\ n \in Nat
  BY TextIs
<1>2. /\ w \in Seq(Symbols) /\ Len(w) = m + n
      /\ \A i \in 1..(m + n) : w[i] = IF i <= m THEN t[i] ELSE u[i - m]
  BY ConcatProperties
<1> HIDE DEF w, m, n
<1>3. ASSUME NEW i \in 1..m PROVE w[i] = t[i]
  <2>1. i \in 1..(m + n) /\ i <= m
    BY <1>1
  <2> QED BY <1>2, <2>1
<1>4. ASSUME NEW j \in 1..n PROVE w[m + j] = u[j]
  <2>1. m + j \in 1..(m + n) /\ ~(m + j <= m) /\ (m + j) - m = j
    BY <1>1
  <2> QED BY <1>2, <2>1
<1>5. ASSUME NEW i \in Nat, i < m PROVE Ahead(w, i) = Ahead(t, i)
  <2>1. i + 1 \in 1..m /\ i < m + n
    BY <1>1, <1>5
  <2> QED BY <1>2, <1>3, <1>5, <2>1 DEF Ahead, m
<1>6. ASSUME NEW j \in Nat, j <= n, j > 0 PROVE Ahead(w, m + j) = Ahead(u, j)
  <2>1. CASE j < n
    <3>1. j + 1 \in 1..n /\ m + j < m + n /\ (m + j) + 1 = m + (j + 1)
      BY <1>1, <1>6, <2>1
    <3> QED BY <1>2, <1>4, <2>1, <3>1 DEF Ahead, n
  <2>2. CASE ~(j < n)
    <3>1. ~(m + j < m + n)
      BY <1>1, <1>6, <2>2
    <3> QED BY <1>2, <2>2, <3>1 DEF Ahead, n
  <2> QED BY <2>1, <2>2
<1> QED BY <1>1, <1>2, <1>3, <1>4, <1>5, <1>6 DEF w, m, n

\* What follows a tidy text is not seen while it is read.
LEMMA ReadsFirst ==
    ASSUME NEW t \in Seq(Symbols), NEW u \in Seq(Symbols), Tidy(t)
    PROVE  LexRun(t \o u)[Len(t)] = LexRun(t)[Len(t)]
<1> DEFINE w == t \o u
           m == Len(t)
           r == LexRun(t)
           q == LexRun(w)
           S == {i \in Nat : q[i] = r[i]}
<1>1. m \in Nat /\ w \in Seq(Symbols) /\ Len(w) \in Nat /\ m <= Len(w)
  BY JoinIs
<1>2. \A i \in 1..m : w[i] = t[i] /\ (i < m => Ahead(w, i) = Ahead(t, i))
  BY JoinIs
<1>3. \A i \in 1..m : r[i - 1] \in LexStates /\ r[i] = Lex(r[i - 1], t[i], Ahead(t, i))
  BY LexSteps
<1>4. \A i \in 1..Len(w) : q[i] = Lex(q[i - 1], w[i], Ahead(w, i))
  <2> HIDE DEF w
  <2> QED BY <1>1, LexSteps
<1>5. q[0] = r[0]
  <2>1. q[0] = LexStart
    <3> HIDE DEF w
    <3> QED BY <1>1, LexSteps
  <2>2. r[0] = LexStart
    BY LexSteps
  <2> QED BY <2>1, <2>2
<1>6. m # 0 => t[m] = NL
  <2> SUFFICES ASSUME m # 0 PROVE t[m] = NL
    OBVIOUS
  <2>1. t # <<>>
    BY EmptySeq
  <2>2. Last(t) = NL
    BY <2>1 DEF Tidy
  <2> QED BY <2>2 DEF Last
<1> HIDE DEF w, m, r, q
<1>7. 0 \in S
  BY <1>5
<1>8. ASSUME NEW i \in Nat, i < m, i \in S PROVE i + 1 \in S
  <2>1. i + 1 \in 1..m /\ i + 1 \in 1..Len(w) /\ (i + 1) - 1 = i
    BY <1>1, <1>8
  <2>2. /\ r[i + 1] = Lex(r[i], t[i + 1], Ahead(t, i + 1))
        /\ q[i + 1] = Lex(q[i], t[i + 1], Ahead(w, i + 1))
        /\ q[i] = r[i]
    BY <1>2, <1>3, <1>4, <1>8, <2>1
  <2>3. CASE i + 1 < m
    <3>1. Ahead(w, i + 1) = Ahead(t, i + 1)
      BY <1>2, <2>1, <2>3
    <3> QED BY <2>1, <2>2, <3>1
  <2>4. CASE ~(i + 1 < m)
    <3>1. i + 1 = m /\ t[i + 1] = NL
      BY <1>1, <1>6, <1>8, <2>4
    <3>2. q[i + 1] = r[i + 1]
      BY <2>2, <3>1 DEF Lex
    <3> QED BY <2>1, <3>2
  <2> QED BY <2>3, <2>4
<1> HIDE DEF S
<1>9. 0..m \subseteq S
  BY <1>1, <1>7, <1>8, InductionTo
<1>10. m \in 0..m
  BY <1>1
<1>11. q[m] = r[m]
  BY <1>9, <1>10 DEF S
<1> QED BY <1>11 DEF q, r, m, w

\* After a tidy text the next is read as if it stood alone.
LEMMA ReadsSecond ==
    ASSUME NEW t \in Seq(Symbols), NEW u \in Seq(Symbols), Compiles(t), Tidy(t),
           NEW end, end = LexRun(t)[Len(t)]
    PROVE  LexRun(t \o u)[Len(t) + Len(u)] = After(end.tokens, LexRun(u)[Len(u)], end.line - 1)
<1> DEFINE w == t \o u
           m == Len(t)
           n == Len(u)
           r == LexRun(u)
           q == LexRun(w)
           d == end.line - 1
           S == {j \in Nat : q[m + j] = After(end.tokens, r[j], d)}
<1>1. /\ m \in Nat /\ n \in Nat /\ w \in Seq(Symbols) /\ Len(w) = m + n
      /\ \A j \in 1..n : w[m + j] = u[j]
      /\ \A j \in Nat : j <= n /\ j > 0 => Ahead(w, m + j) = Ahead(u, j)
  BY JoinIs
<1>2. end = After(end.tokens, LexStart, d) /\ end.tokens \in Seq(TokenType) /\ d \in Nat
  BY TidyEnd
<1>3. /\ r[0] = LexStart
      /\ \A j \in 1..n : r[j - 1] \in LexStates /\ u[j] \in Symbols /\ r[j] = Lex(r[j - 1], u[j], Ahead(u, j))
  BY LexSteps
<1>4. \A i \in 1..Len(w) : q[i] = Lex(q[i - 1], w[i], Ahead(w, i))
  <2> HIDE DEF w
  <2> QED BY <1>1, LexSteps
<1>5. q[m] = end
  BY ReadsFirst
<1> HIDE DEF w, m, n, r, q, d
<1>6. 0 \in S
  BY <1>1, <1>2, <1>3, <1>5
<1>7. ASSUME NEW j \in Nat, j < n, j \in S PROVE j + 1 \in S
  <2>1. /\ j + 1 \in 1..n /\ (j + 1) - 1 = j /\ m + (j + 1) \in 1..Len(w) /\ (m + (j + 1)) - 1 = m + j
        /\ j + 1 <= n /\ j + 1 > 0
    BY <1>1, <1>7
  <2>2. /\ r[j] \in LexStates /\ u[j + 1] \in Symbols
        /\ r[j + 1] = Lex(r[j], u[j + 1], Ahead(u, j + 1))
    BY <1>3, <2>1
  <2>3. w[m + (j + 1)] = u[j + 1] /\ Ahead(w, m + (j + 1)) = Ahead(u, j + 1)
    BY <1>1, <2>1
  <2>4. q[m + (j + 1)] = Lex(q[m + j], u[j + 1], Ahead(u, j + 1))
    BY <1>4, <2>1, <2>3
  <2>5. q[m + j] = After(end.tokens, r[j], d)
    BY <1>7
  <2>6. q[m + (j + 1)] = After(end.tokens, r[j + 1], d)
    BY <1>2, <2>2, <2>4, <2>5, LexMoved
  <2> QED BY <2>1, <2>6
<1> HIDE DEF S
<1>8. 0..n \subseteq S
  BY <1>1, <1>6, <1>7, InductionTo
<1>9. n \in 0..n
  BY <1>1
<1>10. q[m + n] = After(end.tokens, r[n], d)
  BY <1>8, <1>9 DEF S
<1> QED BY <1>10 DEF q, w, r, m, n, d

\* The tokens of a tidy text with another after it.
LEMMA JoinedTokens ==
    ASSUME NEW t \in Seq(Symbols), NEW u \in Seq(Symbols), Compiles(t), Tidy(t), Compiles(u),
           NEW d, d = LexRun(t)[Len(t)].line - 1
    PROVE  /\ d \in Nat /\ Tokens(t) \in Seq(TokenType) /\ Tokens(u) \in Seq(TokenType)
           /\ \A k \in 1..Len(Tokens(t)) : Tokens(t)[k].line <= d
           /\ Tokens(t \o u) = Tokens(t) \o Moved(Tokens(u), d)
<1> DEFINE end == LexRun(t)[Len(t)]
           last == LexRun(u)[Len(u)]
           both == LexRun(t \o u)[Len(t \o u)]
<1>1. /\ end.tokens = Tokens(t) /\ Tokens(t) \in Seq(TokenType) /\ d \in Nat
      /\ \A k \in 1..Len(Tokens(t)) : Tokens(t)[k].line <= d
  <2>1. /\ end.tokens \in Seq(TokenType) /\ end.tokens = Tokens(t) /\ end.line - 1 \in Nat
        /\ \A k \in 1..Len(end.tokens) : end.tokens[k].line <= end.line - 1
    BY TidyEnd
  <2> QED BY <2>1
<1>2. /\ last \in LexStates /\ last.mode \in {"code", "line"} /\ Tokens(u) = last.tokens
      /\ Tokens(u) \in Seq(TokenType)
  BY CompilesIs
<1>3. t \o u \in Seq(Symbols) /\ Len(t \o u) = Len(t) + Len(u)
  BY JoinIs
<1>4. both = After(Tokens(t), last, d)
  <2>1. LexRun(t \o u)[Len(t) + Len(u)] = After(end.tokens, last, end.line - 1)
    BY ReadsSecond
  <2> QED BY <1>1, <1>3, <2>1
<1>5. Read(Lex, LexStart, t \o u) = both
  <2> DEFINE w == t \o u
  <2> HIDE DEF w
  <2>1. w \in Seq(Symbols) => Read(Lex, LexStart, w) = LexRun(w)[Len(w)]
    BY LexRunIs
  <2> QED BY <1>3, <2>1 DEF w
<1> HIDE DEF last, both
<1>6. both.mode = last.mode /\ both.tokens = Tokens(t) \o Moved(last.tokens, d)
  BY <1>1, <1>2, <1>4, AfterIs
<1>7. Tokens(t \o u) = both.tokens
  BY <1>2, <1>5, <1>6 DEF Tokens
<1> QED BY <1>1, <1>2, <1>6, <1>7

\* Two sequences of tokens, token by token, the second of which is further down.
LEMMA TokensJoined ==
    ASSUME NEW first \in Seq(TokenType), NEW second \in Seq(TokenType), NEW d \in Nat
    PROVE  LET both == first \o Moved(second, d) IN
           /\ Len(first) \in Nat /\ Len(second) \in Nat
           /\ both \in Seq(TokenType) /\ Len(both) = Len(first) + Len(second)
           /\ \A i \in 1..Len(first) : both[i] = first[i]
           /\ \A j \in 1..Len(second) : /\ both[Len(first) + j].sym = second[j].sym
                                        /\ both[Len(first) + j].spaced = second[j].spaced
                                        /\ both[Len(first) + j].line = second[j].line + d
<1> DEFINE both == first \o Moved(second, d)
           more == Moved(second, d)
           m == Len(first)
           n == Len(second)
<1>1. /\ n \in Nat /\ m \in Nat /\ more \in Seq(TokenType) /\ Len(more) = n
      /\ \A k \in 1..n : more[k] = Lower(second[k], d) /\ second[k] \in TokenType
  BY MovedIs, LenProperties
<1> HIDE DEF both, more, m, n
<1>2. /\ both \in Seq(TokenType) /\ Len(both) = m + n
      /\ \A i \in 1..(m + n) : both[i] = IF i <= m THEN first[i] ELSE more[i - m]
  BY <1>1, ConcatProperties DEF both, more, m
<1>3. ASSUME NEW i \in 1..m PROVE both[i] = first[i]
  <2>1. i \in 1..(m + n) /\ i <= m
    BY <1>1
  <2> QED BY <1>2, <2>1
<1>4. ASSUME NEW j \in 1..n
      PROVE  /\ both[m + j].sym = second[j].sym /\ both[m + j].spaced = second[j].spaced
             /\ both[m + j].line = second[j].line + d
  <2>1. m + j \in 1..(m + n) /\ ~(m + j <= m) /\ (m + j) - m = j
    BY <1>1
  <2>2. both[m + j] = Lower(second[j], d) /\ second[j] \in TokenType
    BY <1>1, <1>2, <2>1
  <2> DEFINE x == second[j]
  <2>3. Lower(x, d).sym = x.sym /\ Lower(x, d).spaced = x.spaced /\ Lower(x, d).line = x.line + d
    <3>1. x \in TokenType
      BY <2>2
    <3> HIDE DEF x
    <3> QED BY <1>1, <3>1, LowerIs
  <2> QED BY <2>2, <2>3
<1> QED BY <1>1, <1>2, <1>3, <1>4 DEF both, m, n

\* The parser looks at the symbol of a token only.
LEMMA ParseSym ==
    ASSUME NEW state, NEW a, NEW b, a.sym = b.sym, NEW m, NEW n
    PROVE  Parse(state, a, m) = Parse(state, b, n)
BY DEF Parse

\* What parses, and then what parses, parses.
LEMMA ParseJoined ==
    ASSUME NEW first \in Seq(ParseTokens), NEW second \in Seq(ParseTokens), NEW both \in Seq(ParseTokens),
           ParseRun(first)[Len(first)] = "top", ParseRun(second)[Len(second)] = "top",
           Len(both) = Len(first) + Len(second),
           \A i \in 1..Len(first) : both[i].sym = first[i].sym,
           \A j \in 1..Len(second) : both[Len(first) + j].sym = second[j].sym
    PROVE  ParseRun(both)[Len(both)] = "top"
<1> DEFINE m == Len(first)
           n == Len(second)
           p == ParseRun(first)
           r == ParseRun(second)
           q == ParseRun(both)
           S == {i \in Nat : q[i] = p[i]}
           T == {j \in Nat : q[m + j] = r[j]}
<1>1. m \in Nat /\ n \in Nat /\ Len(both) = m + n
  BY TokensAre
<1>2. p[0] = "top" /\ \A i \in Nat : i < m => p[i + 1] = Parse(p[i], first[i + 1], Ahead(first, i + 1))
  BY ParseSteps
<1>3. r[0] = "top" /\ \A j \in Nat : j < n => r[j + 1] = Parse(r[j], second[j + 1], Ahead(second, j + 1))
  BY ParseSteps
<1>4. q[0] = "top" /\ \A i \in Nat : i < Len(both) => q[i + 1] = Parse(q[i], both[i + 1], Ahead(both, i + 1))
  BY ParseSteps
<1>5. p[m] = "top" /\ r[n] = "top"
  OBVIOUS
<1>6. /\ \A i \in 1..m : both[i].sym = first[i].sym
      /\ \A j \in 1..n : both[m + j].sym = second[j].sym
  OBVIOUS
<1> HIDE DEF m, n, p, q, r
<1>7. q[m] = p[m]
  <2>1. 0 \in S
    BY <1>2, <1>4
  <2>2. ASSUME NEW i \in Nat, i < m, i \in S PROVE i + 1 \in S
    <3>1. i + 1 \in 1..m /\ i < Len(both)
      BY <1>1, <2>2
    <3>2. both[i + 1].sym = first[i + 1].sym
      BY <1>6, <3>1
    <3>3. Parse(p[i], both[i + 1], Ahead(both, i + 1)) = Parse(p[i], first[i + 1], Ahead(first, i + 1))
      BY <3>2, ParseSym
    <3>4. q[i + 1] = p[i + 1]
      BY <1>2, <1>4, <2>2, <3>1, <3>3
    <3> QED BY <3>4
  <2> HIDE DEF S
  <2>3. 0..m \subseteq S
    BY <1>1, <2>1, <2>2, InductionTo
  <2>4. m \in 0..m
    BY <1>1
  <2> QED BY <2>3, <2>4 DEF S
<1>8. q[m + n] = r[n]
  <2>1. 0 \in T
    BY <1>1, <1>3, <1>5, <1>7
  <2>2. ASSUME NEW j \in Nat, j < n, j \in T PROVE j + 1 \in T
    <3>1. j + 1 \in 1..n /\ m + j \in Nat /\ m + j < Len(both) /\ (m + j) + 1 = m + (j + 1)
      BY <1>1, <2>2
    <3>2. both[(m + j) + 1].sym = second[j + 1].sym
      BY <1>6, <3>1
    <3>3. Parse(r[j], both[(m + j) + 1], Ahead(both, (m + j) + 1)) = Parse(r[j], second[j + 1], Ahead(second, j + 1))
      BY <3>2, ParseSym
    <3>4. q[(m + j) + 1] = Parse(q[m + j], both[(m + j) + 1], Ahead(both, (m + j) + 1))
      BY <1>4, <3>1
    <3>5. r[j + 1] = Parse(r[j], second[j + 1], Ahead(second, j + 1)) /\ q[m + j] = r[j]
      BY <1>3, <2>2
    <3>6. q[m + (j + 1)] = r[j + 1]
      BY <3>1, <3>3, <3>4, <3>5
    <3> QED BY <3>6
  <2> HIDE DEF T
  <2>3. 0..n \subseteq T
    BY <1>1, <2>1, <2>2, InductionTo
  <2>4. n \in 0..n
    BY <1>1
  <2> QED BY <2>3, <2>4 DEF T
<1>9. q[Len(both)] = "top"
  BY <1>1, <1>5, <1>8
<1> QED BY <1>9 DEF q

\* No two declarations have one name.
Distinct(tokens) ==
    \A i, j \in Declarations(tokens) : tokens[i + 1].sym = tokens[j + 1].sym => i = j

\* That is what the compiler counts.
LEMMA DistinctIs ==
    ASSUME NEW tokens \in Seq(TokenType)
    PROVE  Cardinality({tokens[i + 1].sym : i \in Declarations(tokens)}) = Cardinality(Declarations(tokens))
             <=> Distinct(tokens)
<1> DEFINE D == Declarations(tokens)
           Name(i) == tokens[i + 1].sym
           N == {Name(i) : i \in D}
           f == [i \in D |-> Name(i)]
<1>1. IsFiniteSet(D)
  <2>1. DOMAIN tokens = 1..Len(tokens) /\ Len(tokens) \in Nat
    BY LenProperties
  <2>2. D \subseteq 1..Len(tokens)
    BY <2>1 DEF Declarations
  <2>3. IsFiniteSet(1..Len(tokens))
    BY <2>1, FS_Interval
  <2> QED BY <2>2, <2>3, FS_Subset
<1> HIDE DEF D, Name
<1>2. f \in Surjection(D, N)
  BY DEF Surjection
<1>3. f \in Injection(D, N) <=> \A i, j \in D : Name(i) = Name(j) => i = j
  BY DEF Injection, IsInjective
<1> HIDE DEF f, N
<1>4. Cardinality(N) = Cardinality(D) <=> f \in Injection(D, N)
  BY <1>1, <1>2, FS_Surjection
<1> QED BY <1>3, <1>4 DEF D, N, Name, Distinct

\* The declarations in two sequences of tokens that parse are those in the one and those
\* in the other, with the names that follow them there.
LEMMA JoinedDeclarations ==
    ASSUME NEW first \in Seq(ParseTokens), NEW second \in Seq(ParseTokens), NEW both \in Seq(ParseTokens),
           ParseRun(first)[Len(first)] = "top", ParseRun(second)[Len(second)] = "top",
           Len(both) = Len(first) + Len(second),
           \A i \in 1..Len(first) : both[i] = first[i],
           \A j \in 1..Len(second) : both[Len(first) + j].sym = second[j].sym
    PROVE  /\ \A i \in Declarations(first) :
                 i \in 1..Len(first) /\ i + 1 \in 1..Len(first) /\ both[i + 1] = first[i + 1]
           /\ \A j \in Declarations(second) :
                 /\ j \in 1..Len(second) /\ j + 1 \in 1..Len(second)
                 /\ (Len(first) + j) + 1 = Len(first) + (j + 1)
                 /\ both[(Len(first) + j) + 1].sym = second[j + 1].sym
           /\ Declarations(both) = Declarations(first) \cup {Len(first) + j : j \in Declarations(second)}
<1> DEFINE m == Len(first)
           n == Len(second)
<1>1. /\ m \in Nat /\ n \in Nat /\ Len(both) = m + n
      /\ DOMAIN first = 1..m /\ DOMAIN second = 1..n /\ DOMAIN both = 1..(m + n)
  <2>1. m \in Nat /\ n \in Nat /\ DOMAIN first = 1..m /\ DOMAIN second = 1..n
    BY LenProperties
  <2>2. DOMAIN both = 1..Len(both)
    BY LenProperties
  <2> QED BY <2>1, <2>2
<1>2. /\ \A i \in 1..m : both[i] = first[i]
      /\ \A j \in 1..n : both[m + j].sym = second[j].sym
  OBVIOUS
<1>3. /\ \A i \in 1..m : first[i].sym = "rule" => i + 1 \in 1..m
      /\ \A j \in 1..n : second[j].sym = "rule" => j + 1 \in 1..n
  BY NameFollows
<1> HIDE DEF m, n
<1>4. ASSUME NEW i \in Declarations(first)
      PROVE  i \in 1..m /\ i + 1 \in 1..m /\ both[i + 1] = first[i + 1] /\ i \in Declarations(both)
  <2>1. i \in 1..m /\ first[i].sym = "rule"
    BY <1>1 DEF Declarations
  <2>2. i + 1 \in 1..m /\ i \in 1..(m + n)
    BY <1>1, <1>3, <2>1
  <2> QED BY <1>1, <1>2, <2>1, <2>2 DEF Declarations
<1>5. ASSUME NEW j \in Declarations(second)
      PROVE  /\ j \in 1..n /\ j + 1 \in 1..n /\ (m + j) + 1 = m + (j + 1)
             /\ both[(m + j) + 1].sym = second[j + 1].sym /\ m + j \in Declarations(both)
  <2>1. j \in 1..n /\ second[j].sym = "rule"
    BY <1>1 DEF Declarations
  <2>2. j + 1 \in 1..n /\ m + j \in 1..(m + n) /\ (m + j) + 1 = m + (j + 1)
    BY <1>1, <1>3, <2>1
  <2> QED BY <1>1, <1>2, <2>1, <2>2 DEF Declarations
<1>6. ASSUME NEW i \in Declarations(both)
      PROVE  i \in Declarations(first) \/ \E j \in Declarations(second) : i = m + j
  <2>1. i \in 1..(m + n) /\ both[i].sym = "rule"
    BY <1>1 DEF Declarations
  <2>2. CASE i <= m
    <3>1. i \in 1..m
      BY <1>1, <2>1, <2>2
    <3> QED BY <1>1, <1>2, <2>1, <3>1 DEF Declarations
  <2>3. CASE ~(i <= m)
    <3> DEFINE j == i - m
    <3>1. j \in 1..n /\ i = m + j
      BY <1>1, <2>1, <2>3
    <3> HIDE DEF j
    <3>2. j \in Declarations(second)
      BY <1>1, <1>2, <2>1, <3>1 DEF Declarations
    <3> QED BY <3>1, <3>2
  <2> QED BY <2>2, <2>3
<1>7. Declarations(both) = Declarations(first) \cup {m + j : j \in Declarations(second)}
  BY <1>4, <1>5, <1>6
<1> QED BY <1>4, <1>5, <1>7 DEF m, n

\* What compiles, as the tokens say.
LEMMA CompilesBy ==
    ASSUME NEW text \in Seq(Symbols), Tokens(text) \in Seq(TokenType)
    PROVE  /\ Tokens(text) \in Seq(ParseTokens)
           /\ Compiles(text) <=> /\ ParseRun(Tokens(text))[Len(Tokens(text))] = "top"
                                 /\ Distinct(Tokens(text))
<1> DEFINE tokens == Tokens(text)
<1>1. tokens \in Seq(ParseTokens)
  <2>1. TokenType \subseteq ParseTokens
    BY DEF TokenType, ParseTokens
  <2> QED BY <2>1, SeqMonotonic
<1>2. Read(Parse, "top", tokens) = ParseRun(tokens)[Len(tokens)]
  <2> HIDE DEF tokens
  <2> QED BY <1>1, ParseRunIs
<1>3. Cardinality(Declared(text)) = Cardinality(Declarations(tokens)) <=> Distinct(tokens)
  <2>1. Declared(text) = {tokens[i + 1].sym : i \in Declarations(tokens)}
    BY DEF Declared
  <2>2. tokens \in Seq(TokenType)
    OBVIOUS
  <2> HIDE DEF tokens
  <2>3. Cardinality({tokens[i + 1].sym : i \in Declarations(tokens)}) = Cardinality(Declarations(tokens))
             <=> Distinct(tokens)
    BY <2>2, DistinctIs
  <2> QED BY <2>1, <2>3
<1> QED BY <1>1, <1>2, <1>3 DEF Compiles

\* Two tidy texts that compile and declare nothing in common are one, after each other.
LEMMA Joined ==
    ASSUME NEW t \in Seq(Symbols), NEW u \in Seq(Symbols),
           Compiles(t), Tidy(t), Compiles(u), Tidy(u), Declared(t) \cap Declared(u) = {}
    PROVE  /\ t \o u \in Seq(Symbols) /\ Compiles(t \o u) /\ Tidy(t \o u)
           /\ Declared(t \o u) = Declared(t) \cup Declared(u)
<1> DEFINE w == t \o u
           first == Tokens(t)
           second == Tokens(u)
           both == Tokens(w)
           m == Len(first)
           n == Len(second)
           d == LexRun(t)[Len(t)].line - 1
<1>1. /\ d \in Nat /\ first \in Seq(TokenType) /\ second \in Seq(TokenType)
      /\ \A k \in 1..m : first[k].line <= d
      /\ both = first \o Moved(second, d)
  BY JoinedTokens
<1>2. w \in Seq(Symbols)
  BY JoinIs
<1>3. /\ first \in Seq(ParseTokens) /\ ParseRun(first)[m] = "top" /\ Distinct(first)
      /\ second \in Seq(ParseTokens) /\ ParseRun(second)[n] = "top" /\ Distinct(second)
  BY <1>1, CompilesBy
<1>4. /\ m \in Nat /\ n \in Nat /\ both \in Seq(TokenType) /\ Len(both) = m + n
      /\ \A i \in 1..m : both[i] = first[i]
      /\ \A j \in 1..n : /\ both[m + j].sym = second[j].sym
                         /\ both[m + j].spaced = second[j].spaced
                         /\ both[m + j].line = second[j].line + d
  <2> HIDE DEF first, second, both, d
  <2>1. d \in Nat /\ first \in Seq(TokenType) /\ second \in Seq(TokenType) /\ both = first \o Moved(second, d)
    BY <1>1
  <2> HIDE DEF w
  <2> DEFINE joined == first \o Moved(second, d)
  <2>2. /\ Len(first) \in Nat /\ Len(second) \in Nat /\ joined \in Seq(TokenType)
        /\ Len(joined) = Len(first) + Len(second)
        /\ \A i \in 1..Len(first) : joined[i] = first[i]
        /\ \A j \in 1..Len(second) : /\ joined[Len(first) + j].sym = second[j].sym
                                     /\ joined[Len(first) + j].spaced = second[j].spaced
                                     /\ joined[Len(first) + j].line = second[j].line + d
    BY <2>1, TokensJoined
  <2>3. both = joined
    BY <2>1
  <2> HIDE DEF joined
  <2> QED BY <2>2, <2>3
<1>5. both \in Seq(ParseTokens)
  <2> HIDE DEF w
  <2> QED BY <1>2, <1>4, CompilesBy
<1>6. /\ Declared(t) = {first[i + 1].sym : i \in Declarations(first)}
      /\ Declared(u) = {second[i + 1].sym : i \in Declarations(second)}
      /\ Declared(w) = {both[i + 1].sym : i \in Declarations(both)}
  BY DEF Declared
<1>7. KnownRegexes(t) /\ KnownRegexes(u)
  BY DEF Tidy
<1>8. DOMAIN first = 1..m /\ DOMAIN second = 1..n /\ DOMAIN both = 1..(m + n)
  <2> HIDE DEF first, second, both
  <2> QED BY <1>1, <1>4, LenProperties
<1> HIDE DEF first, second, both, d, w
<1>9. /\ \A i \in Declarations(first) : i \in 1..m /\ i + 1 \in 1..m /\ both[i + 1] = first[i + 1]
      /\ \A j \in Declarations(second) :
            /\ j \in 1..n /\ j + 1 \in 1..n
            /\ (m + j) + 1 = m + (j + 1)
            /\ both[(m + j) + 1].sym = second[j + 1].sym
      /\ Declarations(both) = Declarations(first) \cup {m + j : j \in Declarations(second)}
  BY <1>3, <1>4, <1>5, JoinedDeclarations
<1> HIDE DEF m, n
<1>10. Declared(w) = Declared(t) \cup Declared(u)
  <2>1. ASSUME NEW i \in Declarations(both) PROVE both[i + 1].sym \in Declared(t) \cup Declared(u)
    <3>1. CASE i \in Declarations(first)
      BY <1>6, <1>9, <3>1
    <3>2. ASSUME NEW j \in Declarations(second), i = m + j PROVE both[i + 1].sym \in Declared(u)
      BY <1>6, <1>9, <3>2
    <3> QED BY <1>9, <3>1, <3>2
  <2>2. ASSUME NEW i \in Declarations(first) PROVE first[i + 1].sym \in Declared(w)
    <3>1. i \in Declarations(both) /\ both[i + 1] = first[i + 1]
      BY <1>9
    <3> QED BY <1>6, <3>1
  <2>3. ASSUME NEW j \in Declarations(second) PROVE second[j + 1].sym \in Declared(w)
    <3>1. m + j \in Declarations(both) /\ both[(m + j) + 1].sym = second[j + 1].sym
      BY <1>9
    <3> QED BY <1>6, <3>1
  <2> QED BY <1>6, <2>1, <2>2, <2>3
<1>11. Distinct(both)
  <2> SUFFICES ASSUME NEW i \in Declarations(both), NEW j \in Declarations(both),
                      both[i + 1].sym = both[j + 1].sym
               PROVE  i = j
    BY DEF Distinct
  <2>1. CASE i \in Declarations(first) /\ j \in Declarations(first)
    BY <1>3, <1>9, <2>1 DEF Distinct
  <2>2. ASSUME NEW k \in Declarations(second), i = m + k, NEW l \in Declarations(second), j = m + l
        PROVE  i = j
    <3>1. second[k + 1].sym = second[l + 1].sym
      BY <1>9, <2>2
    <3> QED BY <1>3, <2>2, <3>1 DEF Distinct
  <2>3. ASSUME NEW k \in Declarations(first), NEW l \in Declarations(second),
               both[k + 1].sym = both[(m + l) + 1].sym
        PROVE  FALSE
    <3>1. both[k + 1].sym \in Declared(t) /\ both[(m + l) + 1].sym \in Declared(u)
      BY <1>6, <1>9
    <3> QED BY <2>3, <3>1
  <2> QED BY <1>9, <2>1, <2>2, <2>3
<1>12. Compiles(w)
  <2>1. ParseRun(both)[Len(both)] = "top"
    BY <1>3, <1>4, <1>5, ParseJoined DEF m, n
  <2> QED BY <1>2, <1>4, <1>11, <2>1, CompilesBy DEF both
<1>13. ASSUME NEW i \in Declarations(both)
       PROVE  /\ both[i].spaced /\ both[i + 1].line = both[i].line
              /\ \A k \in 1..(i - 1) : both[k].line = both[i].line =>
                                          both[k].sym \in Modifiers /\ both[k].spaced
  <2>1. CASE i \in Declarations(first)
    <3>1. /\ first[i].spaced /\ first[i + 1].line = first[i].line
          /\ \A k \in 1..(i - 1) : first[k].line = first[i].line =>
                                      first[k].sym \in Modifiers /\ first[k].spaced
      BY <2>1 DEF Tidy, first
    <3>2. i \in 1..m /\ both[i] = first[i] /\ both[i + 1] = first[i + 1]
      BY <1>4, <1>9, <2>1
    <3>3. ASSUME NEW k \in 1..(i - 1) PROVE both[k] = first[k]
      <4>1. k \in 1..m
        BY <1>4, <3>2
      <4> QED BY <1>4, <4>1
    <3> QED BY <3>1, <3>2, <3>3
  <2>2. ASSUME NEW j \in Declarations(second), i = m + j
        PROVE  /\ both[i].spaced /\ both[i + 1].line = both[i].line
               /\ \A k \in 1..(i - 1) : both[k].line = both[i].line =>
                                          both[k].sym \in Modifiers /\ both[k].spaced
    <3>1. /\ second[j].spaced /\ second[j + 1].line = second[j].line
          /\ \A k \in 1..(j - 1) : second[k].line = second[j].line =>
                                      second[k].sym \in Modifiers /\ second[k].spaced
      BY DEF Tidy, second
    <3>2. /\ j \in 1..n /\ j + 1 \in 1..n /\ i + 1 = m + (j + 1)
          /\ both[i].spaced = second[j].spaced /\ both[i].line = second[j].line + d
      BY <1>4, <1>9, <2>2
    <3>3. both[i + 1].line = second[j + 1].line + d
      BY <1>4, <3>2
    <3>4. ASSUME NEW k \in 1..(i - 1), both[k].line = both[i].line
          PROVE  both[k].sym \in Modifiers /\ both[k].spaced
      <4>1. \A l \in 1..n : second[l].line \in Nat /\ second[l].line >= 1
        <5>1. Numbered(LexRun(u)[Len(u)]) /\ LexRun(u)[Len(u)].tokens = second
          <6>1. Len(u) \in Nat /\ Len(u) <= Len(u)
            BY TextIs
          <6> QED BY <6>1, NumberedRun, CompilesIs DEF second
        <5>2. \A l \in 1..n : second[l] \in TokenType
          BY <1>1, ElementOfSeq DEF n
        <5> QED BY <5>1, <5>2 DEF Numbered, TokenType, n
      <4>2. CASE k <= m
        <5>1. k \in 1..m
          BY <1>4, <4>2
        <5>2. both[k].line <= d /\ both[k].line = second[j].line + d
          BY <1>1, <1>4, <3>2, <3>4, <5>1 DEF m
        <5>3. second[j].line \in Nat /\ second[j].line >= 1
          BY <3>2, <4>1
        <5> QED BY <1>1, <5>2, <5>3
      <4>3. CASE ~(k <= m)
        <5> DEFINE l == k - m
        <5>1. l \in 1..n /\ l \in 1..(j - 1) /\ k = m + l
          BY <1>4, <2>2, <3>2, <4>3
        <5> HIDE DEF l
        <5>2. /\ both[k].sym = second[l].sym /\ both[k].spaced = second[l].spaced
              /\ both[k].line = second[l].line + d
          BY <1>4, <5>1
        <5>3. second[l].line = second[j].line
          <6>1. second[l].line + d = second[j].line + d
            BY <3>2, <3>4, <5>2
          <6>2. second[l].line \in Nat /\ second[j].line \in Nat
            BY <3>2, <4>1, <5>1
          <6>3. d \in Nat
            BY <1>1
          <6> DEFINE x == second[l].line
                     y == second[j].line
          <6>4. x \in Nat /\ y \in Nat /\ x + d = y + d
            BY <6>1, <6>2
          <6> HIDE DEF x, y
          <6>5. x = y
            BY <6>3, <6>4
          <6> QED BY <6>5 DEF x, y
        <5> QED BY <3>1, <5>1, <5>2, <5>3
      <4> QED BY <4>2, <4>3
    <3> QED BY <3>1, <3>2, <3>3, <3>4
  <2> QED BY <1>9, <2>1, <2>2
<1>14. KnownRegexes(w)
  <2>1. /\ \A i \in 1..m : first[i].sym = "regex" => i > 1 /\ first[i - 1].sym \in RegexFollows
        /\ \A j \in 1..n : second[j].sym = "regex" => j > 1 /\ second[j - 1].sym \in RegexFollows
    BY <1>7, <1>8 DEF KnownRegexes, first, second
  <2>2. ASSUME NEW i \in 1..(m + n), both[i].sym = "regex"
        PROVE  i > 1 /\ both[i - 1].sym \in RegexFollows
    <3>1. CASE i <= m
      <4>1. i \in 1..m
        BY <1>4, <3>1
      <4>2. i > 1 /\ first[i - 1].sym \in RegexFollows
        BY <1>4, <2>1, <2>2, <4>1
      <4>3. i - 1 \in 1..m
        BY <1>4, <4>1, <4>2
      <4> QED BY <1>4, <4>2, <4>3
    <3>2. CASE ~(i <= m)
      <4> DEFINE j == i - m
      <4>1. j \in 1..n /\ i = m + j
        BY <1>4, <3>2
      <4> HIDE DEF j
      <4>2. j > 1 /\ second[j - 1].sym \in RegexFollows
        BY <1>4, <2>1, <2>2, <4>1
      <4>3. j - 1 \in 1..n /\ i - 1 = m + (j - 1) /\ i > 1
        BY <1>4, <4>1, <4>2
      <4> QED BY <1>4, <4>2, <4>3
    <3> QED BY <3>1, <3>2
  <2> QED BY <1>8, <2>2 DEF KnownRegexes, both
<1>15. w = <<>> \/ Last(w) = NL
  <2>1. CASE u = <<>>
    <3>1. w = t
      BY <2>1, ConcatEmptySeq DEF w
    <3> QED BY <3>1 DEF Tidy
  <2>2. CASE u # <<>>
    <3>1. Last(u) = NL
      BY <2>2 DEF Tidy
    <3>2. Len(u) \in 1..Len(u)
      <4>1. Len(u) # 0
        BY <2>2, EmptySeq
      <4> QED BY <4>1, TextIs
    <3>3. w[Len(t) + Len(u)] = u[Len(u)] /\ Len(w) = Len(t) + Len(u)
      BY <3>2, JoinIs DEF w
    <3> QED BY <3>1, <3>3 DEF Last
  <2> QED BY <2>1, <2>2
<1>16. Tidy(w)
  BY <1>13, <1>14, <1>15 DEF Tidy, both
<1> QED BY <1>2, <1>10, <1>12, <1>16 DEF w

\* An empty text is tidy, compiles and declares nothing.
LEMMA NothingIs == Compiles(<<>>) /\ Tidy(<<>>) /\ Declared(<<>>) = {}
<1> DEFINE none == <<>>
<1>1. none \in Seq(Symbols) /\ none \in Seq(TokenType) /\ none \in Seq(ParseTokens) /\ Len(none) = 0
  BY EmptySeq
<1>2. DOMAIN none = {}
  OBVIOUS
<1>3. none = <<>>
  OBVIOUS
<1> HIDE DEF none
<1>4. Tokens(none) = none
  <2>1. Read(Lex, LexStart, none) = LexRun(none)[Len(none)] /\ LexRun(none)[0] = LexStart
    BY <1>1, LexRunIs
  <2>2. Read(Lex, LexStart, none) = LexStart
    BY <1>1, <2>1
  <2>3. LexStart.mode = "code" /\ LexStart.tokens = none
    BY <1>3 DEF LexStart
  <2> QED BY <2>2, <2>3 DEF Tokens
<1>5. Declarations(none) = {}
  BY <1>2 DEF Declarations
<1>6. Declared(none) = {}
  BY <1>4, <1>5 DEF Declared
<1>7. Compiles(none)
  <2>1. ParseRun(none)[Len(none)] = "top"
    BY <1>1, ParseRunIs
  <2>2. Distinct(none)
    BY <1>5 DEF Distinct
  <2> QED BY <1>1, <1>4, <2>1, <2>2, CompilesBy
<1>8. Tidy(none)
  BY <1>2, <1>3, <1>4, <1>5 DEF Tidy, KnownRegexes
<1> QED BY <1>3, <1>6, <1>7, <1>8

-----------------------------------------------------------------------------
(***************************************************************************)
(* The build.                                                              *)
(***************************************************************************)
\* Texts one after the other: the text up to the i-th, and that one.
Flattens(texts, f) ==
    /\ f[1] = texts[1] /\ f[Len(texts)] = FlattenSeq(texts)
    /\ \A i \in 1..Len(texts) : i < Len(texts) => f[i + 1] = f[i] \o texts[i + 1]

\* FlattenSeq is the concatenation of its texts, one after the other.
LEMMA FlattenIs ==
    ASSUME NEW S, NEW texts \in Seq(Seq(S))
    PROVE  /\ Len(texts) = 0 => FlattenSeq(texts) = <<>>
           /\ Len(texts) > 0 => \E f : Flattens(texts, f) /\ \A i \in 1..Len(texts) : f[i] \in Seq(S)
<1> DEFINE n == Len(texts)
           States == Seq(S)
           Step(s, i) == IF i = 1 THEN texts[1] ELSE s \o texts[i]
           step == [x \in States \X (1..n) |-> Step(x[1], x[2])]
           Is(f) == f = [i \in 1..n |-> IF i = 1 THEN texts[i] ELSE f[i - 1] \o texts[i]]
           Flat == CHOOSE f : Is(f)
<1>1. n \in Nat /\ \A i \in 1..n : texts[i] \in States
  BY LenProperties, ElementOfSeq
<1>2. CASE n = 0
  <2>1. texts = <<>>
    BY <1>2, EmptySeq
  <2> QED BY <1>2, <2>1 DEF FlattenSeq
<1>3. CASE n > 0
  <2>1. <<>> \in States
    BY EmptySeq
  <2>2. \A s \in States : \A i \in 1..n : Step(s, i) \in States
    <3>1. \A s, t \in States : s \o t \in States
      BY ConcatProperties
    <3>2. 1 \in 1..n
      BY <1>1, <1>3
    <3> QED BY <1>1, <3>1, <3>2
  <2>3. step \in Steps(States, n)
    <3> HIDE DEF Step, States
    <3> QED BY <2>2 DEF Steps
  <2>4. \A s \in States : \A i \in 1..n : step[<<s, i>>] = Step(s, i)
    <3> HIDE DEF Step, States
    <3> QED OBVIOUS
  <2>5. PICK g : IsRun(States, <<>>, n, step, g)
    <3> HIDE DEF n, States, step
    <3> QED BY <1>1, <2>1, <2>3, Recursion
  <2> HIDE DEF step, States
  <2>6. \A i \in 0..n : g[i] \in States
    BY <2>5 DEF IsRun
  <2> HIDE DEF Step
  <2>7. ASSUME NEW i \in 0..n, i < n PROVE g[i + 1] = Step(g[i], i + 1)
    <3>1. i + 1 \in 1..n
      BY <1>1, <2>7
    <3> QED BY <2>4, <2>5, <2>6, <2>7, <3>1 DEF IsRun
  <2> DEFINE f == [i \in 1..n |-> g[i]]
  <2>8. Is(f)
    <3>1. ASSUME NEW i \in 1..n PROVE f[i] = IF i = 1 THEN texts[i] ELSE f[i - 1] \o texts[i]
      <4>1. i - 1 \in 0..n /\ i - 1 < n /\ (i - 1) + 1 = i /\ (i # 1 => i - 1 \in 1..n)
        BY <1>1
      <4>2. g[i] = Step(g[i - 1], i)
        BY <2>7, <4>1
      <4> QED BY <4>1, <4>2 DEF Step
    <3> QED BY <3>1
  <2>9. Is(Flat)
    <3> HIDE DEF f, Is
    <3> QED BY <2>8
  <2>10. FlattenSeq(texts) = Flat[n]
    BY <1>3 DEF FlattenSeq
  <2> HIDE DEF Flat
  <2>11. 1 \in 1..n /\ Flat[1] = texts[1]
    BY <1>1, <1>3, <2>9
  <2>12. ASSUME NEW i \in 1..n, i < n PROVE Flat[i + 1] = Flat[i] \o texts[i + 1]
    <3>1. i + 1 \in 1..n /\ i + 1 # 1 /\ (i + 1) - 1 = i
      BY <1>1, <2>12
    <3> QED BY <2>9, <3>1
  <2>13. \A i \in 1..n : Flat[i] \in Seq(S)
    <3> DEFINE T == {i \in Nat : i < n => Flat[i + 1] \in Seq(S)}
    <3>1. 0 \in T
      BY <1>1, <2>11 DEF States
    <3>2. ASSUME NEW i \in Nat, i \in T PROVE i + 1 \in T
      <4>1. CASE i + 1 < n
        <5>1. i < n /\ i + 1 \in 1..n /\ (i + 1) + 1 \in 1..n
          BY <1>1, <4>1
        <5>2. Flat[i + 1] \in Seq(S) /\ texts[(i + 1) + 1] \in Seq(S)
          BY <1>1, <3>2, <5>1 DEF States
        <5>3. Flat[(i + 1) + 1] = Flat[i + 1] \o texts[(i + 1) + 1]
          BY <2>12, <4>1, <5>1
        <5>4. Flat[(i + 1) + 1] \in Seq(S)
          BY <5>2, <5>3, ConcatProperties
        <5> QED BY <5>4
      <4> QED BY <1>1, <4>1
    <3> HIDE DEF T
    <3>3. Nat \subseteq T
      BY <3>1, <3>2, Induction
    <3>4. ASSUME NEW i \in 1..n PROVE Flat[i] \in Seq(S)
      <4>1. i - 1 \in Nat /\ i - 1 < n /\ (i - 1) + 1 = i
        BY <1>1
      <4> QED BY <3>3, <4>1 DEF T
    <3> QED BY <3>4
  <2>14. Flattens(texts, Flat)
    BY <2>10, <2>11, <2>12 DEF Flattens
  <2> QED BY <1>3, <2>13, <2>14
<1> QED BY <1>1, <1>2, <1>3

\* Tidy texts that compile and declare nothing in common are one, one after the other.
LEMMA JoinedAll ==
    ASSUME NEW texts \in Seq(Seq(Symbols)),
           \A i \in 1..Len(texts) : Compiles(texts[i]) /\ Tidy(texts[i]),
           \A i, j \in 1..Len(texts) : i # j => Declared(texts[i]) \cap Declared(texts[j]) = {}
    PROVE  /\ Compiles(FlattenSeq(texts)) /\ Tidy(FlattenSeq(texts))
           /\ Declared(FlattenSeq(texts)) = UNION {Declared(texts[i]) : i \in 1..Len(texts)}
<1> DEFINE n == Len(texts)
           all == FlattenSeq(texts)
           Upto(i) == UNION {Declared(texts[k]) : k \in 1..i}
<1>1. n \in Nat /\ \A i \in 1..n : texts[i] \in Seq(Symbols)
  BY LenProperties, ElementOfSeq
<1>2. CASE n = 0
  <2>1. all = <<>>
    BY <1>2, FlattenIs
  <2>2. Upto(n) = {}
    BY <1>2
  <2> QED BY <2>1, <2>2, NothingIs
<1>3. CASE n > 0
  <2>1. PICK f : Flattens(texts, f) /\ \A i \in 1..n : f[i] \in Seq(Symbols)
    BY <1>3, FlattenIs
  <2>2. f[1] = texts[1] /\ f[n] = all /\ \A i \in 1..n : i < n => f[i + 1] = f[i] \o texts[i + 1]
    BY <2>1 DEF Flattens
  <2>3. /\ \A i \in 1..n : Compiles(texts[i]) /\ Tidy(texts[i])
        /\ \A i, j \in 1..n : i # j => Declared(texts[i]) \cap Declared(texts[j]) = {}
    OBVIOUS
  <2> DEFINE S == {i \in Nat : Compiles(f[i]) /\ Tidy(f[i]) /\ Declared(f[i]) = Upto(i)}
  <2> HIDE DEF n, all
  <2>4. 1 \in S
    <3>1. 1 \in 1..n
      BY <1>1, <1>3
    <3>2. Upto(1) = Declared(texts[1])
      <4>1. 1..1 = {1}
        OBVIOUS
      <4> QED BY <4>1
    <3> QED BY <2>2, <2>3, <3>1, <3>2
  <2>5. ASSUME NEW i \in Nat, 1 <= i, i < n, i \in S PROVE i + 1 \in S
    <3>1. i \in 1..n /\ i + 1 \in 1..n /\ 1..(i + 1) = 1..i \cup {i + 1} /\ \A k \in 1..i : k \in 1..n /\ k # i + 1
      BY <1>1, <2>5
    <3>2. Upto(i + 1) = Upto(i) \cup Declared(texts[i + 1])
      BY <3>1
    <3>3. Compiles(f[i]) /\ Tidy(f[i]) /\ Declared(f[i]) = Upto(i)
      BY <2>5
    <3>4. Upto(i) \cap Declared(texts[i + 1]) = {}
      <4> SUFFICES ASSUME NEW k \in 1..i PROVE Declared(texts[k]) \cap Declared(texts[i + 1]) = {}
        OBVIOUS
      <4>1. k \in 1..n /\ i + 1 \in 1..n /\ k # i + 1
        BY <3>1
      <4> QED BY <2>3, <4>1
    <3> HIDE DEF Upto
    <3>5. /\ f[i] \in Seq(Symbols) /\ texts[i + 1] \in Seq(Symbols)
          /\ Compiles(texts[i + 1]) /\ Tidy(texts[i + 1])
          /\ f[i + 1] = f[i] \o texts[i + 1]
          /\ Declared(f[i]) \cap Declared(texts[i + 1]) = {}
      BY <1>1, <2>1, <2>2, <2>3, <2>5, <3>1, <3>3, <3>4
    <3>6. /\ Compiles(f[i] \o texts[i + 1]) /\ Tidy(f[i] \o texts[i + 1])
          /\ Declared(f[i] \o texts[i + 1]) = Declared(f[i]) \cup Declared(texts[i + 1])
      BY <3>3, <3>5, Joined
    <3>7. Compiles(f[i + 1]) /\ Tidy(f[i + 1]) /\ Declared(f[i + 1]) = Upto(i + 1)
      BY <3>2, <3>3, <3>5, <3>6
    <3> QED BY <3>7
  <2> HIDE DEF S
  <2>6. 1 \in Nat /\ 1 <= n
    BY <1>1, <1>3
  <2>7. n \in S
    BY <1>1, <2>4, <2>5, <2>6, InductionFrom
  <2> QED BY <2>2, <2>7 DEF S, n, all
<1> QED BY <1>1, <1>2, <1>3

\* The files that are merged, in some order.
InOrder(order) == [i \in 1..Len(order) |-> files[order[i]].text]

\* What the variables hold.
TypeInv ==
    /\ files \in Seq(FileType)
    /\ next \in 1..(Len(files) + 1)
    /\ passed \in SUBSET (1..(next - 1))
    /\ merged \in Seq(Symbols)
    /\ stage \in {"filter", "collision", "unmerged", "count", "built", "empty"}

\* The files kept compile, and no two of them have a name in common.
PassedInv ==
    /\ \A i \in passed : Compiles(files[i].text) /\ RuleNames(files[i].text) \subseteq seen
    /\ \A i, j \in passed : i # j => RuleNames(files[i].text) \cap RuleNames(files[j].text) = {}

\* What is merged, and whether it compiles.
MergedInv ==
    /\ stage \in {"filter", "collision"} => merged = <<>>
    /\ stage \notin {"filter", "collision"} =>
          \E order \in SetToSeqs(Merged) : merged = FlattenSeq(InOrder(order))
    /\ stage \in {"count", "built", "empty"} => Compiles(merged)
    /\ stage = "unmerged" => ~Compiles(merged)
    /\ stage \in {"built", "empty"} => rules = Cardinality(RuleNames(merged))
    /\ stage = "built" => RuleNames(merged) # {}

BuildInv == TypeInv /\ PassedInv /\ MergedInv

\* The order in which the files are merged names each of them once.
LEMMA OrderIs ==
    ASSUME TypeInv, NEW order \in SetToSeqs(Merged)
    PROVE  /\ IsFiniteSet(Merged) /\ Merged \subseteq 1..Len(files)
           /\ order \in Seq(Merged) /\ Len(order) = Cardinality(Merged)
           /\ DOMAIN order = 1..Len(order)
           /\ \A i \in 1..Len(order) : order[i] \in Merged
           /\ \A i, j \in 1..Len(order) : i # j => order[i] # order[j]
           /\ \A i \in Merged : \E k \in 1..Len(order) : order[k] = i
           /\ InOrder(order) \in Seq(Seq(Symbols)) /\ Len(InOrder(order)) = Len(order)
           /\ \A i \in 1..Len(order) : InOrder(order)[i] = files[order[i]].text
<1>1. Len(files) \in Nat /\ next - 1 \in Nat /\ next - 1 <= Len(files)
  BY LenProperties DEF TypeInv
<1>2. Merged \subseteq 1..Len(files)
  <2>1. ASSUME NEW i \in Merged PROVE i \in 1..Len(files)
    <3>1. i \in 1..(next - 1)
      BY DEF TypeInv, Merged
    <3> QED BY <1>1, <3>1
  <2> QED BY <2>1
<1>3. IsFiniteSet(Merged)
  <2>1. IsFiniteSet(1..Len(files))
    BY <1>1, FS_Interval
  <2> QED BY <1>2, <2>1, FS_Subset
<1>4. Cardinality(Merged) \in Nat
  BY <1>3, FS_CardinalityType
<1>5. order \in [1..Cardinality(Merged) -> Merged] /\ \A i, j \in 1..Cardinality(Merged) : i # j => order[i] # order[j]
  BY DEF SetToSeqs
<1>6. order \in Seq(Merged) /\ Len(order) = Cardinality(Merged) /\ DOMAIN order = 1..Len(order)
  BY <1>4, <1>5
<1>7. ASSUME NEW i \in 1..Len(order) PROVE files[order[i]].text \in Seq(Symbols)
  <2>1. order[i] \in 1..Len(files)
    BY <1>2, <1>5, <1>6
  <2>2. files[order[i]] \in FileType
    BY <2>1, ElementOfSeq DEF TypeInv
  <2> QED BY <2>2 DEF FileType
<1> DEFINE n == Len(order)
<1>8. InOrder(order) \in [1..n -> Seq(Symbols)] /\ n \in Nat
  BY <1>4, <1>6, <1>7 DEF InOrder
<1> HIDE DEF n
<1>9. InOrder(order) \in Seq(Seq(Symbols)) /\ Len(InOrder(order)) = n
  BY <1>8
<1>10. \A i \in Merged : \E k \in 1..n : order[k] = i
  <2>1. IsFiniteSet(1..n) /\ Cardinality(1..n) = Cardinality(Merged) /\ n = Cardinality(Merged)
    <3>1. IsFiniteSet(1..n) /\ Cardinality(1..n) = n
      BY <1>8, FS_Interval
    <3> QED BY <1>6, <3>1 DEF n
  <2>2. order \in Injection(1..n, Merged)
    BY <1>5, <2>1 DEF Injection, IsInjective
  <2>3. order \in Surjection(1..n, Merged)
    BY <1>3, <2>1, <2>2, FS_Injection
  <2> QED BY <2>3 DEF Surjection
<1> QED BY <1>2, <1>3, <1>5, <1>6, <1>9, <1>10 DEF InOrder, n

\* What is merged is a text.
LEMMA MergedIs ==
    ASSUME TypeInv, NEW order \in SetToSeqs(Merged)
    PROVE  FlattenSeq(InOrder(order)) \in Seq(Symbols)
<1> DEFINE texts == InOrder(order)
<1>1. texts \in Seq(Seq(Symbols))
  BY OrderIs
<1>2. Len(texts) \in Nat
  BY <1>1, LenProperties
<1> HIDE DEF texts
<1>3. CASE Len(texts) = 0
  <2>1. FlattenSeq(texts) = <<>>
    BY <1>1, <1>3, FlattenIs
  <2> QED BY <2>1 DEF texts
<1>4. CASE Len(texts) > 0
  <2>1. PICK f : Flattens(texts, f) /\ \A i \in 1..Len(texts) : f[i] \in Seq(Symbols)
    BY <1>1, <1>4, FlattenIs
  <2>2. Len(texts) \in 1..Len(texts)
    BY <1>2, <1>4
  <2> QED BY <2>1, <2>2 DEF Flattens, texts
<1> QED BY <1>2, <1>3, <1>4

\* Tidy files that compile are merged into a tidy text that compiles, and declares what
\* they declare.
LEMMA TidyMerged ==
    ASSUME TypeInv, PassedInv, \A t \in Parts : Tidy(t), NEW order \in SetToSeqs(Merged)
    PROVE  /\ Compiles(FlattenSeq(InOrder(order))) /\ Tidy(FlattenSeq(InOrder(order)))
           /\ Declared(FlattenSeq(InOrder(order))) = UNION {Declared(t) : t \in Parts}
<1> DEFINE texts == InOrder(order)
           n == Len(order)
<1>1. /\ texts \in Seq(Seq(Symbols)) /\ Len(texts) = n
      /\ \A i \in 1..n : texts[i] = files[order[i]].text /\ order[i] \in Merged
      /\ \A i, j \in 1..n : i # j => order[i] # order[j]
      /\ \A i \in Merged : \E k \in 1..n : order[k] = i
  BY OrderIs
<1>2. ASSUME NEW i \in Merged
      PROVE  /\ files[i].text \in Parts /\ i \in passed
             /\ Compiles(files[i].text) /\ Tidy(files[i].text)
  BY DEF Parts, Merged, PassedInv
<1> HIDE DEF texts, n
<1>3. \A i \in 1..n : texts[i] \in Seq(Symbols)
  BY <1>1, ElementOfSeq
<1>4. \A i \in 1..n : Compiles(texts[i]) /\ Tidy(texts[i])
  BY <1>1, <1>2
<1>5. ASSUME NEW i \in 1..n, NEW j \in 1..n, i # j PROVE Declared(texts[i]) \cap Declared(texts[j]) = {}
  <2>1. RuleNames(texts[i]) = Declared(texts[i]) /\ RuleNames(texts[j]) = Declared(texts[j])
    BY <1>3, <1>4, TidyCount
  <2>2. order[i] \in passed /\ order[j] \in passed /\ order[i] # order[j]
    BY <1>1, <1>2, <1>5
  <2>3. RuleNames(files[order[i]].text) \cap RuleNames(files[order[j]].text) = {}
    BY <2>2 DEF PassedInv
  <2> QED BY <1>1, <2>1, <2>3
<1>6. UNION {Declared(texts[i]) : i \in 1..n} = UNION {Declared(t) : t \in Parts}
  <2>1. {Declared(texts[i]) : i \in 1..n} = {Declared(t) : t \in Parts}
    <3>1. \A i \in 1..n : texts[i] \in Parts
      BY <1>1, <1>2
    <3>2. ASSUME NEW t \in Parts PROVE \E i \in 1..n : texts[i] = t
      <4>1. PICK k \in Merged : t = files[k].text
        BY DEF Parts
      <4>2. PICK i \in 1..n : order[i] = k
        BY <1>1
      <4> QED BY <1>1, <4>1, <4>2
    <3> QED BY <3>1, <3>2
  <2> QED BY <2>1
<1>7. /\ Compiles(FlattenSeq(texts)) /\ Tidy(FlattenSeq(texts))
      /\ Declared(FlattenSeq(texts)) = UNION {Declared(texts[i]) : i \in 1..Len(texts)}
  BY <1>1, <1>4, <1>5, JoinedAll
<1>8. Declared(FlattenSeq(texts)) = UNION {Declared(t) : t \in Parts}
  BY <1>1, <1>6, <1>7
<1> QED BY <1>7, <1>8 DEF texts

\* BuildInv holds for what was fetched.
LEMMA BuildInit == Init => BuildInv
<1> SUFFICES ASSUME Init PROVE BuildInv
  OBVIOUS
<1>1. files \in Seq(FileType)
  BY FetchedAssumption DEF Init
<1>2. Len(files) \in Nat /\ next = 1
  BY <1>1, LenProperties DEF Init
<1>3. <<>> \in Seq(Symbols)
  BY EmptySeq
<1>4. TypeInv
  <2>1. 1 \in 1..(Len(files) + 1)
    BY <1>2
  <2> QED BY <1>1, <1>2, <1>3, <2>1 DEF Init, TypeInv
<1>5. PassedInv
  BY DEF Init, PassedInv
<1>6. MergedInv
  BY DEF Init, MergedInv
<1> QED BY <1>4, <1>5, <1>6 DEF BuildInv

\* Taking or dropping a file keeps BuildInv.
LEMMA BuildExamine == BuildInv /\ Examine => BuildInv'
<1> SUFFICES ASSUME BuildInv, Examine PROVE BuildInv'
  OBVIOUS
<1> USE DEF BuildInv
<1>1. /\ files' = files /\ merged' = merged /\ rules' = rules /\ stage = "filter"
      /\ next \in 1..Len(files) /\ Len(files) \in Nat /\ merged = <<>>
  BY LenProperties DEF TypeInv, MergedInv, Examine
<1>2. CASE passed' = passed /\ next' \in {next, next + 1} /\ stage' \in {"filter", "collision"}
           /\ seen \subseteq seen'
  <2>1. passed' \in SUBSET (1..(next' - 1))
    <3>1. ASSUME NEW i \in passed PROVE i \in 1..(next' - 1)
      <4>1. i \in 1..(next - 1)
        BY DEF TypeInv
      <4>2. next \in Nat /\ (next' = next \/ next' = next + 1)
        BY <1>1, <1>2
      <4> QED BY <4>1, <4>2
    <3> QED BY <1>2, <3>1
  <2>2. next' \in 1..(Len(files) + 1)
    BY <1>1, <1>2
  <2>3. TypeInv'
    BY <1>1, <1>2, <2>1, <2>2 DEF TypeInv
  <2>4. PassedInv'
    BY <1>1, <1>2 DEF PassedInv
  <2>5. MergedInv'
    BY <1>1, <1>2 DEF MergedInv
  <2> QED BY <2>3, <2>4, <2>5
<1>3. CASE /\ passed' = passed \cup {next} /\ next' = next + 1 /\ stage' = stage
           /\ seen' = seen \cup RuleNames(files[next].text)
           /\ Compiles(files[next].text) /\ RuleNames(files[next].text) \cap seen = {}
  <2>1. passed' \in SUBSET (1..(next' - 1))
    <3>1. ASSUME NEW i \in passed' PROVE i \in 1..(next' - 1)
      <4>1. i = next \/ i \in 1..(next - 1)
        BY <1>3 DEF TypeInv
      <4> QED BY <1>1, <1>3, <4>1
    <3> QED BY <3>1
  <2>2. next' \in 1..(Len(files) + 1)
    BY <1>1, <1>3
  <2>3. TypeInv'
    BY <1>1, <1>3, <2>1, <2>2 DEF TypeInv
  <2>4. PassedInv'
    <3>1. \A i \in passed' : Compiles(files'[i].text) /\ RuleNames(files'[i].text) \subseteq seen'
      BY <1>1, <1>3 DEF PassedInv
    <3>2. ASSUME NEW i \in passed', NEW j \in passed', i # j
          PROVE  RuleNames(files[i].text) \cap RuleNames(files[j].text) = {}
      <4>1. CASE i \in passed /\ j \in passed
        BY <3>2, <4>1 DEF PassedInv
      <4>2. CASE i = next
        <5>1. j \in passed
          BY <1>3, <3>2, <4>2
        <5> QED BY <1>3, <4>2, <5>1 DEF PassedInv
      <4>3. CASE j = next
        <5>1. i \in passed
          BY <1>3, <3>2, <4>3
        <5> QED BY <1>3, <4>3, <5>1 DEF PassedInv
      <4> QED BY <1>3, <3>2, <4>1, <4>2, <4>3
    <3> QED BY <1>1, <3>1, <3>2 DEF PassedInv
  <2>5. MergedInv'
    BY <1>1, <1>3 DEF MergedInv
  <2> QED BY <2>3, <2>4, <2>5
<1> QED BY <1>1, <1>2, <1>3 DEF Examine

\* Writing the bundle keeps BuildInv.
LEMMA BuildMerge == BuildInv /\ Merge => BuildInv'
<1> SUFFICES ASSUME BuildInv, Merge PROVE BuildInv'
  OBVIOUS
<1> USE DEF BuildInv
<1>1. /\ files' = files /\ next' = next /\ seen' = seen /\ passed' = passed /\ rules' = rules
      /\ stage' = IF Compiles(merged') THEN "count" ELSE "unmerged"
  BY DEF Merge
<1>2. PICK order \in SetToSeqs(Merged) : merged' = FlattenSeq([i \in DOMAIN order |-> files[order[i]].text])
  BY DEF Merge
<1>3. merged' = FlattenSeq(InOrder(order)) /\ merged' \in Seq(Symbols)
  <2>1. DOMAIN order = 1..Len(order)
    BY OrderIs
  <2>2. merged' = FlattenSeq(InOrder(order))
    BY <1>2, <2>1 DEF InOrder
  <2>3. FlattenSeq(InOrder(order)) \in Seq(Symbols)
    BY MergedIs
  <2> QED BY <2>2, <2>3
<1>4. TypeInv'
  BY <1>1, <1>3 DEF TypeInv
<1>5. PassedInv'
  BY <1>1 DEF PassedInv
<1>6. MergedInv'
  <2>1. Merged' = Merged /\ InOrder(order)' = InOrder(order)
    BY <1>1 DEF Merged, InOrder
  <2>2. \E o \in SetToSeqs(Merged') : merged' = FlattenSeq(InOrder(o)')
    BY <1>3, <2>1
  <2> QED BY <1>1, <2>2 DEF MergedInv
<1> QED BY <1>4, <1>5, <1>6

\* Counting the rules of the bundle keeps BuildInv.
LEMMA BuildCount == BuildInv /\ Count => BuildInv'
<1> SUFFICES ASSUME BuildInv, Count PROVE BuildInv'
  OBVIOUS
<1> USE DEF BuildInv
<1>1. /\ files' = files /\ next' = next /\ seen' = seen /\ passed' = passed /\ merged' = merged
      /\ stage = "count" /\ rules' = Cardinality(RuleNames(merged))
      /\ stage' = IF rules' > 0 THEN "built" ELSE "empty"
  BY DEF Count
<1>2. TypeInv'
  BY <1>1 DEF TypeInv
<1>3. PassedInv'
  BY <1>1 DEF PassedInv
<1>4. MergedInv'
  <2>1. Merged' = Merged /\ \A order : InOrder(order)' = InOrder(order)
    BY <1>1 DEF Merged, InOrder
  <2>2. PICK order \in SetToSeqs(Merged) : merged = FlattenSeq(InOrder(order))
    BY <1>1 DEF MergedInv
  <2>3. \E o \in SetToSeqs(Merged') : merged' = FlattenSeq(InOrder(o)')
    BY <1>1, <2>1, <2>2
  <2>4. rules' > 0 => RuleNames(merged) # {}
    BY <1>1, FS_EmptySet
  <2>5. Compiles(merged')
    BY <1>1 DEF MergedInv
  <2> QED BY <1>1, <2>3, <2>4, <2>5 DEF MergedInv
<1> QED BY <1>2, <1>3, <1>4

\* The state of the build: the files kept compile and have no name in common; what is
\* counted and published is what was merged, and it compiles.
THEOREM BuildInvariant == Spec => []BuildInv
<1>1. BuildInv /\ [Next]_vars => BuildInv'
  <2> SUFFICES ASSUME BuildInv, [Next]_vars PROVE BuildInv'
    OBVIOUS
  <2>1. CASE UNCHANGED vars
    <3>1. Merged' = Merged /\ \A order : InOrder(order)' = InOrder(order)
      BY <2>1 DEF vars, Merged, InOrder
    <3>2. TypeInv' /\ PassedInv'
      BY <2>1 DEF BuildInv, TypeInv, PassedInv, vars
    <3>3. stage' = stage /\ merged' = merged /\ rules' = rules
      BY <2>1 DEF vars
    <3>4. stage \notin {"filter", "collision"} =>
            \E o \in SetToSeqs(Merged') : merged' = FlattenSeq(InOrder(o)')
      <4> SUFFICES ASSUME stage \notin {"filter", "collision"}
                   PROVE  \E o \in SetToSeqs(Merged') : merged' = FlattenSeq(InOrder(o)')
        OBVIOUS
      <4>1. PICK order \in SetToSeqs(Merged) : merged = FlattenSeq(InOrder(order))
        BY DEF BuildInv, MergedInv
      <4> QED BY <3>1, <3>3, <4>1
    <3>5. MergedInv'
      BY <3>3, <3>4 DEF BuildInv, MergedInv
    <3> QED BY <3>2, <3>5 DEF BuildInv
  <2> QED BY <2>1, BuildExamine, BuildMerge, BuildCount DEF Next
<1> QED BY <1>1, BuildInit, PTL DEF Spec

\* What the manifest counts is in the bundle, for every text that was fetched: the
\* names in comments and strings are left out, wherever they stand.
THEOREM CountIsSoundHolds == Spec => []CountIsSound
<1>1. BuildInv => CountIsSound
  BY CountedIsDeclared DEF BuildInv, TypeInv, MergedInv, CountIsSound
<1> QED BY <1>1, BuildInvariant, PTL

\* The scanner and the compiler agree on every text that was fetched or merged, and the
\* scanner takes a bundle that was built.
THEOREM ScannerAgreesHolds == Spec => []ScannerAgrees
<1>1. BuildInv => ScannerAgrees
  <2> SUFFICES ASSUME BuildInv PROVE ScannerAgrees
    OBVIOUS
  <2>1. ASSUME NEW t \in Texts PROVE t \in Seq(Symbols)
    <3>1. CASE t = merged
      BY <3>1 DEF BuildInv, TypeInv
    <3>2. ASSUME NEW i \in DOMAIN files, t = files[i].text PROVE t \in Seq(Symbols)
      <4>1. files[i] \in FileType
        BY ElementOfSeq, LenProperties DEF BuildInv, TypeInv
      <4> QED BY <3>2, <4>1 DEF FileType
    <3> QED BY <3>1, <3>2 DEF Texts
  <2>2. ASSUME NEW t \in Texts, Compiles(t)
        PROVE  contains_rule_declaration(t) <=> Declared(t) # {}
    BY <2>1, <2>2, ScanFinds, DeclaredIs
  <2>3. ASSUME stage = "built" PROVE compile_from_sources({merged})
    <3>1. merged \in Texts /\ merged \in Seq(Symbols) /\ Compiles(merged) /\ RuleNames(merged) # {}
      BY <2>1, <2>3 DEF BuildInv, MergedInv, Texts
    <3>2. Declared(merged) # {}
      <4> SUFFICES ASSUME Declared(merged) = {} PROVE FALSE
        OBVIOUS
      <4>1. RuleNames(merged) \subseteq Declared(merged)
        BY <3>1, DeclaredIs, NoRuleNoRegex, CountedIsDeclared
      <4> QED BY <3>1, <4>1
    <3> QED BY <2>2, <3>1, <3>2 DEF compile_from_sources
  <2> QED BY <2>2, <2>3 DEF ScannerAgrees
<1> QED BY <1>1, BuildInvariant, PTL

\* If the files that are merged are tidy the whole compiles, and its manifest counts
\* every rule of every file: for any number of files, in whatever order they are merged.
THEOREM TidyIsExactHolds == Spec => []TidyIsExact
<1>1. BuildInv => TidyIsExact
  <2> SUFFICES ASSUME BuildInv, \A t \in Parts : Tidy(t)
               PROVE  /\ stage # "unmerged"
                      /\ stage \in {"built", "empty"} =>
                            rules = Cardinality(UNION {Declared(t) : t \in Parts})
    BY DEF TidyIsExact
  <2> USE DEF BuildInv
  <2>1. CASE stage \in {"filter", "collision"}
    BY <2>1
  <2>2. CASE stage \notin {"filter", "collision"}
    <3>1. PICK order \in SetToSeqs(Merged) : merged = FlattenSeq(InOrder(order))
      BY <2>2 DEF MergedInv
    <3>2. Compiles(merged) /\ Tidy(merged) /\ Declared(merged) = UNION {Declared(t) : t \in Parts}
      BY <3>1, TidyMerged
    <3>3. stage # "unmerged"
      BY <3>2 DEF MergedInv
    <3>4. RuleNames(merged) = Declared(merged)
      BY <3>2, TidyCount DEF TypeInv
    <3>5. stage \in {"built", "empty"} => rules = Cardinality(RuleNames(merged))
      BY DEF MergedInv
    <3> QED BY <3>2, <3>3, <3>4, <3>5
  <2> QED BY <2>1, <2>2
<1> QED BY <1>1, BuildInvariant, PTL
=============================================================================
