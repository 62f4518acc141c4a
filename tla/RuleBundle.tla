----------------------------- MODULE RuleBundle -----------------------------
(***************************************************************************)
(* From the fetched rule files to one bundle, by three readers of the same *)
(* text that must agree: tools/build-rules.sh reads the names of the rules *)
(* with awk and grep, drops files and counts what it publishes; the YARA-X *)
(* compiler accepts or refuses a text; the scanner                         *)
(* (core/src/signatures/rules.rs) looks for a rule declaration before it   *)
(* compiles.  A text is a sequence of symbols: the characters that matter  *)
(* to a reader, and whole words.  RulePublish goes on where this ends.     *)
(***************************************************************************)
EXTENDS Integers, FiniteSets, Sequences, SequencesExt

CONSTANTS
    Names,     \* the names of rules
    Fetched    \* what may be fetched: sequences of files

NL == "newline"
SP == "space"
Modifiers == {"private", "global"}
Words == Names \cup Modifiers \cup {"rule", "import", "matches"}
Marks == {"/", "*", "quote", "backslash", "=", "{", "}"}
Symbols == Words \cup Marks \cup {NL, SP}

\* A name is no keyword and no mark, nor what the tokens of the compiler are called.
ASSUME NamesAssumption ==
    Names \cap (Modifiers \cup Marks \cup {"rule", "import", "matches", NL, SP, "string", "regex", "bad"}) = {}

\* A file: its flattened name, whether its extension is in lower case, whether a
\* glob of FP_PRONE_GLOBS matches it, its text.
FileType == [base : STRING, lower : BOOLEAN, fpProne : BOOLEAN, text : Seq(Symbols)]
ASSUME FetchedAssumption == Fetched \subseteq Seq(FileType)

\* A reader that goes through the text, looking one symbol ahead.
Read(Step(_, _, _), start, text) ==
    LET after[i \in 0..Len(text)] ==
            IF i = 0 THEN start
            ELSE Step(after[i - 1], text[i], IF i < Len(text) THEN text[i + 1] ELSE NL)
    IN  after[Len(text)]

-----------------------------------------------------------------------------
(***************************************************************************)
(* extract_rule_names                                                      *)
(***************************************************************************)
\* mode: inside what; skip: the next symbol is read already; sig: the last symbol
\* that is no space; out: what is printed.
AwkStart == [mode |-> "code", skip |-> FALSE, escaped |-> FALSE, sig |-> NL, out |-> <<>>]

\* Mutant: a block comment ends with its line.
AwkNewline_EndsBlock(s) ==
    [s EXCEPT !.out = Append(@, NL), !.mode = IF @ \in {"line", "block"} THEN "code" ELSE @]
\* Only `break`, for a line comment, is about one line.
AwkNewline(s) == [s EXCEPT !.out = Append(@, NL), !.mode = IF @ = "line" THEN "code" ELSE @]

AwkPrint(s, c) == [s EXCEPT !.out = Append(@, c), !.sig = IF c = SP THEN @ ELSE c]

\* In a string or a regular expression that `end` ends.
AwkQuoted(s, c, end) ==
    [AwkPrint(s, c) EXCEPT !.escaped = ~s.escaped /\ c = "backslash",
                           !.mode = IF c = end /\ ~s.escaped THEN "code" ELSE @]

\* sig ~ /^[=(:,!\[]$/: the symbols after which a slash begins a regular expression.
RegexFollows == {"="}

AwkCode(s, c, n) ==
    CASE c = "quote"           -> [AwkPrint(s, c) EXCEPT !.mode = "quote", !.escaped = FALSE]
      [] c = "/" /\ n = "*"    -> [s EXCEPT !.mode = "block", !.skip = TRUE]
      [] c = "/" /\ n = "/"    -> [s EXCEPT !.mode = "line"]
      [] c = "/" /\ n \notin {"*", "/"} /\ s.sig \in RegexFollows ->
             [AwkPrint(s, c) EXCEPT !.mode = "regex", !.escaped = FALSE]
      [] OTHER -> AwkPrint(s, c)

Awk(s, c, n) ==
    IF s.skip THEN [s EXCEPT !.skip = FALSE]
    ELSE IF c = NL THEN AwkNewline(s)
    ELSE CASE s.mode = "line"  -> s
           [] s.mode = "block" ->
                  IF c = "*" /\ n = "/" THEN [s EXCEPT !.mode = "code", !.skip = TRUE] ELSE s
           [] s.mode = "quote" -> AwkQuoted(s, c, "quote")
           [] s.mode = "regex" -> AwkQuoted(s, c, "/")
           [] s.mode = "code"  -> AwkCode(s, c, n)

\* grep: ^ *((private|global) +)*rule +name, and sort -u.
RuleNames(text) ==
    LET out == Read(Awk, AwkStart, text).out
        BeginsLine(k) ==
            \E b \in 1..k : /\ b = 1 \/ out[b - 1] = NL
                            /\ \A m \in b..(k - 1) :
                                  out[m] = SP \/ (out[m] \in Modifiers /\ out[m + 1] = SP)
    IN  {out[j] : j \in {j \in DOMAIN out : out[j] \in Words /\ \E k \in 1..(j - 2) :
                            /\ out[k] = "rule" /\ BeginsLine(k)
                            /\ \A m \in (k + 1)..(j - 1) : out[m] = SP}}

-----------------------------------------------------------------------------
(***************************************************************************)
(* The compiler (external)                                                 *)
(***************************************************************************)
\* The tokens of a text, each with its line and whether a space follows it at once.
\* A string and a regular expression are one token each.
LexStart == [mode |-> "code", skip |-> FALSE, line |-> 1, tokens |-> <<>>]
Emit(s, t, n) ==
    [s EXCEPT !.mode = "code", !.tokens = Append(@, [sym |-> t, line |-> s.line, spaced |-> n = SP])]

LexNewline(s) ==
    [s EXCEPT !.line = @ + 1,
              !.mode = IF @ \in {"string", "regex"} THEN "bad" ELSE IF @ = "line" THEN "code" ELSE @]

LexQuoted(s, c, n) ==
    IF c = "backslash" THEN [s EXCEPT !.skip = TRUE]
    ELSE IF c = (IF s.mode = "string" THEN "quote" ELSE "/") THEN Emit(s, s.mode, n)
    ELSE s

LexCode(s, c, n) ==
    CASE c = SP      -> s
      [] c = "quote" -> [s EXCEPT !.mode = "string"]
      [] c = "/"     -> IF n = "*" THEN [s EXCEPT !.mode = "block", !.skip = TRUE]
                        ELSE [s EXCEPT !.mode = IF n = "/" THEN "line" ELSE "regex"]
      [] OTHER       -> Emit(s, c, n)

Lex(s, c, n) ==
    IF s.mode = "bad" THEN s
    ELSE IF c = NL THEN LexNewline(s)
    ELSE IF s.skip THEN [s EXCEPT !.skip = FALSE]
    ELSE CASE s.mode = "line"  -> s
           [] s.mode = "block" ->
                  IF c = "*" /\ n = "/" THEN [s EXCEPT !.mode = "code", !.skip = TRUE] ELSE s
           [] s.mode \in {"string", "regex"} -> LexQuoted(s, c, n)
           [] s.mode = "code"  -> LexCode(s, c, n)

Tokens(text) == LET end == Read(Lex, LexStart, text) IN
                IF end.mode \in {"code", "line"} THEN end.tokens
                ELSE <<[sym |-> "bad", line |-> 0, spaced |-> FALSE]>>

\* A text is a sequence of imports and of rules, whose body is a list of `= value`
\* and `matches regex`.
Goes == [top    |-> [import |-> "import", private |-> "mods", global |-> "mods", rule |-> "name"],
         import |-> [string |-> "top"],
         mods   |-> [private |-> "mods", global |-> "mods", rule |-> "name"],
         open   |-> [x \in {"{"} |-> "body"],
         body   |-> [x \in {"=", "matches", "}"} |->
                        IF x = "=" THEN "value" ELSE IF x = "}" THEN "top" ELSE "regex"],
         value  |-> [string |-> "body", regex |-> "body"],
         regex  |-> [regex |-> "body"],
         bad    |-> <<>>]
Parse(state, token, n) ==
    IF state = "name" THEN IF token.sym \in Names THEN "open" ELSE "bad"
    ELSE IF token.sym \in DOMAIN Goes[state] THEN Goes[state][token.sym] ELSE "bad"

\* The tokens `rule` of the declarations in a text that parses.
Declarations(tokens) == {i \in DOMAIN tokens : tokens[i].sym = "rule"}
Declared(text) == LET tokens == Tokens(text) IN {tokens[i + 1].sym : i \in Declarations(tokens)}

\* yr compile: it parses, and no two rules have one name.
Compiles(text) ==
    LET tokens == Tokens(text) IN
    /\ Read(Parse, "top", tokens) = "top"
    /\ Cardinality(Declared(text)) = Cardinality(Declarations(tokens))

-----------------------------------------------------------------------------
(***************************************************************************)
(* The scanner                                                             *)
(***************************************************************************)
\* The first position from i on where Stop holds, or the one after the text.
Skip(text, i, Stop(_)) ==
    LET stops == {j \in i..Len(text) : Stop(j)} IN
    IF stops = {} THEN Len(text) + 1 ELSE CHOOSE j \in stops : \A k \in stops : j <= k

Pair(text, i, c, d) == i < Len(text) /\ text[i] = c /\ text[i + 1] = d

\* Mutant: the end of a block comment is looked for in its beginning.
BlockEnd_Overlap(text, i) == Skip(text, i + 1, LAMBDA j : Pair(text, j, "*", "/")) + 2
\* After the block comment that begins at i.
BlockEnd(text, i) == Skip(text, i + 2, LAMBDA j : Pair(text, j, "*", "/")) + 2

\* Where a loop that begins at `start` and goes on from i at After(i) ends: where Stop
\* holds, or after the text.
Loop(text, start, Stop(_), After(_)) ==
    LET index[n \in 0..Len(text)] ==
            IF n = 0 THEN start
            ELSE LET i == index[n - 1] IN IF i > Len(text) \/ Stop(i) THEN i ELSE After(i)
    IN  index[Len(text)]

\* After the string that begins at i; a backslash takes the next symbol with it.
StringEnd(text, i) ==
    Loop(text, i + 1, LAMBDA j : text[j] = "quote",
                      LAMBDA j : IF text[j] = "backslash" THEN j + 2 ELSE j + 1) + 1

\* After the comment or the string that begins at i, or else after the symbol.
Beyond(text, i) ==
    CASE Pair(text, i, "/", "/") -> Skip(text, i + 2, LAMBDA j : text[j] = NL)
      [] Pair(text, i, "/", "*") -> BlockEnd(text, i)
      [] text[i] = "quote"       -> StringEnd(text, i)
      [] OTHER                   -> i + 1

\* The loop stops at a word `rule`, or finds none.
contains_rule_declaration(text) ==
    Loop(text, 1, LAMBDA i : text[i] = "rule", LAMBDA i : Beyond(text, i)) <= Len(text)

\* The sources become a RuleSet; each is compiled, in one name space.
compile_from_sources(texts) ==
    /\ \E t \in texts : contains_rule_declaration(t)
    /\ \A t \in texts : Compiles(t)
    /\ \A t, u \in texts : t # u => Declared(t) \cap Declared(u) = {}

-----------------------------------------------------------------------------
(***************************************************************************)
(* The build                                                               *)
(***************************************************************************)
VARIABLES
    files,    \* what was fetched, sorted
    next,     \* the file the loop is at
    seen,     \* names of the rules of the files kept
    passed,   \* the files kept (total_files)
    merged,   \* bundled.yar
    rules,    \* total_rules of the manifest
    stage     \* "filter" | "count" | "built", or why it failed

vars == <<files, next, seen, passed, merged, rules, stage>>

Init ==
    /\ files \in Fetched
    /\ next = 1
    /\ seen = {}
    /\ passed = {}
    /\ merged = <<>>
    /\ rules = 0
    /\ stage = "filter"

Base(i) == files[i].base

\* Mutant: the conflict is looked for, the names are not remembered.
Examine_Forget ==
    /\ stage = "filter"
    /\ next <= Len(files)
    /\ next' = next + 1
    /\ IF Compiles(files[next].text) /\ ~files[next].fpProne
          /\ RuleNames(files[next].text) \cap seen = {}
       THEN passed' = passed \cup {next} ELSE UNCHANGED passed
    /\ UNCHANGED <<files, seen, merged, rules, stage>>

\* One file: it is tried with the compiler, dropped when its kind is prone to false
\* positives or one of its names is taken, or else kept under its flattened name.
Examine ==
    /\ stage = "filter"
    /\ next <= Len(files)
    /\ LET names == RuleNames(files[next].text) IN
          IF Compiles(files[next].text) /\ ~files[next].fpProne /\ names \cap seen = {}
          THEN /\ seen' = seen \cup names
               /\ IF Base(next) \in {Base(i) : i \in passed}
                  THEN stage' = "collision" /\ UNCHANGED <<next, passed>>
                  ELSE passed' = passed \cup {next} /\ next' = next + 1 /\ UNCHANGED stage
          ELSE next' = next + 1 /\ UNCHANGED <<seen, passed, stage>>
    /\ UNCHANGED <<files, merged, rules>>

\* What find gives cat: *.yar and *.yara, though *.YAR was fetched and kept too.
Merged == {i \in passed : files[i].lower}

\* The files are put one after the other, in the order of their flattened names,
\* which need not be the one they were examined in; the whole is compiled.
Merge ==
    /\ stage = "filter"
    /\ next > Len(files)
    /\ \E order \in SetToSeqs(Merged) :
          merged' = FlattenSeq([i \in DOMAIN order |-> files[order[i]].text])
    /\ stage' = IF Compiles(merged') THEN "count" ELSE "unmerged"
    /\ UNCHANGED <<files, next, seen, passed, rules>>

\* The names are counted for the manifest.
Count ==
    /\ stage = "count"
    /\ rules' = Cardinality(RuleNames(merged))
    /\ stage' = IF rules' > 0 THEN "built" ELSE "empty"
    /\ UNCHANGED <<files, next, seen, passed, merged>>

Next == Examine \/ Merge \/ Count

Spec == Init /\ [][Next]_vars
-----------------------------------------------------------------------------
(***************************************************************************)
(* Properties                                                              *)
(***************************************************************************)
Texts == {files[i].text : i \in DOMAIN files} \cup {merged}
Kept  == {files[i].text : i \in passed}
Parts == {files[i].text : i \in Merged}

\* The scanner's look at the text and the compiler agree on every text that
\* compiles: a source whose only rules are in comments or strings is refused, no
\* source with a rule is, whatever stands before it.  So a bundle that was built
\* is one the scanner takes.
ScannerAgrees ==
    /\ \A t \in Texts : Compiles(t) => (contains_rule_declaration(t) <=> Declared(t) # {})
    /\ stage = "built" => compile_from_sources({merged})

\* Every regular expression of the text follows a symbol of RegexFollows.
KnownRegexes(text) ==
    LET tokens == Tokens(text) IN
    \A i \in DOMAIN tokens : tokens[i].sym = "regex" => i > 1 /\ tokens[i - 1].sym \in RegexFollows

\* The manifest counts no rule that is not in the bundle: names in comments and
\* strings are left out, over lines, across files, and next to anything that looks
\* like the beginning or the end of a comment.
CountIsSound ==
    stage = "built" /\ KnownRegexes(merged) => RuleNames(merged) \subseteq Declared(merged)

\* Each rule begins its line and has its name on it, no comment takes the place of a
\* space there, each regular expression is recognised, and the last line is ended.
Tidy(text) ==
    LET tokens == Tokens(text) IN
    /\ \A i \in Declarations(tokens) :
          /\ tokens[i].spaced /\ tokens[i + 1].line = tokens[i].line
          /\ \A k \in 1..(i - 1) : tokens[k].line = tokens[i].line =>
                                      tokens[k].sym \in Modifiers /\ tokens[k].spaced
    /\ KnownRegexes(text)
    /\ text = <<>> \/ Last(text) = NL

\* If the files that are merged are tidy, dropping those with a name that is taken is
\* enough: the whole compiles, and its manifest counts every rule of every file.
TidyIsExact ==
    (\A t \in Parts : Tidy(t)) =>
        /\ stage # "unmerged"
        /\ stage \in {"built", "empty"} => rules = Cardinality(UNION {Declared(t) : t \in Parts})

\* The manifest is written with the bundle "so provenance never drifts from the
\* artifact" (docs/superpowers/plans/2026-08-17-powerscanner-phase1.md): its
\* total_rules is the number of rules in the bundle.
TotalIsTheBundle ==
    stage = "built" => rules = Cardinality(Declared(merged))
=============================================================================
