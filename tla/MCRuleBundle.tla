---------------------------- MODULE MCRuleBundle ----------------------------
(* Small instances of RuleBundle: files put together from pieces, each of  *)
(* which has something that one of the readers may mistake.                *)
EXTENDS RuleBundle

\* // rule a
LineComment == <<"/", "/", SP, "rule", SP, "a", NL>>
\* The same where a file ends without a newline.
LastComment == <<"/", "/", SP, "rule">>
\* A block comment that looks as if it ended at once, over lines.
BlockComment == <<"/", "*", "/", NL, "rule", SP, "b", NL, "*", "/">>
\* import "\"rule"
Import == <<"import", SP, "quote", "backslash", "quote", "rule", "quote", NL>>
Rule(n, body) == <<"rule", SP, n, SP, "{">> \o body \o <<"}", NL>>
\* = "/*": no comment begins.
StringRule(n) == Rule(n, <<"=", "quote", "/", "*", "quote">>)
\* = /\/*"/: neither a comment nor a string begins, over two lines.
RegexRule(n) == <<"private", SP>> \o Rule(n, <<NL, SP, "=", SP, "/", "backslash", "/", "*", "quote", "/", NL>>)
\* matches /"/: the regular expression that build-rules.sh does not recognise.
MatchRule(n) == Rule(n, <<"matches", "/", "quote", "/">>)
\* Two rules on one line.
TwoRules == <<"rule", SP, "a", "{", "}", SP, "rule", SP, "b", "{", "}", NL>>
\* No newline at the end.
LastRule(n) == <<"rule", SP, n, "{", "}">>
\* A name on a line of its own.
SplitRule == <<"rule", NL, "a", "{", "}", NL>>

Begins == {LineComment, BlockComment, Import, StringRule("a"), RegexRule("b"), MatchRule("a"), TwoRules}
Ends   == Begins \cup {LastComment, LastRule("a"), LastRule("b"), SplitRule, <<"}", NL>>}

MCTexts == Ends \cup {s \o t : s \in Begins, t \in Ends}

File(b, l, fp, t) == [base |-> b, lower |-> l, fpProne |-> fp, text |-> t]

\* Two files of any texts; and a first one that is prone to false positives, has
\* its extension in capitals, or has the flattened name of the second.
MCFetched ==
    {<<File("x", TRUE, FALSE, s), File("y", TRUE, FALSE, t)>> : s, t \in MCTexts}
    \cup {<<File(b, l, fp, StringRule("a")), File("y", TRUE, FALSE, t)>> :
              b \in {"x", "y"}, l, fp \in BOOLEAN, t \in MCTexts}
=============================================================================
