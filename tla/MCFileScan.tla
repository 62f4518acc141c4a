----------------------------- MODULE MCFileScan ------------------------------
(* Small instances of FileScan. *)
EXTENDS FileScan

CONSTANTS f1, f2, f3, d1, d2

Content(b, m, g) == [blacklisted |-> b, matched |-> m, big |-> g]

\* A harmless file, a blacklisted one, one that a rule matches, one that is both,
\* and a matching one above the size limit.
MCContents == {Content(FALSE, FALSE, FALSE), Content(TRUE, FALSE, FALSE),
               Content(FALSE, TRUE, FALSE), Content(TRUE, TRUE, FALSE), Content(FALSE, TRUE, TRUE)}

MCParentDir == [f \in Files |-> IF f = f1 THEN d1 ELSE d2]
=============================================================================
