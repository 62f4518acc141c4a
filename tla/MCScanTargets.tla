--------------------------- MODULE MCScanTargets -----------------------------
(* Small disks and environments for ScanTargets. *)
EXTENDS ScanTargets

MCNames == {"C", "D", "Windows", "Temp", "System32", "User", "Roaming", "Local", "All", "Startup",
            "Downloads", "Moved", "f", "up", "back"}

Dir(opens) == [kind |-> "dir", opens |-> opens, to |-> <<>>]
AFile      == [kind |-> "file", opens |-> FALSE, to |-> <<>>]
Link(to)   == [kind |-> "link", opens |-> FALSE, to |-> to]

User == <<"C", "User">>

\* A drive with a user's folders, one of which cannot be listed when `shut`; the
\* user's temporary folder, or all folders, may have been moved to another drive
\* with a link in their place, and a link may lead back up.
Fixed ==
    <<"C">> :> Dir(TRUE) @@ <<"C", "Windows">> :> Dir(TRUE) @@ <<"C", "Windows", "Temp">> :> Dir(TRUE)
    @@ <<"C", "Windows", "Temp", "f">> :> AFile @@ <<"D">> :> Dir(TRUE)
Folders(top, shut) ==
    top :> Dir(TRUE) @@ (top \o <<"Roaming">>) :> Dir(~shut)
    @@ (top \o <<"Roaming", "Startup">>) :> Dir(TRUE) @@ (top \o <<"Roaming", "Startup", "f">>) :> AFile
    @@ (top \o <<"Downloads">>) :> Dir(TRUE) @@ (top \o <<"Downloads", "f">>) :> AFile
    @@ (top \o <<"Local">>) :> Dir(TRUE)
    @@ (top \o <<"All">>) :> Dir(TRUE) @@ (top \o <<"All", "Startup">>) :> Dir(TRUE)
    @@ (top \o <<"All", "Startup", "f">>) :> AFile

Moved == <<"D", "Moved">>
MCTrees ==
    {Fixed @@ Folders(User, shut) @@ x @@ y :
        shut \in BOOLEAN,
        x \in { <<"C", "User", "Local", "Temp">> :> Dir(TRUE) @@ <<"C", "User", "Local", "Temp", "f">> :> AFile,
                <<"C", "User", "Local", "Temp">> :> Link(Moved) @@ Moved :> Dir(TRUE)
                    @@ (Moved \o <<"f">>) :> AFile },
        y \in { <<>>, <<"C", "User", "Downloads", "up">> :> Link(<<"C">>) }}
    \cup {Fixed @@ Folders(Moved, shut) @@ User :> Link(Moved) @@ <<"D", "Moved", "back">> :> Link(<<"D">>) :
        shut \in BOOLEAN}

Env == [TEMP |-> User \o <<"Local", "Temp">>, APPDATA |-> User \o <<"Roaming">>,
        LOCALAPPDATA |-> User \o <<"Local">>, USERPROFILE |-> User, PROGRAMDATA |-> User \o <<"All">>]

MCWorlds ==
    {[tree |-> t, env |-> [v \in vs |-> Env[v]]] :
        t \in MCTrees, vs \in {vs \in SUBSET Variables : Cardinality(vs) >= 4}}
=============================================================================
