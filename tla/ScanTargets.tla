----------------------------- MODULE ScanTargets -----------------------------
(***************************************************************************)
(* What a preset scans: the roots that the environment of the user gives   *)
(* (core/src/scan/targets.rs) and the files the walk finds below them      *)
(* without leaving them through a link (core/src/scan/walk.rs).  The disk  *)
(* stays as it is here; FileScan is about one that changes.                *)
(***************************************************************************)
EXTENDS Integers, FiniteSets, Sequences, SequencesExt

CONSTANTS
    Names,    \* what a file may be called
    Worlds    \* what the disk and the environment may be (IsWorld)

ASSUME NamesAssumption ==
    {"C", "D", "Windows", "Temp", "System32", "Startup", "Downloads"} \subseteq Names

\* A path is a sequence of names, its first the drive.  Joining names to a path,
\* "Startup" stands for Microsoft\Windows\Start Menu\Programs\Startup.
Variables == {"TEMP", "APPDATA", "LOCALAPPDATA", "USERPROFILE", "PROGRAMDATA"}
NodeType == [kind : {"dir", "file", "link"},
             opens : BOOLEAN,           \* a directory that can be listed
             to : Seq(Names)]           \* where a link leads: a directory that is no link

\* A world: its nodes by their real paths, and the variables that are set.
IsWorld(w) ==
    /\ DOMAIN w = {"tree", "env"}
    /\ \A p \in DOMAIN w.tree :
          /\ p \in Seq(Names) \ {<<>>} /\ w.tree[p] \in NodeType
          /\ Len(p) > 1 => Front(p) \in DOMAIN w.tree /\ w.tree[Front(p)].kind = "dir"
          /\ w.tree[p].kind = "link" =>
                w.tree[p].to \in {q \in DOMAIN w.tree : w.tree[q].kind = "dir"}
    /\ DOMAIN w.env \subseteq Variables
    /\ \A v \in DOMAIN w.env : w.env[v] \in Seq(Names) \ {<<>>}
ASSUME WorldsAssumption == \A w \in Worlds : IsWorld(w)

VARIABLES
    world,
    preset,    \* "none" | "Quick" | "Full" | "RiskySpots"
    roots,     \* the roots of the scan
    at,        \* the root the walk is at
    todo,      \* entries it has found and not yet looked at
    listed,    \* its FileEntries: pairs of the root they were found from and their path
    done       \* enumerate has returned

vars == <<world, preset, roots, at, todo, listed, done>>

Init ==
    /\ world \in Worlds
    /\ preset = "none"
    /\ roots = <<>>
    /\ at = 0
    /\ todo = {}
    /\ listed = {}
    /\ done = FALSE

-----------------------------------------------------------------------------
(***************************************************************************)
(* Paths (the file system, external)                                       *)
(***************************************************************************)
Node(p) == world.tree[p]
IsNode(p) == p \in DOMAIN world.tree

\* Where a name in a real directory leads, and the real path of a path: each link
\* on the way is followed.
Follow(dir, name) ==
    LET here == Append(dir, name) IN
    IF IsNode(here) /\ Node(here).kind = "link" THEN Node(here).to ELSE here

Real(path) ==
    LET real[i \in 0..Len(path)] == IF i = 0 THEN <<>> ELSE Follow(real[i - 1], path[i])
    IN  real[Len(path)]

\* Path::exists follows links; symlink_metadata does not follow the last one.
Exists(path) == IsNode(Real(path))
Lstat(path)  == Append(Real(Front(path)), Last(path))

-----------------------------------------------------------------------------
(***************************************************************************)
(* targets.rs                                                              *)
(***************************************************************************)
\* A root is added only if it exists.
push(path) == IF Exists(path) THEN <<path>> ELSE <<>>

\* env_path, and a place below it.
env_path(v, below) == IF v \in DOMAIN world.env THEN push(world.env[v] \o below) ELSE <<>>

fixed_paths == push(<<"C", "Windows", "Temp">>) \o push(<<"C", "Windows", "System32">>)

\* Mutant: Startup is below APPDATA, it is scanned with it.
risky_roots_Below ==
    env_path("TEMP", <<>>) \o env_path("APPDATA", <<>>) \o env_path("LOCALAPPDATA", <<>>)
    \o env_path("USERPROFILE", <<"Downloads">>) \o env_path("PROGRAMDATA", <<"Startup">>)
    \o fixed_paths

risky_roots ==
    env_path("TEMP", <<>>)
    \o env_path("APPDATA", <<"Startup">>) \o env_path("APPDATA", <<>>)
    \o env_path("LOCALAPPDATA", <<>>)
    \o env_path("USERPROFILE", <<"Downloads">>)
    \o env_path("PROGRAMDATA", <<"Startup">>)
    \o fixed_paths

\* The drives there are: of A to Z, these.
full_roots == push(<<"C">>) \o push(<<"D">>)

roots_for(p) == IF p = "Full" THEN full_roots ELSE risky_roots

Begin(p) ==
    /\ preset = "none"
    /\ preset' = p
    /\ roots' = roots_for(p)
    /\ UNCHANGED <<world, at, todo, listed, done>>

-----------------------------------------------------------------------------
(***************************************************************************)
(* enumerate                                                               *)
(***************************************************************************)
NextRoot ==
    /\ preset # "none" /\ ~done
    /\ todo = {}
    /\ IF at = Len(roots) THEN done' = TRUE /\ UNCHANGED <<at, todo>>
       ELSE at' = at + 1 /\ todo' = {roots[at + 1]} /\ UNCHANGED done
    /\ UNCHANGED <<world, preset, roots, listed>>

Children(path) == {Append(path, Last(c)) : c \in {c \in DOMAIN world.tree :
                                                    Len(c) > 1 /\ Front(c) = Real(path)}}

\* Mutant: links are only looked for below the root.
should_walk_entry_Below(path) == path = roots[at] \/ Node(Lstat(path)).kind # "link"
\* It is no link and no other reparse point, the root itself included.
should_walk_entry(path) == Node(Lstat(path)).kind # "link"

\* The walk looks at an entry: it lists a file, and goes into a directory, if it can.
Visit(path) ==
    /\ todo' = (todo \ {path})
               \cup (IF should_walk_entry(path) /\ Node(Real(path)).kind = "dir"
                        /\ Node(Real(path)).opens
                     THEN Children(path) ELSE {})
    /\ listed' = listed \cup (IF should_walk_entry(path) /\ Node(Real(path)).kind = "file"
                              THEN {<<at, path>>} ELSE {})
    /\ UNCHANGED <<world, preset, roots, at, done>>

VisitNext == \E path \in todo : Visit(path)
-----------------------------------------------------------------------------
Next == (\E p \in {"Quick", "Full", "RiskySpots"} : Begin(p)) \/ NextRoot \/ VisitNext

Spec == Init /\ [][Next]_vars
-----------------------------------------------------------------------------
(***************************************************************************)
(* Properties                                                              *)
(***************************************************************************)
\* A directory and all on the way to a node below it can be listed, and none but
\* the node is a file.
Reaches(top, p) ==
    /\ IsPrefix(top, p)
    /\ \A i \in Len(top)..(Len(p) - 1) : Node(SubSeq(p, 1, i)).opens

\* The places a preset is about (docs/PRD.md), as far as there are any.
Places(p) ==
    IF p = "Full" THEN { <<"C">>, <<"D">> }
    ELSE { <<"C", "Windows", "Temp">>, <<"C", "Windows", "System32">> }
         \cup {world.env[v] : v \in DOMAIN world.env \cap {"TEMP", "APPDATA", "LOCALAPPDATA"}}
         \cup {world.env[v] \o <<"Downloads">> : v \in DOMAIN world.env \cap {"USERPROFILE"}}
         \cup {world.env[v] \o <<"Startup">> : v \in DOMAIN world.env \cap {"APPDATA", "PROGRAMDATA"}}

\* Every file that can be reached below a place of the preset is scanned, though the
\* place itself may lie behind a link, be missing for another user, or overlap with
\* others; only a place that is a link itself is passed over.
PlacesAreScanned ==
    done => \A place \in {q \in Places(preset) : Exists(q) /\ Node(Lstat(q)).kind # "link"} :
                \A f \in {f \in DOMAIN world.tree : Node(f).kind = "file" /\ Reaches(Real(place), f)} :
                    \E e \in listed : Real(e[2]) = f

\* The walk lists nothing that lies outside its roots, whatever links there are, and
\* no file twice from one root.
WalkStaysInside ==
    \A e \in listed :
        /\ Reaches(Real(roots[e[1]]), Real(e[2]))
        /\ Node(Lstat(roots[e[1]])).kind # "link"
        /\ \A g \in listed : g[1] = e[1] /\ Real(g[2]) = Real(e[2]) => g = e
=============================================================================
