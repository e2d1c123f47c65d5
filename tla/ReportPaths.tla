----------------------------- MODULE ReportPaths -----------------------------
(***************************************************************************)
(* The paths of a capture: p101_observe_make_report_paths builds them from *)
(* the argument of -o in buffers of PATH_LEN bytes, and                    *)
(* p101_observe_create_report_dir makes the directory and its ancestors.   *)
(*                                                                         *)
(* Several inspect-captures may make directories with common ancestors at  *)
(* the same time.  A path is a sequence of characters, because what counts *)
(* here is its length and where its slashes are.                           *)
(***************************************************************************)
EXTENDS Naturals, Sequences, FiniteSets

CONSTANTS
    Makers,    \* the invocations of inspect-capture
    Arguments, \* the arguments of -o they may be given
    Names,     \* the files of a capture
    Length,    \* the length of each name
    PathLen,   \* PATH_LEN
    Occupied   \* the paths at which something else than a directory may be

VARIABLES
    wanted,  \* maker -> its args->report_dir
    dir,     \* maker -> its paths->dir
    reached, \* maker -> how much of dir create_report_dir has gone through
    at,      \* maker -> what it is about to do
    tree,    \* the directories there are
    plain    \* the paths at which there is something else

pathsVars == <<wanted, dir, reached, at, tree, plain>>

ASSUME PathLenAssumption == PathLen \in Nat \ {0}
ASSUME ArgumentsAssumption == Arguments \subseteq Seq({"/", "a", "b"}) \ {<<>>}
ASSUME OccupiedAssumption == Occupied \subseteq Seq({"/", "a", "b"})
ASSUME NamesAssumption == Names # {} /\ Length \in [Names -> Nat \ {0}]

IsSlash(path, i) == path[i] = "/"

\* The path as the file system reads it: a slash counts once, and not at the
\* end.  <<>> is where an absolute or a relative path starts, and is there.
Canonical(path) ==
    LET kept == {i \in DOMAIN path :
                    IsSlash(path, i) =>
                        i < Len(path) /\ ~IsSlash(path, i + 1)}
        Nth(k) == CHOOSE i \in kept : Cardinality({j \in kept : j <= i}) = k
    IN  [k \in 1 .. Cardinality(kept) |-> path[Nth(k)]]

\* The ends of the components of a path: what precedes a slash or the end,
\* and is not itself a slash.
ComponentEnds(path) ==
    {i \in 1 .. Len(path) :
        /\ ~IsSlash(path, i)
        /\ i = Len(path) \/ IsSlash(path, i + 1)}

Prefix(path, i) == Canonical(SubSeq(path, 1, i))

\* A directory's ancestors, itself included.
Ancestors(path) == {Prefix(path, i) : i \in ComponentEnds(path)}

PathsInit ==
    /\ wanted \in [Makers -> Arguments]
    /\ dir = [m \in Makers |-> <<>>]
    /\ reached = [m \in Makers |-> 0]
    /\ at = [m \in Makers |-> "paths"]
    /\ plain \in SUBSET Occupied
    /\ tree = {<<>>} \cup UNION {Ancestors(p) \ {p} : p \in plain}
    /\ tree \cap plain = {}

-----------------------------------------------------------------------------
\* Mutation: a join that fills the buffer to its last byte counts as done.
MutantJoinFails(path, name) == Len(path) + 1 + Length[name] > PathLen

\* p101_observe_join_path: snprintf reports the length it would have needed.
JoinFails(path, name) == Len(path) + 1 + Length[name] >= PathLen

\* strncpy and the terminator: what does not fit is dropped silently.
Copied(path) ==
    SubSeq(path, 1, IF Len(path) < PathLen THEN Len(path) ELSE PathLen - 1)

\* Mutation: p101_observe_run does not look at the error.
MutantMakeReportPaths(m) ==
    /\ at[m] = "paths"
    /\ dir' = [dir EXCEPT ![m] = Copied(wanted[m])]
    /\ at' = [at EXCEPT ![m] = "create"]
    /\ UNCHANGED <<wanted, reached, tree, plain>>

\* The copy and the joins, and the check of the error state after them.  The
\* clock and the formatting may fail as well.
MakeReportPaths(m) ==
    /\ at[m] = "paths"
    /\ dir' = [dir EXCEPT ![m] = Copied(wanted[m])]
    /\ \/ /\ \A name \in Names : ~JoinFails(dir'[m], name)
          /\ at' = [at EXCEPT ![m] = "create"]
       \/ at' = [at EXCEPT ![m] = "trouble"]
    /\ UNCHANGED <<wanted, reached, tree, plain>>

\* mkdir of one path.  That something is there already is no error to
\* create_directory_component, whatever it is.
MakesDirectory(path) ==
    /\ \A ancestor \in Ancestors(path) \ {path} : ancestor \in tree
    /\ path \notin tree \cup plain
    /\ tree' = tree \cup {path}

IsThere(path) ==
    /\ path \in tree \cup plain
    /\ UNCHANGED tree

\* Mutation: the loop stops short of the terminator.
MutantLater(m) ==
    {i \in ComponentEnds(dir[m]) : i > reached[m] /\ i < Len(dir[m])}

\* The component ends the loop has not come to.
Later(m) == {i \in ComponentEnds(dir[m]) : i > reached[m]}

\* The next component of create_report_dir.  The check of the length before
\* the loop never fails: dir was cut to fit.
CreateComponent(m) ==
    /\ at[m] = "create"
    /\ \E i \in Later(m) :
          /\ \A j \in Later(m) : i <= j
          /\ \/ /\ \/ MakesDirectory(Prefix(dir[m], i))
                   \/ IsThere(Prefix(dir[m], i))
                /\ reached' = [reached EXCEPT ![m] = i]
                /\ UNCHANGED at
             \/ /\ at' = [at EXCEPT ![m] = "trouble"]
                /\ UNCHANGED <<reached, tree>>
    /\ UNCHANGED <<wanted, dir, plain>>

\* The end of the path.
Created(m) ==
    /\ at[m] = "create"
    /\ Later(m) = {}
    /\ at' = [at EXCEPT ![m] = "done"]
    /\ UNCHANGED <<wanted, dir, reached, tree, plain>>

PathsTerminating ==
    /\ \A m \in Makers : at[m] \in {"done", "trouble"}
    /\ UNCHANGED pathsVars

MakerStep(m) == MakeReportPaths(m) \/ CreateComponent(m) \/ Created(m)

PathsNext == (\E m \in Makers : MakerStep(m)) \/ PathsTerminating

PathsSpec == PathsInit /\ [][PathsNext]_pathsVars

-----------------------------------------------------------------------------
(* Properties.                                                             *)

\* The types, and that the path and its terminator fit the buffer: what makes
\* create_report_dir's own check of the length superfluous.
PathsTypeOK ==
    /\ wanted \in [Makers -> Arguments]
    /\ dir \in [Makers -> Seq({"/", "a", "b"})]
    /\ reached \in [Makers -> Nat]
    /\ \A m \in Makers : Len(dir[m]) < PathLen /\ reached[m] <= Len(dir[m])
    /\ at \in [Makers -> {"paths", "create", "done", "trouble"}]
    /\ <<>> \in tree

\* strncpy cuts a long argument and nothing tells: yet a capture that goes on
\* has its directory in full, and every file name in it fits its buffer.
NothingCut ==
    \A m \in Makers :
        at[m] \in {"create", "done"} =>
            /\ dir[m] = wanted[m]
            /\ \A name \in Names : Len(wanted[m]) + 1 + Length[name] < PathLen

\* No directory is made but the ancestors of what somebody asked for, never
\* those of a path that was cut.
NoStrayDirectory ==
    tree \subseteq {<<>>} \cup (UNION {Ancestors(wanted[m]) : m \in Makers})
                      \cup (UNION {Ancestors(p) : p \in plain})

\* When the directory counts as made, all its ancestors are directories,
\* whatever slashes the path has and whoever else makes them.  The path
\* itself may be something else, which only the first fopen in it notices.
DirectoryMade ==
    \A m \in Makers :
        at[m] = "done" =>
            /\ Ancestors(wanted[m]) \ {Canonical(wanted[m])} \subseteq tree
            /\ Canonical(wanted[m]) \in tree \cup plain
=============================================================================
