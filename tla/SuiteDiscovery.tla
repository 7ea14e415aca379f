--------------------------- MODULE SuiteDiscovery ---------------------------
(***************************************************************************)
(* suite.Resolve: which test files a selector names.  A path is the        *)
(* sequence of its segments below the working directory; a glob is the     *)
(* sequence of its segments, each "**", "*" or a name.                     *)
(***************************************************************************)
EXTENDS Naturals, Sequences, FiniteSets, SequencesExt

CONSTANTS
    Files,      \* the YAML files, and whatever else lies in the tree
    Sorted,     \* the same, in the order of their paths
    Path,       \* file -> its segments
    Tags,       \* file -> its top-level tags, none if it is a bare step list
    NotWalked,  \* the names that start with a dot, and node_modules
    NotYaml     \* the files without a .yml or .yaml extension

ASSUME Tree ==
    /\ Sorted \in Seq(Files) /\ ToSet(Sorted) = Files /\ IsInjective(Sorted)
    /\ Path \in [Files -> Seq(STRING)] /\ DOMAIN Tags = Files
    /\ NotYaml \subseteq Files

\* The part of a path from its k-th segment on.
From(path, k) == SubSeq(path, k, Len(path))

\* CompileGlob, MatchString, segment by segment: "**/" stands for any number of
\* segments, none included, a "**" at the end for the rest of the path.
MatchesGlob(path, glob) ==
    LET matches[i \in 1..Len(path) + 1, j \in 1..Len(glob) + 1] ==
            \/ j > Len(glob) /\ i > Len(path)
            \/ j = Len(glob) /\ glob[j] = "**" /\ i <= Len(path)
            \/ /\ j < Len(glob) /\ glob[j] = "**"
               /\ matches[i, j + 1] \/ (i <= Len(path) /\ matches[i + 1, j])
            \/ /\ j <= Len(glob) /\ i <= Len(path)
               /\ glob[j] # "**" /\ glob[j] \in {"*", path[i]} /\ matches[i + 1, j + 1]
    IN  matches[1, 1]

\* walkYamlFiles: below a directory, through no hidden one.  The directory itself may
\* be hidden, and one that does not exist has no files.
Walk(dir) ==
    {f \in Files \ NotYaml :
        /\ IsStrictPrefix(dir, Path[f])
        /\ \A k \in Len(dir) + 1..Len(Path[f]) : Path[f][k] \notin NotWalked}

SearchDirs(testRoots) == IF testRoots = {} THEN {<<>>} ELSE testRoots

\* A glob is relative to the search directory the file is found in.
Candidates(selector) ==
    UNION {{f \in Walk(dir) :
               \/ selector.globs = {}
               \/ \E glob \in selector.globs : MatchesGlob(From(Path[f], Len(dir) + 1), glob)} :
           dir \in SearchDirs(selector.testRoots)}

\* Resolve refuses a selector that names nothing, and tags with nowhere to look.
Refused(selector) ==
    selector.globs = {} /\ (selector.tags = {} \/ selector.testRoots = {})

\* The files in path order, each once however many directories reach it.
Resolve(selector) ==
    LET named == {k \in DOMAIN Sorted :
                     /\ Sorted[k] \in Candidates(selector)
                     /\ selector.tags = {} \/ Tags[Sorted[k]] \cap selector.tags # {}}
        Nth(n) == CHOOSE k \in named : Cardinality({l \in named : l <= k}) = n
    IN  [n \in 1..Cardinality(named) |-> Sorted[Nth(n)]]
=============================================================================
