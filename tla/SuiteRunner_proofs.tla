------------------------ MODULE SuiteRunner_proofs --------------------------
(***************************************************************************)
(* The properties of a command, for every set of files, scripts, flows and *)
(* command lines: the runner's invariant, and what the stages of a command *)
(* say about it and about the results.                                     *)
(***************************************************************************)
EXTENDS SuiteRunner, ScriptRunner_proofs, WellFoundedInduction

-----------------------------------------------------------------------------
(* Discovery: the files in path order, each once.                           *)

LEMMA Least ==
    ASSUME NEW S \in SUBSET Nat, S # {}
    PROVE  \E m \in S : \A k \in S : m <= k
<1>1. IsWellFoundedOn(OpToRel(<, Nat), Nat)
  BY NatLessThanWellFounded
<1>2. PICK m \in S : \A k \in S : ~(<<k, m>> \in OpToRel(<, Nat))
  BY <1>1, WFMin
<1>3. ASSUME NEW k \in S
      PROVE  m <= k
  <2>1. <<k, m>> \in Nat \X Nat
    OBVIOUS
  <2>2. ~(k < m)
    BY <1>2, <2>1 DEF OpToRel
  <2> QED BY <2>2
<1> QED BY <1>3

\* How many of the numbers are not above m.
Rank(K, m) == Cardinality({l \in K : l <= m})

LEMMA RankSteps ==
    ASSUME NEW L \in Nat, NEW K \in SUBSET (1..L)
    PROVE  /\ IsFiniteSet(K) /\ Cardinality(K) \in Nat
           /\ Rank(K, 0) = 0 /\ Rank(K, L) = Cardinality(K)
           /\ \A m \in Nat : Rank(K, m) \in Nat /\ Rank(K, m) <= Cardinality(K)
           /\ \A m \in Nat :
                  Rank(K, m + 1) = IF m + 1 \in K THEN Rank(K, m) + 1 ELSE Rank(K, m)
           /\ \A m, n \in Nat : m <= n => Rank(K, m) <= Rank(K, n)
<1>0. \A l \in K : l \in Nat /\ 1 <= l /\ l <= L
  OBVIOUS
<1>1. IsFiniteSet(K) /\ Cardinality(K) \in Nat
  <2>1. IsFiniteSet(1..L)
    BY FS_Interval
  <2> QED BY <2>1, FS_Subset, FS_CardinalityType
<1>2. Rank(K, 0) = 0
  <2>0. \A l \in K : ~(l <= 0)
    BY <1>0
  <2>1. {l \in K : l <= 0} = {}
    BY <2>0
  <2> QED BY <2>1, FS_EmptySet DEF Rank
<1>3. Rank(K, L) = Cardinality(K)
  <2>1. {l \in K : l <= L} = K
    BY <1>0
  <2> QED BY <2>1 DEF Rank
<1>4. ASSUME NEW m \in Nat
      PROVE  /\ IsFiniteSet({l \in K : l <= m})
             /\ Rank(K, m) \in Nat /\ Rank(K, m) <= Cardinality(K)
  <2>1. {l \in K : l <= m} \in SUBSET K
    OBVIOUS
  <2> QED BY <1>1, <2>1, FS_Subset, FS_CardinalityType DEF Rank
<1>5. ASSUME NEW m \in Nat
      PROVE  Rank(K, m + 1) = IF m + 1 \in K THEN Rank(K, m) + 1 ELSE Rank(K, m)
  <2>0. /\ \A l \in K : l <= m + 1 <=> (l <= m \/ l = m + 1)
        /\ ~(m + 1 <= m)
    BY <1>0
  <2>1. CASE m + 1 \in K
    <3>1. {l \in K : l <= m + 1} = {l \in K : l <= m} \cup {m + 1} /\ m + 1 \notin {l \in K : l <= m}
      BY <2>0, <2>1
    <3>2. Cardinality({l \in K : l <= m} \cup {m + 1}) = Cardinality({l \in K : l <= m}) + 1
      BY <1>4, <3>1, FS_AddElement
    <3> QED BY <2>1, <3>1, <3>2 DEF Rank
  <2>2. CASE m + 1 \notin K
    <3>1. {l \in K : l <= m + 1} = {l \in K : l <= m}
      BY <2>0, <2>2
    <3> QED BY <2>2, <3>1 DEF Rank
  <2> QED BY <2>1, <2>2
<1>6. ASSUME NEW m \in Nat, NEW n \in Nat, m <= n
      PROVE  Rank(K, m) <= Rank(K, n)
  <2>0. \A l \in K : l <= m => l <= n
    BY <1>0, <1>6
  <2>1. {l \in K : l <= m} \in SUBSET {l \in K : l <= n}
    BY <2>0
  <2>2. IsFiniteSet({l \in K : l <= n})
    BY <1>4
  <2> QED BY <2>1, <2>2, FS_Subset DEF Rank
<1> QED BY <1>1, <1>2, <1>3, <1>4, <1>5, <1>6

\* The numbers are ranked from one to how many there are, without ties.
LEMMA Ranked ==
    ASSUME NEW L \in Nat, NEW K \in SUBSET (1..L)
    PROVE  /\ \A k \in K : Rank(K, k) \in 1..Cardinality(K)
           /\ \A k, l \in K : Rank(K, k) = Rank(K, l) => k = l
           /\ \A n \in 1..Cardinality(K) : \E k \in K : Rank(K, k) = n
<1>1. /\ IsFiniteSet(K) /\ Cardinality(K) \in Nat
      /\ Rank(K, 0) = 0 /\ Rank(K, L) = Cardinality(K)
      /\ \A m \in Nat : Rank(K, m) \in Nat /\ Rank(K, m) <= Cardinality(K)
      /\ \A m \in Nat :
             Rank(K, m + 1) = IF m + 1 \in K THEN Rank(K, m) + 1 ELSE Rank(K, m)
      /\ \A m, n \in Nat : m <= n => Rank(K, m) <= Rank(K, n)
  BY RankSteps
<1>2. ASSUME NEW k \in K
      PROVE  k - 1 \in Nat /\ k \in Nat /\ Rank(K, k) = Rank(K, k - 1) + 1
  <2>1. PICK m \in Nat : m = k - 1
    OBVIOUS
  <2>2. m + 1 = k
    BY <2>1
  <2>3. Rank(K, m + 1) = Rank(K, m) + 1
    BY <1>1, <2>2
  <2> QED BY <2>1, <2>2, <2>3
<1>3. ASSUME NEW k \in K
      PROVE  Rank(K, k) \in 1..Cardinality(K)
  <2>1. Rank(K, k - 1) \in Nat /\ Rank(K, k) <= Cardinality(K)
    BY <1>1, <1>2
  <2> QED BY <1>1, <1>2, <2>1
<1>4. ASSUME NEW k \in K, NEW l \in K, k < l
      PROVE  Rank(K, k) # Rank(K, l)
  <2>1. k <= l - 1 /\ l - 1 \in Nat /\ k \in Nat
    BY <1>4
  <2>2. Rank(K, k) <= Rank(K, l - 1)
    BY <1>1, <2>1
  <2>3. Rank(K, l) = Rank(K, l - 1) + 1 /\ Rank(K, l - 1) \in Nat /\ Rank(K, k) \in Nat
    BY <1>1, <1>2, <2>1
  <2> QED BY <2>2, <2>3
<1>5. ASSUME NEW n \in 1..Cardinality(K)
      PROVE  \E k \in K : Rank(K, k) = n
  <2> DEFINE S == {m \in Nat : n <= Rank(K, m)}
  <2>1. L \in S
    BY <1>1
  <2>2. PICK m \in S : \A k \in S : m <= k
    <3>1. S \in SUBSET Nat /\ S # {}
      BY <2>1
    <3> QED BY <3>1, Least
  <2>3. m # 0
    BY <1>1, <2>2
  <2>4. PICK j \in Nat : j + 1 = m
    <3>1. m - 1 \in Nat /\ (m - 1) + 1 = m
      BY <2>2, <2>3
    <3> QED BY <3>1
  <2>5. ~(n <= Rank(K, j)) /\ Rank(K, j) \in Nat /\ n <= Rank(K, j + 1)
    <3>1. j < m
      BY <2>4
    <3>2. j \notin S
      BY <2>2, <2>4, <3>1
    <3> QED BY <1>1, <2>2, <2>4, <3>2
  <2>6. Rank(K, j + 1) = IF j + 1 \in K THEN Rank(K, j) + 1 ELSE Rank(K, j)
    BY <1>1
  <2>7. n \in Nat
    BY <1>1
  <2>8. j + 1 \in K
    BY <2>5, <2>6
  <2>9. Rank(K, j + 1) = n
    BY <2>5, <2>6, <2>7, <2>8
  <2> QED BY <2>8, <2>9
<1>6. \A k, l \in K : Rank(K, k) = Rank(K, l) => k = l
  <2>1. \A k, l \in K : k < l \/ l < k \/ k = l
    OBVIOUS
  <2> QED BY <1>4, <2>1
<1> QED BY <1>3, <1>5, <1>6

\* A selector's candidates, less those without its tags.
Wanted(selector, f) ==
    /\ f \in Candidates(selector)
    /\ selector.tags = {} \/ Tags[f] \cap selector.tags # {}
Named(selector) == {k \in DOMAIN Sorted : Wanted(selector, Sorted[k])}

LEMMA Resolved ==
    ASSUME NEW selector
    PROVE  /\ Resolve(selector) \in Seq(Files) /\ IsInjective(Resolve(selector))
           /\ \A f \in Files : f \in ToSet(Resolve(selector)) <=> Wanted(selector, f)
<1> DEFINE K == Named(selector)
           L == Len(Sorted)
           Nth(n) == CHOOSE k \in K : Rank(K, k) = n
           r == [n \in 1..Cardinality(K) |-> Sorted[Nth(n)]]
<1>1. Resolve(selector) = r
  BY DEF Resolve, Named, Wanted, Rank
<1>2. Sorted \in Seq(Files) /\ ToSet(Sorted) = Files /\ IsInjective(Sorted) /\ L \in Nat
      /\ DOMAIN Sorted = 1..L
  BY Tree
<1>3. K \in SUBSET (1..L)
  BY <1>2 DEF Named
<1>4. \A k \in K : Sorted[k] \in Files /\ Wanted(selector, Sorted[k]) /\ k \in 1..L
  BY <1>2, <1>3 DEF Named
<1>5. \A k \in 1..L : Wanted(selector, Sorted[k]) => k \in K
  BY <1>2 DEF Named
<1> HIDE DEF K, L
<1>6. /\ \A k \in K : Rank(K, k) \in 1..Cardinality(K)
      /\ \A k, l \in K : Rank(K, k) = Rank(K, l) => k = l
      /\ \A n \in 1..Cardinality(K) : \E k \in K : Rank(K, k) = n
      /\ Cardinality(K) \in Nat
  BY <1>2, <1>3, Ranked, RankSteps
<1>7. \A n \in 1..Cardinality(K) : Nth(n) \in K /\ Rank(K, Nth(n)) = n
  BY <1>6
<1>8. \A k \in K : Nth(Rank(K, k)) = k
  BY <1>6, <1>7
<1> HIDE DEF Nth
<1>9. r \in Seq(Files) /\ DOMAIN r = 1..Cardinality(K)
  BY <1>4, <1>6, <1>7
<1>10. \A n \in 1..Cardinality(K) : r[n] = Sorted[Nth(n)]
  OBVIOUS
<1> HIDE DEF r
<1>11. IsInjective(r)
  <2>1. ASSUME NEW m \in 1..Cardinality(K), NEW n \in 1..Cardinality(K), r[m] = r[n]
        PROVE  m = n
    <3>1. Nth(m) = Nth(n)
      BY <1>2, <1>4, <1>7, <1>10, <2>1 DEF IsInjective
    <3> QED BY <1>7, <3>1
  <2> QED BY <1>9, <2>1 DEF IsInjective
<1>12. ASSUME NEW f \in Files
       PROVE  f \in ToSet(r) <=> Wanted(selector, f)
  <2>1. ASSUME f \in ToSet(r)
        PROVE  Wanted(selector, f)
    <3>1. PICK n \in 1..Cardinality(K) : f = r[n]
      BY <1>9, <2>1 DEF ToSet
    <3> QED BY <1>4, <1>7, <1>10, <3>1
  <2>2. ASSUME Wanted(selector, f)
        PROVE  f \in ToSet(r)
    <3>1. PICK k \in 1..L : f = Sorted[k]
      BY <1>2 DEF ToSet
    <3>2. k \in K
      BY <1>5, <2>2, <3>1
    <3>3. PICK n \in 1..Cardinality(K) : n = Rank(K, k)
      BY <1>6, <3>2
    <3>4. r[n] = f
      BY <1>8, <1>10, <3>1, <3>2, <3>3
    <3> QED BY <1>9, <3>4 DEF ToSet
  <2> QED BY <2>1, <2>2
<1> QED BY <1>1, <1>9, <1>11, <1>12

\* A path that a search directory leads to, by what is above it and what is below.
LEMMA Prefixed ==
    ASSUME NEW path \in Seq(STRING), NEW dir \in Seq(STRING)
    PROVE  IsStrictPrefix(dir, path) <=>
               \E n \in 0..Len(path) - 1 : n = Len(dir) /\ SubSeq(path, 1, n) = dir
<1>1. SubSeq(dir, 1, Len(dir)) = dir
  OBVIOUS
<1>2. Len(dir) \in Nat /\ Len(path) \in Nat
  OBVIOUS
<1>3. ASSUME IsStrictPrefix(dir, path)
      PROVE  \E n \in 0..Len(path) - 1 : n = Len(dir) /\ SubSeq(path, 1, n) = dir
  <2>1. Len(dir) <= Len(path) /\ SubSeq(path, 1, Len(dir)) = dir /\ dir # path
    BY <1>1, <1>3 DEF IsStrictPrefix, IsPrefix
  <2>2. SubSeq(path, 1, Len(path)) = path
    OBVIOUS
  <2>3. Len(dir) # Len(path)
    BY <2>1, <2>2
  <2>4. Len(dir) \in 0..Len(path) - 1
    BY <1>2, <2>1, <2>3
  <2> QED BY <2>1, <2>4
<1>4. ASSUME NEW n \in 0..Len(path) - 1, n = Len(dir), SubSeq(path, 1, n) = dir
      PROVE  IsStrictPrefix(dir, path)
  <2>1. Len(dir) < Len(path)
    BY <1>2, <1>4
  <2>2. dir # path
    BY <1>2, <2>1
  <2> QED BY <1>1, <1>2, <1>4, <2>1, <2>2 DEF IsStrictPrefix, IsPrefix
<1> QED BY <1>3, <1>4

\* What lies below a search directory, walked or named.
LEMMA NothingHidden ==
    ASSUME NEW path \in Seq(STRING), NEW n \in 0..Len(path) - 1
    PROVE  ToSet(From(path, n + 1)) \cap NotWalked = {} <=>
               \A k \in n + 1..Len(path) : path[k] \notin NotWalked
<1>1. Len(path) \in Nat /\ n \in Nat
  OBVIOUS
<1>2. /\ DOMAIN From(path, n + 1) = 1..Len(path) - n
      /\ \A k \in 1..Len(path) - n : From(path, n + 1)[k] = path[n + k]
  BY <1>1 DEF From
<1>3. ASSUME NEW k \in n + 1..Len(path)
      PROVE  path[k] \in ToSet(From(path, n + 1))
  <2>1. PICK j \in 1..Len(path) - n : n + j = k
    <3>1. k - n \in 1..Len(path) - n /\ n + (k - n) = k
      BY <1>1
    <3> QED BY <3>1
  <2> QED BY <1>2, <2>1 DEF ToSet
<1>4. ASSUME NEW x \in ToSet(From(path, n + 1))
      PROVE  \E k \in n + 1..Len(path) : x = path[k]
  <2>1. PICK j \in 1..Len(path) - n : x = path[n + j]
    BY <1>2 DEF ToSet
  <2>2. n + j \in n + 1..Len(path)
    BY <1>1
  <2> QED BY <2>1, <2>2
<1> QED BY <1>3, <1>4

\* The search finds the files that the selector is documented to name.
LEMMA WantedIsNamed ==
    ASSUME NEW selector, selector.testRoots \subseteq Seq(STRING), NEW f \in Files
    PROVE  Wanted(selector, f) <=> Names(selector, f)
<1> DEFINE Matches(path, n) ==
               \/ selector.globs = {}
               \/ \E glob \in selector.globs : MatchesGlob(From(path, n + 1), glob)
           Tagged == selector.tags = {} \/ Tags[f] \cap selector.tags # {}
           Dirs == SearchDirs(selector.testRoots)
<1>1. Path[f] \in Seq(STRING)
  BY Tree
<1>2. Dirs \subseteq Seq(STRING)
  <2>1. <<>> \in Seq(STRING)
    OBVIOUS
  <2> QED BY <2>1 DEF SearchDirs
<1>3. Names(selector, f) <=>
          /\ f \notin NotYaml /\ Tagged
          /\ \E n \in 0..Len(Path[f]) - 1 :
                 /\ SubSeq(Path[f], 1, n) \in Dirs
                 /\ ToSet(From(Path[f], n + 1)) \cap NotWalked = {}
                 /\ Matches(Path[f], n)
  BY DEF Names
<1>4. Wanted(selector, f) <=>
          /\ Tagged
          /\ \E dir \in Dirs : f \in Walk(dir) /\ Matches(Path[f], Len(dir))
  BY DEF Wanted, Candidates
<1>5. \A dir : f \in Walk(dir) <=>
          /\ f \notin NotYaml /\ IsStrictPrefix(dir, Path[f])
          /\ \A k \in Len(dir) + 1..Len(Path[f]) : Path[f][k] \notin NotWalked
  BY DEF Walk
<1> HIDE DEF Matches, Tagged, Dirs
<1>6. ASSUME NEW dir \in Dirs, f \in Walk(dir), Matches(Path[f], Len(dir))
      PROVE  \E n \in 0..Len(Path[f]) - 1 :
                 /\ SubSeq(Path[f], 1, n) \in Dirs
                 /\ ToSet(From(Path[f], n + 1)) \cap NotWalked = {}
                 /\ Matches(Path[f], n)
  <2>1. PICK n \in 0..Len(Path[f]) - 1 : n = Len(dir) /\ SubSeq(Path[f], 1, n) = dir
    BY <1>1, <1>2, <1>5, <1>6, Prefixed
  <2>2. \A k \in n + 1..Len(Path[f]) : Path[f][k] \notin NotWalked
    BY <1>5, <1>6, <2>1
  <2> QED BY <1>1, <1>6, <2>1, <2>2, NothingHidden
<1>7. ASSUME NEW n \in 0..Len(Path[f]) - 1, SubSeq(Path[f], 1, n) \in Dirs,
             ToSet(From(Path[f], n + 1)) \cap NotWalked = {}, Matches(Path[f], n), f \notin NotYaml
      PROVE  \E dir \in Dirs : f \in Walk(dir) /\ Matches(Path[f], Len(dir))
  <2>1. PICK dir \in Dirs : dir = SubSeq(Path[f], 1, n)
    BY <1>7
  <2>2. n = Len(dir)
    BY <1>1, <2>1
  <2>3. IsStrictPrefix(dir, Path[f])
    BY <1>1, <1>2, <2>1, <2>2, Prefixed
  <2>4. \A k \in n + 1..Len(Path[f]) : Path[f][k] \notin NotWalked
    BY <1>1, <1>7, NothingHidden
  <2>5. f \in Walk(dir)
    BY <1>5, <1>7, <2>2, <2>3, <2>4
  <2> QED BY <1>7, <2>2, <2>5
<1>8. \A dir : f \in Walk(dir) => f \notin NotYaml
  BY <1>5
<1> QED BY <1>3, <1>4, <1>6, <1>7, <1>8

-----------------------------------------------------------------------------
(* The stages of a command.                                                 *)

InEntry == {"entry", "script", "scenario", "child"}

\* The scripts of an entry have all passed.
AllPassed(i) == \A j \in 1..Len(TestFile[entries[i]].scripts) : <<i, j>> \in passed

\* Where a command is: which entry, which results, and whether a run is going on.
Staged ==
    /\ stage \notin {"script", "child"} => result = "idle"
    /\ exit = "running" <=> stage # "exited"
    /\ exit = "misused" => entry = 0 /\ result = "idle"
    /\ stage \in {"flags", "connect"} => entry = 0 /\ results = <<>> /\ statuses = <<>>
    /\ stage = "flags" => entries = <<>>
    /\ stage \in {"connect", "entries", "report"} \cup InEntry => Suite \/ Len(entries) = 1
    /\ stage \in {"entries", "report"} => Len(results) = entry /\ statuses = <<>>
    /\ stage = "entries" /\ ~Suite => entry = 0
    /\ stage \in InEntry => entry > 0 /\ Len(results) = entry - 1
    /\ stage \in {"entry", "script"} => statuses = <<>>
    /\ stage = "report" => entry = Len(entries)

\* A script runs under the override that the command line, its scenario and the project
\* config say, and a scenario within its list.
Entered ==
    /\ stage = "script" => Current.kind = "script" /\ override = PreconditionsFor("none")
    /\ stage \in {"scenario", "child"} => Len(statuses) <= Len(Current.scripts)
    /\ stage = "child" =>
           /\ Len(statuses) < Len(Current.scripts)
           /\ override = PreconditionsFor(Current.pre)

\* What is reported as passed has passed.
Honest ==
    /\ \A i \in 1..Len(results) : results[i] = "passed" => AllPassed(i)
    /\ \A j \in 1..Len(statuses) : statuses[j] = "passed" => <<entry, j>> \in passed
    /\ exit = "passed" => \A i \in 1..Len(entries) : AllPassed(i)

\* The app that an entry finds launched it has launched itself.
Own == launched \in {0, entry}

Chosen == Suite /\ stage = "connect" => entries = Resolve(command) /\ entries # <<>>

SuiteInv ==
    /\ SuiteTypeOK /\ RunnerInv
    /\ Staged /\ Entered /\ Honest /\ Own /\ Chosen

-----------------------------------------------------------------------------
(* What the steps of a command have in common.                              *)

LEMMA Facts ==
    ASSUME SuiteInv
    PROVE  /\ SuiteTypeOK /\ TypeOK /\ RunnerInv /\ Staged /\ Entered /\ Honest /\ Own /\ Chosen
           /\ command \in Commands /\ cliPre \in Overrides /\ configPre \in Overrides
           /\ Suite => command.testRoots \subseteq Seq(STRING)
           /\ ~Suite => command.file \in Files
           /\ entries \in Seq(Files) /\ Len(entries) \in Nat /\ entry \in 0..Len(entries)
           /\ results \in Seq({"passed", "failed"}) /\ Len(results) \in Nat
           /\ statuses \in Seq({"passed", "failed", "errored", "skipped"}) /\ Len(statuses) \in Nat
<1>1. SuiteTypeOK /\ TypeOK /\ RunnerInv /\ Staged /\ Entered /\ Honest /\ Own /\ Chosen
  BY DEF SuiteInv, SuiteTypeOK
<1>2. command \in Commands /\ cliPre \in Overrides /\ configPre \in Overrides
  BY <1>1, CommandShape DEF SuiteTypeOK
<1>3. (Suite => command.testRoots \subseteq Seq(STRING)) /\ (~Suite => command.file \in Files)
  BY <1>2, CommandShape DEF Suite
<1>4. /\ entries \in Seq(Files) /\ Len(entries) \in Nat /\ entry \in 0..Len(entries)
      /\ results \in Seq({"passed", "failed"}) /\ Len(results) \in Nat
      /\ statuses \in Seq({"passed", "failed", "errored", "skipped"}) /\ Len(statuses) \in Nat
  BY <1>1 DEF SuiteTypeOK
<1> QED BY <1>1, <1>2, <1>3, <1>4

LEMMA EntryFacts ==
    ASSUME SuiteInv, stage \in InEntry
    PROVE  /\ entry \in 1..Len(entries) /\ entry \in Nat /\ Current.scripts \in Seq(Flows)
           /\ Len(Current.scripts) \in Nat /\ Current.pre \in Overrides
           /\ Current.kind = "script" => Len(Current.scripts) = 1
           /\ Len(results) + 1 = entry
<1>1. /\ entries \in Seq(Files) /\ Len(entries) \in Nat /\ entry \in 0..Len(entries)
      /\ Len(results) \in Nat /\ entry > 0 /\ Len(results) = entry - 1
  BY Facts DEF Staged
<1>2. PICK n \in 1..Len(entries) : n = entry
  BY <1>1
<1>3. entries[n] \in Files
  BY <1>1, ElementOf
<1>4. PICK f \in Files : f = entries[entry]
  BY <1>2, <1>3
<1>5. TestFile[f] \in [kind : {"script", "scenario"}, scripts : Seq(Flows),
                       onFailure : {"stop", "continue"}, pre : Overrides]
      /\ (TestFile[f].kind = "script" => Len(TestFile[f].scripts) = 1)
  BY CommandShape
<1>6. Current = TestFile[f]
  BY <1>4 DEF Current
<1>7. Len(results) + 1 = entry
  BY <1>1
<1> QED BY <1>1, <1>2, <1>5, <1>6, <1>7

LEMMA SuiteTypeFrom ==
    ASSUME RunnerInv', command' \in Commands, cliPre' \in CliPre, configPre' \in ConfigPre,
           stage' \in Stages, entries' \in Seq(Files), entry' \in 0..Len(entries'),
           statuses' \in Seq({"passed", "failed", "errored", "skipped"}),
           results' \in Seq({"passed", "failed"}), connected' \in BOOLEAN,
           exit' \in {"running", "passed", "failed", "misused"},
           passed' \subseteq (1..Len(entries')) \X Nat
    PROVE  SuiteTypeOK'
BY DEF SuiteTypeOK, RunnerInv

\* The runner is left alone.
LEMMA SameRunner ==
    ASSUME RunnerInv, UNCHANGED runnerVars
    PROVE  RunnerInv'
<1>1. UNCHANGED <<entry, main, loader, override, frames, ret, depth, index, open, completed,
                  setups, ctxDone, result, abort, launched, captured, confirmed, failed, late,
                  refused, adapter, file, begun, restarts, buffer, lastSize, mark, blind>>
  BY DEF runnerVars, runVars, captureVars, proxyFile, reader
<1>2. TypeOK /\ Shape /\ Nesting /\ Indices /\ Late /\ Unwinding /\ Gates /\ Fresh /\ Dropped
  BY DEF RunnerInv
<1>3. Shape' /\ Nesting' /\ Indices' /\ Late' /\ Unwinding' /\ Gates'
  BY <1>1, <1>2, CallsSame
<1>4. CaptureTypeOK /\ Unmixed
  BY <1>2 DEF TypeOK, Fresh
<1>5. CaptureTypeOK'
  BY <1>1, <1>4 DEF CaptureTypeOK, Requests, Halves
<1>6. Unmixed'
  BY <1>1, <1>4 DEF Unmixed
<1>7. TypeOK'
  <2>1. /\ entry' \in Nat /\ main' \in Flows /\ loader' \in BOOLEAN
        /\ override' \in {"none", "skip", "force"} /\ frames' \in Seq(Calls)
        /\ ret' \in {"none", "ok", "fail"} /\ depth' \in Nat /\ index' \in Nat /\ late' \in Nat
        /\ open' \in Seq([index : Nat, depth : Nat]) /\ completed' \subseteq Flows
        /\ setups' \subseteq Flows /\ failed' \in BOOLEAN /\ ctxDone' \in BOOLEAN
        /\ result' \in {"idle", "running", "ok", "failed", "error"}
        /\ abort' \in {"none", "proxyRequired", "deviceLost"} /\ launched' \in Nat
        /\ captured' \in 0..begun' /\ confirmed' \subseteq Flows \X Nat /\ refused' \in BOOLEAN
    BY <1>1, <1>2 DEF TypeOK
  <2> QED BY <1>5, <2>1, TypeFrom
<1>8. Fresh' /\ Dropped'
  BY <1>1, <1>2, <1>6 DEF Fresh, Dropped
<1> QED BY <1>3, <1>7, <1>8 DEF RunnerInv

\* A command may leave from wherever it is.
LEMMA ExitKeeps ==
    ASSUME SuiteInv, RunnerInv', NEW code \in {"passed", "failed", "misused"}, Exit(code),
           result' = "idle", UNCHANGED <<entry, launched>>, passed \subseteq passed',
           passed' \subseteq (1..Len(entries)) \X Nat, code = "misused" => entry = 0,
           code = "passed" => \A i \in 1..Len(entries) : AllPassed(i)
    PROVE  SuiteInv'
<1>1. /\ SuiteTypeOK /\ Honest /\ Own /\ entry \in 0..Len(entries)
  BY Facts
<1>2. /\ UNCHANGED <<command, cliPre, configPre, entries, statuses, results>>
      /\ exit' = code /\ stage' = "exited" /\ connected' = FALSE
  BY DEF Exit, commandLine
<1>3. SuiteTypeOK'
  <2>1. stage' \in Stages /\ connected' \in BOOLEAN /\ exit' \in {"running", "passed", "failed", "misused"}
    BY <1>2 DEF Stages
  <2> QED BY <1>1, <1>2, <2>1, SuiteTypeFrom DEF SuiteTypeOK
<1>4. Staged' /\ Entered' /\ Own' /\ Chosen'
  BY <1>1, <1>2 DEF Staged, Entered, Own, Chosen, InEntry
<1>5. \A i : AllPassed(i) => AllPassed(i)'
  BY <1>2 DEF AllPassed
<1>6. Honest'
  BY <1>1, <1>2, <1>5 DEF Honest
<1> QED BY <1>3, <1>4, <1>6 DEF SuiteInv

-----------------------------------------------------------------------------
(* From the flags to the first entry.                                       *)

LEMMA SelectKeeps ==
    ASSUME SuiteInv, SelectFlows \/ OpenFile
    PROVE  SuiteInv'
<1>1. /\ SuiteTypeOK /\ RunnerInv /\ Staged /\ Entered /\ Honest /\ Own /\ Chosen
      /\ ~Suite => command.file \in Files
      /\ entry = 0 /\ result = "idle" /\ results = <<>> /\ statuses = <<>> /\ entries = <<>>
      /\ stage = "flags" /\ exit = "running"
  BY Facts DEF SelectFlows, OpenFile, Staged
<1>2. passed' = passed /\ UNCHANGED runnerVars /\ RunnerInv'
  BY <1>1, SameRunner DEF SelectFlows, OpenFile
<1>3. UNCHANGED <<entry, launched, result, override>>
  BY <1>2 DEF runnerVars, runVars
<1>4. passed = {}
  BY <1>1 DEF SuiteTypeOK
<1>5. ASSUME NEW code \in {"misused", "failed"}, Exit(code)
      PROVE  SuiteInv'
  BY <1>1, <1>2, <1>3, <1>4, <1>5, ExitKeeps
<1>6. ASSUME entries' \in Seq(Files), Suite \/ Len(entries') = 1,
             Suite => entries' = Resolve(command) /\ entries' # <<>>, stage' = "connect",
             UNCHANGED <<commandLine, statuses, results, connected, exit>>
      PROVE  SuiteInv'
  <2>1. UNCHANGED <<command, cliPre, configPre>>
    BY <1>6 DEF commandLine
  <2>2. SuiteTypeOK'
    <3>1. entry' \in 0..Len(entries')
      BY <1>1, <1>3, <1>6
    <3> QED BY <1>1, <1>2, <1>4, <1>6, <2>1, <3>1, SuiteTypeFrom DEF SuiteTypeOK, Stages
  <2>3. Staged' /\ Entered' /\ Own' /\ Chosen'
    BY <1>1, <1>3, <1>6, <2>1 DEF Staged, Entered, Own, Chosen, InEntry, Suite
  <2>4. Honest'
    <3>1. Len(results') = 0 /\ Len(statuses') = 0 /\ exit' = "running"
      BY <1>1, <1>6
    <3>2. \A i \in 1..0 : FALSE
      OBVIOUS
    <3> QED BY <3>1, <3>2 DEF Honest
  <2> QED BY <1>2, <2>2, <2>3, <2>4 DEF SuiteInv
<1>7. CASE SelectFlows
  BY <1>5, <1>6, <1>7, Resolved DEF SelectFlows
<1>8. CASE OpenFile
  <2>1. CASE entries' = <<command.file>> /\ stage' = "connect"
             /\ UNCHANGED <<commandLine, statuses, results, connected, exit>>
    <3>1. entries' \in Seq(Files) /\ Len(entries') = 1 /\ ~Suite
      BY <1>1, <1>8, <2>1 DEF OpenFile
    <3> QED BY <1>6, <2>1, <3>1
  <2> QED BY <1>5, <1>8, <2>1 DEF OpenFile
<1> QED BY <1>7, <1>8

\* A stage that only leads to another one.
LEMMA GoKeeps ==
    ASSUME SuiteInv, RunnerInv', result' = "idle", UNCHANGED <<override, progress>>,
           stage' \in Stages \ {"flags", "connect", "script", "child", "exited"},
           UNCHANGED <<commandLine, entries, exit>>, exit = "running", connected' \in BOOLEAN,
           entry' \in 0..Len(entries), launched' \in {0, entry'},
           Suite \/ Len(entries) = 1, statuses = <<>>,
           stage' \in {"entries", "report"} => Len(results) = entry',
           stage' = "entries" /\ ~Suite => entry' = 0,
           stage' \in InEntry => entry' > 0 /\ Len(results) = entry' - 1,
           stage' = "report" => entry' = Len(entries)
    PROVE  SuiteInv'
<1>1. UNCHANGED <<command, cliPre, configPre, statuses, results, passed>>
  BY DEF commandLine, progress
<1>2. /\ SuiteTypeOK /\ Honest /\ entries \in Seq(Files)
  BY Facts
<1>3. SuiteTypeOK'
  BY <1>1, <1>2, SuiteTypeFrom DEF SuiteTypeOK
<1>4. Staged'
  BY <1>1 DEF Staged, InEntry, Suite
<1>5. Entered'
  <2>1. CASE stage' = "scenario"
    <3>1. entry' \in 1..Len(entries)
      BY <1>2, <2>1 DEF InEntry
    <3>2. PICK n \in 1..Len(entries) : n = entry'
      BY <3>1
    <3>3. PICK f \in Files : f = entries[n]
      BY <1>2, <3>2, ElementOf
    <3>4. TestFile[f].scripts \in Seq(Flows)
      BY CommandShape
    <3>5. Current' = TestFile[f]
      BY <3>2, <3>3 DEF Current
    <3>6. Len(TestFile[f].scripts) \in Nat /\ Len(statuses') = 0
      BY <1>1, <3>4
    <3>7. Len(statuses') <= Len(Current'.scripts)
      BY <3>5, <3>6
    <3> QED BY <2>1, <3>7 DEF Entered
  <2>2. CASE stage' # "scenario"
    BY <2>2 DEF Entered
  <2> QED BY <2>1, <2>2
<1>6. \A i : AllPassed(i) => AllPassed(i)'
  BY <1>1 DEF AllPassed
<1>7. Honest'
  <2>1. \A j \in 1..Len(statuses') : FALSE
    BY <1>1
  <2> QED BY <1>1, <1>2, <1>6, <2>1 DEF Honest
<1>8. Own' /\ Chosen'
  BY DEF Own, Chosen
<1> QED BY <1>3, <1>4, <1>5, <1>7, <1>8 DEF SuiteInv

LEMMA ConnectKeeps ==
    ASSUME SuiteInv, Connect
    PROVE  SuiteInv'
<1>1. /\ SuiteTypeOK /\ RunnerInv /\ Staged /\ Own /\ stage = "connect"
      /\ entry = 0 /\ result = "idle" /\ results = <<>> /\ statuses = <<>> /\ exit = "running"
      /\ Suite \/ Len(entries) = 1
      /\ entry \in 0..Len(entries)
  BY Facts DEF Connect, Staged
<1>2. passed' = passed /\ UNCHANGED runnerVars /\ RunnerInv'
  BY <1>1, SameRunner DEF Connect
<1>3. UNCHANGED <<entry, launched, result, override>>
  BY <1>2 DEF runnerVars, runVars
<1>4. CASE Exit("failed")
  <2>1. passed' \subseteq (1..Len(entries)) \X Nat
    BY <1>1, <1>2 DEF SuiteTypeOK
  <2> QED BY <1>1, <1>2, <1>3, <1>4, <2>1, ExitKeeps
<1>5. CASE stage' = "entries" /\ connected' = TRUE
           /\ UNCHANGED <<commandLine, entries, statuses, results, exit>>
  <2>1. Len(results) = 0 /\ UNCHANGED progress
    BY <1>1, <1>2, <1>5 DEF progress
  <2> QED BY <1>1, <1>2, <1>3, <1>5, <2>1, GoKeeps DEF Own, Stages, InEntry
<1> QED BY <1>4, <1>5 DEF Connect

LEMMA BeginKeeps ==
    ASSUME SuiteInv, BeginEntry \/ BeginFile \/ SuiteEnds
    PROVE  SuiteInv'
<1>1. /\ SuiteTypeOK /\ RunnerInv /\ Staged /\ Own /\ stage = "entries" /\ result = "idle"
      /\ Len(results) = entry /\ statuses = <<>> /\ exit = "running" /\ connected \in BOOLEAN
      /\ Suite \/ Len(entries) = 1
      /\ ~Suite => entry = 0
      /\ entry \in 0..Len(entries) /\ Len(entries) \in Nat /\ entry \in Nat
  <2>1. entry \in 0..Len(entries) /\ Len(entries) \in Nat
    BY Facts
  <2>2. stage = "entries" /\ connected \in BOOLEAN
    BY Facts DEF BeginEntry, BeginFile, SuiteEnds, SuiteTypeOK
  <2> QED BY <2>1, <2>2, Facts DEF Staged
<1>2. UNCHANGED <<commandLine, entries, connected, exit, progress>>
  BY DEF BeginEntry, BeginFile, SuiteEnds, Go
<1>3. CASE BeginEntry
  <2>1. /\ entry' = entry + 1 /\ launched' = 0 /\ ResetCapture /\ stage' = "entry"
        /\ entry < Len(entries)
        /\ UNCHANGED <<main, loader, override, frames, ret, depth, index, open, completed, setups,
                       ctxDone, result, abort, captured, adapter, proxyFile, confirmed, failed,
                       late, refused>>
    BY <1>3 DEF BeginEntry, Go, events, dedup, outcome
  <2>2. entry' \in 0..Len(entries) /\ entry' > 0 /\ Len(results) = entry' - 1 /\ entry' \in Nat
    BY <1>1, <2>1
  <2>3. RunnerInv'
    BY <1>1, <2>1, <2>2, EntryKeeps
  <2> QED BY <1>1, <1>2, <2>1, <2>2, <2>3, GoKeeps DEF Stages, InEntry
<1>4. CASE BeginFile
  <2>1. /\ entry' = 1 /\ stage' = "entry" /\ ~Suite
        /\ UNCHANGED <<main, loader, override, frames, ret, depth, index, open, completed, setups,
                       ctxDone, result, abort, launched, captured, adapter, proxyFile, reader,
                       mark, blind, confirmed, failed, late, refused>>
    BY <1>4 DEF BeginFile, Go, events, dedup, outcome, device, captureVars
  <2>2. entry' \in 0..Len(entries) /\ entry' > 0 /\ Len(results) = entry' - 1 /\ entry' \in Nat
    BY <1>1, <2>1
  <2>3. launched' = 0
    BY <1>1, <2>1 DEF Own
  <2>4. RunnerInv'
    BY <1>1, <2>1, <2>2, EntryKeeps
  <2> QED BY <1>1, <1>2, <2>1, <2>2, <2>3, <2>4, GoKeeps DEF Stages, InEntry
<1>5. CASE SuiteEnds
  <2>1. stage' = "report" /\ UNCHANGED runnerVars /\ entry = Len(entries)
    BY <1>5 DEF SuiteEnds, Go
  <2>2. UNCHANGED <<entry, launched, result, override>>
    BY <2>1 DEF runnerVars, runVars
  <2>3. RunnerInv'
    BY <1>1, <2>1, SameRunner
  <2> QED BY <1>1, <1>2, <2>1, <2>2, <2>3, GoKeeps DEF Stages, InEntry, Own
<1> QED BY <1>3, <1>4, <1>5

-----------------------------------------------------------------------------
(* Entries, scenarios and scripts.                                          *)

\* An entry has its result.
LEMMA ResultKeeps ==
    ASSUME SuiteInv, RunnerInv', stage \in InEntry, result' = "idle",
           NEW r \in {"passed", "failed"}, results' = Append(results, r), statuses' = <<>>,
           stage' = IF Suite THEN "entries" ELSE "report",
           UNCHANGED <<commandLine, entries, connected, exit, entry, launched>>,
           passed \subseteq passed', passed' \subseteq (1..Len(entries)) \X Nat,
           r = "passed" => AllPassed(entry)'
    PROVE  SuiteInv'
<1>1. /\ SuiteTypeOK /\ Staged /\ Honest /\ Own /\ entries \in Seq(Files) /\ Len(entries) \in Nat
      /\ results \in Seq({"passed", "failed"}) /\ Len(results) \in Nat
      /\ entry \in 1..Len(entries) /\ Len(results) + 1 = entry /\ entry \in 0..Len(entries)
  BY Facts, EntryFacts
<1>2. /\ exit = "running" /\ (Suite \/ Len(entries) = 1)
  BY <1>1 DEF Staged, InEntry
<1>3. UNCHANGED <<command, cliPre, configPre>>
  BY DEF commandLine
<1>4. /\ results' \in Seq({"passed", "failed"}) /\ Len(results') = Len(results) + 1
      /\ results'[Len(results) + 1] = r
      /\ \A i \in 1..Len(results) : results'[i] = results[i]
  BY <1>1
<1>5. SuiteTypeOK'
  <2>1. stage' \in Stages /\ statuses' \in Seq({"passed", "failed", "errored", "skipped"})
    BY DEF Stages
  <2> QED BY <1>1, <1>3, <1>4, <2>1, SuiteTypeFrom DEF SuiteTypeOK
<1>6. Staged'
  <2>1. Len(results') = entry'
    BY <1>1, <1>4
  <2>2. ~Suite => entry' = Len(entries')
    BY <1>1, <1>2
  <2> QED BY <1>2, <1>3, <2>1, <2>2 DEF Staged, InEntry, Suite
<1>7. Entered' /\ Own' /\ Chosen'
  BY <1>1 DEF Entered, Own, Chosen
<1>8. \A i : AllPassed(i) => AllPassed(i)'
  BY DEF AllPassed
<1>9. Honest'
  <2>1. ASSUME NEW i \in 1..Len(results'), results'[i] = "passed"
        PROVE  AllPassed(i)'
    <3>1. CASE i \in 1..Len(results)
      BY <1>1, <1>4, <1>8, <2>1, <3>1 DEF Honest
    <3>2. CASE i = Len(results) + 1
      BY <1>1, <1>4, <2>1, <3>2 DEF AllPassed
    <3>3. i \in 1..Len(results) \/ i = Len(results) + 1
      BY <1>1, <1>4
    <3> QED BY <3>1, <3>2, <3>3
  <2>2. \A j \in 1..Len(statuses') : FALSE
    OBVIOUS
  <2> QED BY <1>2, <2>1, <2>2 DEF Honest
<1> QED BY <1>5, <1>6, <1>7, <1>9 DEF SuiteInv

\* A script of a scenario has its status.
LEMMA StatusKeeps ==
    ASSUME SuiteInv, RunnerInv', stage \in {"scenario", "child"}, result' = "idle",
           NEW status \in {"passed", "failed", "errored", "skipped"}, AddStatus(status),
           Go("scenario"), UNCHANGED <<results, entry, launched>>,
           passed \subseteq passed', passed' \subseteq (1..Len(entries)) \X Nat,
           status = "passed" => <<entry, Child>> \in passed',
           Len(statuses) < Len(Current.scripts)
    PROVE  SuiteInv'
<1>1. /\ SuiteTypeOK /\ Staged /\ Honest /\ Own /\ entries \in Seq(Files) /\ Len(entries) \in Nat
      /\ statuses \in Seq({"passed", "failed", "errored", "skipped"}) /\ Len(statuses) \in Nat
      /\ entry \in 1..Len(entries) /\ entry \in 0..Len(entries) /\ Len(Current.scripts) \in Nat
  BY Facts, EntryFacts DEF InEntry
<1>2. /\ exit = "running" /\ (Suite \/ Len(entries) = 1) /\ entry > 0 /\ Len(results) = entry - 1
  BY <1>1 DEF Staged, InEntry
<1>3. UNCHANGED <<command, cliPre, configPre, entries, connected, exit>> /\ stage' = "scenario"
  BY DEF Go, commandLine
<1>4. /\ statuses' \in Seq({"passed", "failed", "errored", "skipped"})
      /\ Len(statuses') = Len(statuses) + 1 /\ statuses'[Len(statuses) + 1] = status
      /\ \A j \in 1..Len(statuses) : statuses'[j] = statuses[j]
  BY <1>1 DEF AddStatus
<1>5. SuiteTypeOK'
  BY <1>1, <1>3, <1>4, SuiteTypeFrom DEF SuiteTypeOK, Stages
<1>6. Staged'
  BY <1>2, <1>3 DEF Staged, InEntry, Suite
<1>7. Entered'
  <2>1. Current' = Current
    BY <1>3 DEF Current
  <2>2. Len(statuses') <= Len(Current.scripts)
    BY <1>1, <1>4
  <2> QED BY <1>3, <2>1, <2>2 DEF Entered
<1>8. Own' /\ Chosen'
  BY <1>1, <1>3 DEF Own, Chosen
<1>9. \A i : AllPassed(i) => AllPassed(i)'
  BY <1>3 DEF AllPassed
<1>10. Honest'
  <2>1. ASSUME NEW j \in 1..Len(statuses'), statuses'[j] = "passed"
        PROVE  <<entry', j>> \in passed'
    <3>1. CASE j \in 1..Len(statuses)
      BY <1>1, <1>4, <2>1, <3>1 DEF Honest
    <3>2. CASE j = Len(statuses) + 1
      BY <1>4, <2>1, <3>2 DEF Child
    <3>3. j \in 1..Len(statuses) \/ j = Len(statuses) + 1
      BY <1>1, <1>4
    <3> QED BY <3>1, <3>2, <3>3
  <2> QED BY <1>1, <1>2, <1>3, <1>9, <2>1 DEF Honest
<1> QED BY <1>5, <1>6, <1>7, <1>8, <1>10 DEF SuiteInv

\* An entry that gave no result.
LEMMA BrokenKeeps ==
    ASSUME SuiteInv, EntryBroken, stage \in {"entry", "scenario"}, UNCHANGED runnerVars
    PROVE  SuiteInv'
<1>1. /\ SuiteTypeOK /\ RunnerInv /\ Staged
  BY Facts
<1>2. UNCHANGED <<entry, launched, result, passed>> /\ result' = "idle" /\ RunnerInv'
  BY <1>1, SameRunner DEF runnerVars, runVars, EntryBroken, Staged
<1>3. passed' \subseteq (1..Len(entries)) \X Nat
  BY <1>1, <1>2 DEF SuiteTypeOK
<1>4. CASE Suite
  <2>1. /\ results' = Append(results, "failed") /\ statuses' = <<>> /\ stage' = "entries"
        /\ UNCHANGED <<commandLine, entries, connected, exit>>
    BY <1>4 DEF EntryBroken, Go
  <2> QED BY <1>2, <1>3, <1>4, <2>1, ResultKeeps DEF InEntry
<1>5. CASE ~Suite
  BY <1>2, <1>3, <1>5, ExitKeeps DEF EntryBroken
<1> QED BY <1>4, <1>5

\* A script runs.
LEMMA ScriptKeeps ==
    ASSUME SuiteInv, RunScriptEntry \/ RunChild
    PROVE  SuiteInv'
<1>1. /\ SuiteTypeOK /\ RunnerInv /\ Staged /\ Honest /\ Own
      /\ cliPre \in Overrides /\ configPre \in Overrides
  BY Facts
<1>2. stage \in {"entry", "scenario"}
  BY DEF RunScriptEntry, RunChild, MoreScripts
<1>3. /\ Current.scripts \in Seq(Flows) /\ Len(Current.scripts) \in Nat /\ Current.pre \in Overrides
      /\ Current.kind = "script" => Len(Current.scripts) = 1
      /\ Len(statuses) \in Nat
  BY <1>2, Facts, EntryFacts DEF InEntry
<1>4. UNCHANGED <<command, cliPre, configPre, entries, connected, exit, statuses, results, passed>>
  BY DEF RunScriptEntry, RunChild, Go, progress, commandLine
<1>5. \A level \in Overrides : PreconditionsFor(level) \in {"none", "skip", "force"}
  BY <1>1 DEF PreconditionsFor, Overrides
<1>6. "none" \in Overrides
  BY DEF Overrides
<1>7. CASE RunScriptEntry
  <2>1. Current.scripts[1] \in Flows /\ Current.kind = "script" /\ stage = "entry"
    <3>1. Current.kind = "script" /\ stage = "entry"
      BY <1>7 DEF RunScriptEntry
    <3>2. 1 \in 1..Len(Current.scripts)
      BY <1>3, <3>1
    <3> QED BY <1>3, <3>1, <3>2, ElementOf
  <2>2. PICK script \in Flows : script = Current.scripts[1]
    BY <2>1
  <2>3. PICK level \in {"none", "skip", "force"} : level = PreconditionsFor("none")
    BY <1>5, <1>6
  <2>4. StartRun(script, ~Suite, level) /\ stage' = "script"
    BY <1>7, <2>2, <2>3 DEF RunScriptEntry, Go
  <2>5. RunnerInv'
    BY <1>1, <2>4, StartKeeps
  <2>6. UNCHANGED <<entry, launched>> /\ override' = level /\ result' = "running"
    BY <2>4 DEF StartRun
  <2>7. SuiteTypeOK'
    BY <1>1, <1>4, <2>4, <2>5, <2>6, SuiteTypeFrom DEF SuiteTypeOK, Stages
  <2>8. Staged'
    BY <1>1, <1>4, <2>1, <2>4, <2>6 DEF Staged, InEntry, Suite
  <2>9. Entered'
    <3>1. Current'.kind = "script"
      BY <1>4, <2>1, <2>6 DEF Current
    <3>2. override' = PreconditionsFor("none")'
      BY <1>4, <2>3, <2>6 DEF PreconditionsFor
    <3> QED BY <2>4, <3>1, <3>2 DEF Entered
  <2>10. Honest' /\ Own' /\ Chosen'
    BY <1>1, <1>4, <2>4, <2>6 DEF Honest, AllPassed, Own, Chosen
  <2> QED BY <2>5, <2>7, <2>8, <2>9, <2>10 DEF SuiteInv
<1>8. CASE RunChild
  <2>1. Current.scripts[Child] \in Flows /\ stage = "scenario" /\ Len(statuses) < Len(Current.scripts)
    <3>1. Len(statuses) < Len(Current.scripts) /\ stage = "scenario"
      BY <1>8 DEF RunChild, MoreScripts
    <3>2. PICK k \in 1..Len(Current.scripts) : k = Child
      BY <1>3, <3>1 DEF Child
    <3>3. Current.scripts[k] \in Flows
      BY <1>3, ElementOf
    <3> QED BY <3>1, <3>2, <3>3
  <2>2. PICK script \in Flows : script = Current.scripts[Child]
    BY <2>1
  <2>3. PICK level \in {"none", "skip", "force"} : level = PreconditionsFor(Current.pre)
    BY <1>3, <1>5
  <2>4. StartRun(script, FALSE, level) /\ stage' = "child"
    BY <1>8, <2>2, <2>3 DEF RunChild, Go
  <2>5. RunnerInv'
    BY <1>1, <2>4, StartKeeps
  <2>6. UNCHANGED <<entry, launched>> /\ override' = level /\ result' = "running"
    BY <2>4 DEF StartRun
  <2>7. SuiteTypeOK'
    BY <1>1, <1>4, <2>4, <2>5, <2>6, SuiteTypeFrom DEF SuiteTypeOK, Stages
  <2>8. Staged'
    BY <1>1, <1>4, <2>1, <2>4, <2>6 DEF Staged, InEntry, Suite
  <2>9. Entered'
    <3>1. Current' = Current
      BY <1>4, <2>6 DEF Current
    <3>2. override' = PreconditionsFor(Current.pre)'
      BY <1>4, <2>3, <2>6, <3>1 DEF PreconditionsFor
    <3>3. Len(statuses') < Len(Current'.scripts) /\ Len(statuses') <= Len(Current'.scripts)
      BY <1>3, <1>4, <2>1, <3>1
    <3> QED BY <2>4, <3>2, <3>3 DEF Entered
  <2>10. Honest' /\ Own' /\ Chosen'
    BY <1>1, <1>4, <2>4, <2>6 DEF Honest, AllPassed, Own, Chosen
  <2> QED BY <2>5, <2>7, <2>8, <2>9, <2>10 DEF SuiteInv
<1> QED BY <1>7, <1>8

LEMMA LeaveKeeps ==
    ASSUME SuiteInv, Misuse \/ SuiteCancelled \/ EntryUnparsable \/ ScenarioCancelled
    PROVE  SuiteInv'
<1>1. /\ SuiteTypeOK /\ RunnerInv /\ Staged
  BY Facts
<1>2. passed' = passed /\ UNCHANGED runnerVars
  BY DEF Misuse, SuiteCancelled, EntryUnparsable, ScenarioCancelled, EntryBroken
<1>3. RunnerInv' /\ UNCHANGED <<entry, launched, result>> /\ passed' \subseteq (1..Len(entries)) \X Nat
  BY <1>1, <1>2, SameRunner DEF runnerVars, runVars, SuiteTypeOK
<1>4. CASE Misuse
  <2>1. Exit("misused") /\ entry = 0 /\ result' = "idle"
    BY <1>1, <1>3, <1>4 DEF Misuse, Staged
  <2> QED BY <1>2, <1>3, <2>1, ExitKeeps
<1>5. CASE SuiteCancelled
  <2>1. Exit("failed") /\ result' = "idle"
    BY <1>1, <1>3, <1>5 DEF SuiteCancelled, Staged
  <2> QED BY <1>2, <1>3, <2>1, ExitKeeps
<1>6. CASE EntryUnparsable
  BY <1>2, <1>6, BrokenKeeps DEF EntryUnparsable
<1>7. CASE ScenarioCancelled
  BY <1>2, <1>7, BrokenKeeps DEF ScenarioCancelled, MoreScripts
<1> QED BY <1>4, <1>5, <1>6, <1>7

LEMMA ScenarioKeeps ==
    ASSUME SuiteInv, RunScenarioEntry \/ SkipScript \/ ScriptUnloadable \/ ScenarioEnds
    PROVE  SuiteInv'
<1>1. /\ SuiteTypeOK /\ RunnerInv /\ Staged /\ Entered /\ Honest /\ Own
  BY Facts
<1>2. /\ stage \in {"entry", "scenario"} /\ UNCHANGED runnerVars /\ passed' = passed
      /\ UNCHANGED <<commandLine, entries, connected, exit>>
  BY DEF RunScenarioEntry, SkipScript, ScriptUnloadable, ScenarioEnds, MoreScripts, progress, Go,
         EntryEnds
<1>3. /\ RunnerInv' /\ UNCHANGED <<entry, launched, result, override>> /\ result' = "idle"
      /\ passed' \subseteq (1..Len(entries)) \X Nat
  BY <1>1, <1>2, SameRunner DEF runnerVars, runVars, SuiteTypeOK, Staged
<1>4. /\ entry \in 1..Len(entries) /\ entry \in 0..Len(entries) /\ Len(Current.scripts) \in Nat
      /\ Len(statuses) \in Nat
  BY <1>2, Facts, EntryFacts DEF InEntry
<1>5. /\ exit = "running" /\ connected \in BOOLEAN /\ (Suite \/ Len(entries) = 1)
      /\ entry > 0 /\ Len(results) = entry - 1 /\ launched' \in {0, entry'}
  BY <1>1, <1>2, <1>3 DEF Staged, InEntry, SuiteTypeOK, Own
<1>6. CASE RunScenarioEntry
  <2>1. stage' = "scenario" /\ statuses = <<>> /\ UNCHANGED progress
    BY <1>1, <1>6 DEF RunScenarioEntry, Go, Staged
  <2>2. entry' \in 0..Len(entries) /\ entry' > 0 /\ Len(results) = entry' - 1
        /\ connected' \in BOOLEAN
    BY <1>2, <1>3, <1>4, <1>5
  <2>3. stage' \in Stages \ {"flags", "connect", "script", "child", "exited"}
    BY <2>1 DEF Stages
  <2> QED BY <1>2, <1>3, <1>5, <2>1, <2>2, <2>3, GoKeeps
<1>7. CASE SkipScript
  <2>1. AddStatus("skipped") /\ Go("scenario") /\ UNCHANGED results /\ stage = "scenario"
        /\ Len(statuses) < Len(Current.scripts)
    BY <1>7 DEF SkipScript, MoreScripts
  <2> QED BY <1>2, <1>3, <2>1, StatusKeeps
<1>8. CASE ScriptUnloadable
  <2>1. AddStatus("errored") /\ Go("scenario") /\ UNCHANGED results /\ stage = "scenario"
        /\ Len(statuses) < Len(Current.scripts)
    BY <1>8 DEF ScriptUnloadable, MoreScripts
  <2> QED BY <1>2, <1>3, <2>1, StatusKeeps
<1>9. CASE ScenarioEnds
  <2>1. /\ stage = "scenario" /\ statuses' = <<>> /\ Len(statuses) = Len(Current.scripts)
        /\ stage' = IF Suite THEN "entries" ELSE "report"
    <3>1. stage = "scenario" /\ ~(Len(statuses) < Len(Current.scripts))
      BY <1>9 DEF ScenarioEnds, MoreScripts
    <3>2. Len(statuses) <= Len(Current.scripts)
      BY <1>1, <3>1 DEF Entered
    <3>3. Len(statuses) = Len(Current.scripts)
      BY <1>4, <3>1, <3>2
    <3>4. PICK ok \in BOOLEAN : EntryEnds(ok)
      BY <1>9 DEF ScenarioEnds
    <3> QED BY <3>1, <3>3, <3>4 DEF EntryEnds, Go
  <2>2. PICK r \in {"passed", "failed"} :
            /\ r = "passed" => \A j \in DOMAIN statuses : statuses[j] = "passed"
            /\ results' = Append(results, r)
    <3>1. PICK ok \in BOOLEAN : /\ ok => \A j \in DOMAIN statuses : statuses[j] = "passed"
                                /\ EntryEnds(ok)
      BY <1>9 DEF ScenarioEnds
    <3> QED BY <3>1 DEF EntryEnds
  <2>3. DOMAIN statuses = 1..Len(statuses)
    BY Facts
  <2>4. ASSUME r = "passed"
        PROVE  AllPassed(entry)'
    <3>1. \A j \in 1..Len(statuses) : <<entry, j>> \in passed
      BY <1>1, <2>2, <2>3, <2>4 DEF Honest
    <3>2. \A j \in 1..Len(Current.scripts) : <<entry, j>> \in passed
      BY <2>1, <3>1
    <3> QED BY <1>2, <1>3, <3>2 DEF AllPassed, Current
  <2> QED BY <1>2, <1>3, <2>1, <2>2, <2>4, ResultKeeps DEF InEntry
<1> QED BY <1>6, <1>7, <1>8, <1>9

\* A script has ended.
LEMMA ChildKeeps ==
    ASSUME SuiteInv, ChildEnds
    PROVE  SuiteInv'
<1>1. /\ SuiteTypeOK /\ TypeOK /\ RunnerInv /\ Staged /\ Entered
  BY Facts
<1>2. stage = "child" /\ DropRun /\ Passes(Child) /\ AddStatus(StatusOf[result])
      /\ Go("scenario") /\ UNCHANGED results
  BY DEF ChildEnds
<1>3. /\ entry \in 1..Len(entries) /\ Len(statuses) \in Nat
      /\ Len(statuses) < Len(Current.scripts)
  BY <1>1, <1>2, Facts, EntryFacts DEF InEntry, Entered
<1>4. RunnerInv'
  BY <1>1, <1>2, DropKeeps
<1>5. UNCHANGED <<entry, launched>> /\ result' = "idle" /\ result \in {"ok", "failed", "error"}
  BY <1>1, <1>2 DEF DropRun, TypeOK
<1>6. PICK status \in {"passed", "failed", "errored", "skipped"} :
          status = StatusOf[result] /\ (status = "passed" => result = "ok")
  BY <1>5 DEF StatusOf
<1>7. <<entry, Child>> \in (1..Len(entries)) \X Nat
  BY <1>3 DEF Child
<1>8. passed \subseteq passed' /\ passed' \subseteq (1..Len(entries)) \X Nat
      /\ (status = "passed" => <<entry, Child>> \in passed')
  BY <1>1, <1>2, <1>6, <1>7 DEF Passes, SuiteTypeOK
<1> QED BY <1>2, <1>3, <1>4, <1>5, <1>6, <1>8, StatusKeeps

LEMMA ScriptEndKeeps ==
    ASSUME SuiteInv, ScriptEnds
    PROVE  SuiteInv'
<1>1. /\ SuiteTypeOK /\ TypeOK /\ RunnerInv /\ Staged /\ Entered
  BY Facts
<1>2. stage = "script" /\ DropRun /\ Passes(1) /\ Current.kind = "script"
  BY <1>1 DEF ScriptEnds, Entered
<1>3. entry \in 1..Len(entries) /\ Len(Current.scripts) = 1
  BY <1>2, EntryFacts DEF InEntry
<1>4. RunnerInv'
  BY <1>1, <1>2, DropKeeps
<1>5. UNCHANGED <<entry, launched>> /\ result' = "idle"
  BY <1>2 DEF DropRun
<1>6. passed \subseteq passed' /\ passed' \subseteq (1..Len(entries)) \X Nat
      /\ (result = "ok" => <<entry, 1>> \in passed')
  <2>1. <<entry, 1>> \in (1..Len(entries)) \X Nat
    BY <1>3
  <2> QED BY <1>1, <1>2, <2>1 DEF Passes, SuiteTypeOK
<1>7. CASE Exit("failed")
  BY <1>4, <1>5, <1>6, <1>7, ExitKeeps
<1>8. CASE EntryEnds(result = "ok")
  <2>1. /\ statuses' = <<>> /\ stage' = IF Suite THEN "entries" ELSE "report"
        /\ UNCHANGED <<commandLine, entries, connected, exit>>
    BY <1>8 DEF EntryEnds, Go
  <2>2. PICK r \in {"passed", "failed"} :
            r = (IF result = "ok" THEN "passed" ELSE "failed") /\ results' = Append(results, r)
    BY <1>8 DEF EntryEnds
  <2>3. ASSUME r = "passed"
        PROVE  AllPassed(entry)'
    <3>1. <<entry', 1>> \in passed' /\ Len(TestFile[entries[entry]].scripts) = 1
      BY <1>3, <1>5, <1>6, <2>2, <2>3 DEF Current
    <3>2. \A j \in 1..1 : j = 1
      OBVIOUS
    <3> QED BY <1>5, <2>1, <3>1, <3>2 DEF AllPassed
  <2> QED BY <1>2, <1>4, <1>5, <1>6, <2>1, <2>2, <2>3, ResultKeeps DEF InEntry
<1> QED BY <1>7, <1>8 DEF ScriptEnds

LEMMA ReportKeeps ==
    ASSUME SuiteInv, Report
    PROVE  SuiteInv'
<1>1. /\ SuiteTypeOK /\ RunnerInv /\ Staged /\ Honest /\ Len(results) \in Nat
      /\ results \in Seq({"passed", "failed"})
  BY Facts
<1>2. stage = "report" /\ passed' = passed /\ UNCHANGED runnerVars
  BY DEF Report
<1>3. RunnerInv' /\ UNCHANGED <<entry, launched, result>> /\ passed' \subseteq (1..Len(entries)) \X Nat
  BY <1>1, <1>2, SameRunner DEF runnerVars, runVars, SuiteTypeOK
<1>4. result' = "idle" /\ Len(results) = Len(entries)
  BY <1>1, <1>2, <1>3 DEF Staged
<1>5. CASE Exit("failed")
  BY <1>2, <1>3, <1>4, <1>5, ExitKeeps
<1>6. CASE /\ Exit("passed")
           /\ \A i \in DOMAIN results : results[i] = "passed"
  <2>1. \A i \in 1..Len(entries) : AllPassed(i)
    <3>1. DOMAIN results = 1..Len(entries)
      BY <1>1, <1>4
    <3> QED BY <1>1, <1>4, <1>6, <3>1 DEF Honest
  <2> QED BY <1>2, <1>3, <1>4, <1>6, <2>1, ExitKeeps
<1> QED BY <1>5, <1>6 DEF Report

\* The command waits: for its script, or for nothing.
LEMMA AsideKeeps ==
    ASSUME SuiteInv, Scripted \/ Signalled \/ Proxied \/ UNCHANGED vars
    PROVE  SuiteInv'
<1>1. /\ SuiteTypeOK /\ TypeOK /\ RunnerInv /\ Staged /\ Entered /\ Honest /\ Own /\ Chosen
      /\ entry \in 0..Len(entries)
  BY Facts
<1>2. UNCHANGED <<command, cliPre, configPre, stage, entries, statuses, results, passed, connected,
                  exit>>
  BY DEF Scripted, Signalled, Proxied, vars, commandVars, commandLine, progress
<1>3. ASSUME RunnerInv', UNCHANGED <<entry, override>>, launched' \in {launched, entry},
             result' = "idle" <=> result = "idle"
      PROVE  SuiteInv'
  <2>1. SuiteTypeOK'
    BY <1>1, <1>2, <1>3, SuiteTypeFrom DEF SuiteTypeOK
  <2>2. Staged' /\ Own'
    BY <1>1, <1>2, <1>3 DEF Staged, Own, Suite
  <2>3. Entered' /\ Honest' /\ Chosen'
    BY <1>1, <1>2, <1>3
       DEF Entered, Honest, AllPassed, Chosen, Current, PreconditionsFor, Suite
  <2> QED BY <1>3, <2>1, <2>2, <2>3 DEF SuiteInv
<1>4. CASE Scripted
  <2>1. Run
    BY <1>4 DEF Scripted
  <2>2. TypeOK /\ Shape /\ Unwinding
    BY <1>1 DEF RunnerInv
  <2>3. RunnerInv' /\ UNCHANGED <<entry, override>> /\ launched' \in {launched, entry}
    BY <1>1, <2>1, <2>2, RunKeeps, RunFixes, RunData DEF fixed
  <2>4. result = "running" /\ result' # "idle"
    <3>1. result = "running" /\ Move
      BY <2>1, <2>2, RunRunning, RunMoves
    <3>2. result' = result \/ result' \in {"ok", "failed", "error"}
      <4>1. Stays \/ Starts \/ CallsList \/ CallsFlow \/ Ends => result' = result
        BY DEF Stays, Starts, CallsList, CallsFlow, Ends
      <4>2. Enters \/ Returns \/ Leaves \/ Waiting => result' = result
        BY DEF Enters, Returns, Leaves, Waiting
      <4>3. Finishes => result' \in {"ok", "failed", "error"}
        BY DEF Finishes
      <4> QED BY <3>1, <4>1, <4>2, <4>3 DEF Move
    <3> QED BY <3>1, <3>2
  <2> QED BY <1>3, <2>3, <2>4
<1>5. CASE Signalled \/ Proxied
  <2>1. Cancel \/ Traffic
    BY <1>5 DEF Signalled, Proxied
  <2>2. UNCHANGED <<entry, override, launched, result>>
    BY <2>1 DEF Cancel, Traffic, runVars, outcome, device
  <2> QED BY <1>1, <1>3, <2>1, <2>2, AroundKeeps
<1>6. CASE UNCHANGED vars
  <2>1. UNCHANGED runnerVars
    BY <1>6 DEF vars
  <2>2. UNCHANGED <<entry, override, launched, result>>
    BY <2>1 DEF runnerVars, runVars
  <2> QED BY <1>1, <1>3, <2>1, <2>2, SameRunner
<1> QED BY <1>4, <1>5, <1>6

-----------------------------------------------------------------------------
(* The invariant of a command.                                              *)

LEMMA InitSuite ==
    ASSUME Init
    PROVE  SuiteInv
<1>1. RunnerInv
  BY InitRunner DEF Init
<1>2. /\ entry = 0 /\ launched = 0 /\ result = "idle"
      /\ command \in Commands /\ cliPre \in CliPre /\ configPre \in ConfigPre
      /\ stage = "flags" /\ entries = <<>> /\ statuses = <<>> /\ results = <<>>
      /\ connected = FALSE /\ exit = "running" /\ passed = {}
  BY DEF Init, RunnerInit
<1>3. SuiteTypeOK
  <2>1. <<>> \in Seq(Files) /\ <<>> \in Seq({"passed", "failed", "errored", "skipped"})
        /\ <<>> \in Seq({"passed", "failed"}) /\ 0 \in 0..Len(<<>>)
    OBVIOUS
  <2> QED BY <1>1, <1>2, <2>1 DEF SuiteTypeOK, RunnerInv, Stages
<1>4. Staged /\ Entered /\ Own /\ Chosen
  BY <1>2 DEF Staged, Entered, Own, Chosen, InEntry
<1>5. Honest
  <2>1. Len(results) = 0 /\ Len(statuses) = 0
    BY <1>2
  <2>2. \A i \in 1..0 : FALSE
    OBVIOUS
  <2> QED BY <1>2, <2>1, <2>2 DEF Honest
<1> QED BY <1>1, <1>3, <1>4, <1>5 DEF SuiteInv

LEMMA NextKeeps ==
    ASSUME SuiteInv, [Next]_vars
    PROVE  SuiteInv'
<1>1. CASE Misuse \/ SuiteCancelled \/ EntryUnparsable \/ ScenarioCancelled
  BY <1>1, LeaveKeeps
<1>2. CASE SelectFlows \/ OpenFile
  BY <1>2, SelectKeeps
<1>3. CASE Connect
  BY <1>3, ConnectKeeps
<1>4. CASE BeginEntry \/ BeginFile \/ SuiteEnds
  BY <1>4, BeginKeeps
<1>5. CASE RunScriptEntry \/ RunChild
  BY <1>5, ScriptKeeps
<1>6. CASE RunScenarioEntry \/ SkipScript \/ ScriptUnloadable \/ ScenarioEnds
  BY <1>6, ScenarioKeeps
<1>7. CASE ChildEnds
  BY <1>7, ChildKeeps
<1>8. CASE ScriptEnds
  BY <1>8, ScriptEndKeeps
<1>9. CASE Report
  BY <1>9, ReportKeeps
<1>10. CASE Scripted \/ Signalled \/ Proxied \/ UNCHANGED vars
  BY <1>10, AsideKeeps
<1> QED BY <1>1, <1>2, <1>3, <1>4, <1>5, <1>6, <1>7, <1>8, <1>9, <1>10 DEF Next, Command

LEMMA Invariance == Spec => []SuiteInv
<1>1. Init => SuiteInv
  BY InitSuite
<1>2. SuiteInv /\ [Next]_vars => SuiteInv'
  BY NextKeeps
<1> QED BY <1>1, <1>2, PTL DEF Spec

\* A command's state has the shape of RunScript's, RunSuite's and the runners' own.
THEOREM TypeCorrect == Spec => []SuiteTypeOK
<1>1. SuiteInv => SuiteTypeOK
  BY DEF SuiteInv
<1> QED BY <1>1, Invariance, PTL

\* A suite runs the files its selector is documented to name, each once, whatever
\* directories, globs, tags and roots there are (Resolve and its walk).
THEOREM SelectsExactly == Spec => []SelectionExact
<1>1. SuiteInv => SelectionExact
  <2> SUFFICES ASSUME SuiteInv, Suite, stage = "connect"
               PROVE  /\ entries # <<>> /\ IsInjective(entries)
                      /\ \A f \in Files : f \in ToSet(entries) <=> Names(command, f)
    BY DEF SelectionExact
  <2>1. entries = Resolve(command) /\ entries # <<>> /\ command.testRoots \subseteq Seq(STRING)
    BY Facts DEF Chosen
  <2>2. /\ IsInjective(Resolve(command))
        /\ \A f \in Files : f \in ToSet(Resolve(command)) <=> Wanted(command, f)
    BY Resolved
  <2>3. \A f \in Files : Wanted(command, f) <=> Names(command, f)
    BY <2>1, WantedIsNamed
  <2> QED BY <2>1, <2>2, <2>3
<1> QED BY <1>1, Invariance, PTL

\* The exit code tells the truth, of whatever command line over whatever files: 0 only
\* if every script of every file has run and passed, 2 only if nothing was run (RunScript
\* and RunSuite).
THEOREM ExitsHonest == Spec => []ExitHonest
<1>1. SuiteInv /\ SelectionExact => ExitHonest
  <2> SUFFICES ASSUME SuiteInv, SelectionExact
               PROVE  ExitHonest
    OBVIOUS
  <2>1. Staged /\ Honest /\ entries \in Seq(Files)
    BY Facts
  <2>2. ASSUME exit = "passed", NEW i \in DOMAIN entries,
               NEW j \in DOMAIN TestFile[entries[i]].scripts
        PROVE  <<i, j>> \in passed
    <3>1. i \in 1..Len(entries)
      BY <2>1
    <3>2. PICK f \in Files : f = entries[i]
      BY <2>1, <3>1, ElementOf
    <3>3. TestFile[f].scripts \in Seq(Flows)
      BY CommandShape
    <3>4. j \in 1..Len(TestFile[entries[i]].scripts)
      BY <3>2, <3>3
    <3> QED BY <2>1, <2>2, <3>1, <3>4 DEF Honest, AllPassed
  <2> QED BY <2>1, <2>2 DEF ExitHonest, Staged
<1> QED BY <1>1, Invariance, SelectsExactly, PTL

\* An entry finds only the app it has launched itself, and captures only traffic of its
\* own time, however the proxy writes, restarts and is read (ResetLaunchedApps and
\* NetworkCapture.Reset).
THEOREM EntriesAreIndependent == Spec => []EntriesIndependent
<1>1. SuiteInv => EntriesIndependent
  BY DEF SuiteInv, RunnerInv, Own, Fresh, EntriesIndependent
<1> QED BY <1>1, Invariance, PTL

\* At most one step starts after the context is done, however deep the run is and
\* however many scripts are left (the ctx checks of Run and runNestedSteps).
THEOREM CancelStopsSteps == Spec => []CancelStops
<1>1. SuiteInv => CancelStops
  <2> SUFFICES ASSUME SuiteInv
               PROVE  late <= 1
    BY DEF CancelStops
  <2>1. late = 0 \/ late = 1
    BY DEF SuiteInv, RunnerInv, Late
  <2> QED BY <2>1
<1> QED BY <1>1, Invariance, PTL

-----------------------------------------------------------------------------
(* What a failure stops.                                                    *)

\* A failed run starts no step and does not succeed.
LEMMA FailedRun ==
    ASSUME SuiteInv, Next, result = "running", failed
    PROVE  index' = index /\ result' # "ok"
<1>1. TypeOK /\ Shape /\ Unwinding /\ stage \in {"script", "child"}
  BY DEF SuiteInv, SuiteTypeOK, RunnerInv, Staged
<1>2. ~Command
  BY <1>1 DEF Command, Misuse, SelectFlows, OpenFile, Connect, BeginEntry, SuiteCancelled, SuiteEnds,
              BeginFile, EntryUnparsable, RunScriptEntry, ScriptEnds, RunScenarioEntry,
              ScenarioCancelled, SkipScript, ScriptUnloadable, RunChild, ChildEnds, ScenarioEnds,
              Report, MoreScripts, DropRun
<1>3. CASE Scripted
  <2>1. Move
    BY <1>1, <1>3, RunMoves DEF Scripted
  <2>2. ~Stays /\ ~Starts /\ ~CallsList /\ ~CallsFlow /\ ~Enters
    BY DEF Stays, Starts, CallsList, CallsFlow, Enters
  <2>3. Returns \/ Leaves \/ Finishes \/ Waiting => index' = index /\ result' # "ok"
    BY DEF Returns, Leaves, Finishes, Waiting, events
  <2>4. Ends => index' = index /\ result' # "ok"
    BY DEF Ends
  <2> QED BY <2>1, <2>2, <2>3, <2>4 DEF Move
<1>4. CASE Signalled \/ Proxied
  BY <1>4 DEF Signalled, Proxied, Cancel, Traffic, runVars, events, outcome
<1> QED BY <1>2, <1>3, <1>4 DEF Next

\* A scenario that stops on a failure starts a script only after passed ones.
LEMMA StoppedScenario ==
    ASSUME SuiteInv, Next, stage = "scenario", stage' = "child", Current.onFailure = "stop"
    PROVE  \A j \in 1..Len(statuses) : <<entry, j>> \in passed
<1>1. RunChild
  <2>1. ~Scripted /\ ~Signalled /\ ~Proxied
    BY DEF Scripted, Signalled, Proxied, commandVars
  <2>2. ~ScenarioCancelled
    BY DEF ScenarioCancelled, EntryBroken, Go, Exit
  <2>3. ~SkipScript /\ ~ScriptUnloadable /\ ~ScenarioEnds
    BY DEF SkipScript, ScriptUnloadable, ScenarioEnds, EntryEnds, Go
  <2> QED BY <2>1, <2>2, <2>3
          DEF Next, Command, Misuse, SelectFlows, OpenFile, Connect, BeginEntry, SuiteCancelled,
              SuiteEnds, BeginFile, EntryUnparsable, RunScriptEntry, ScriptEnds, RunScenarioEntry,
              ChildEnds, Report
<1>2. ~(\E j \in DOMAIN statuses : statuses[j] # "passed")
  BY <1>1 DEF RunChild, Stopping
<1>3. DOMAIN statuses = 1..Len(statuses) /\ Honest
  BY Facts
<1> QED BY <1>2, <1>3 DEF Honest

\* A run that has failed starts no further step and does not report success, and a
\* scenario that stops on failure starts no further script (runNestedSteps' result,
\* stopRequested).
THEOREM FailuresStop == Spec => FailureStops
<1>1. SuiteInv /\ [Next]_vars =>
          [/\ result = "running" /\ failed => index' = index /\ result' # "ok"
           /\ stage = "scenario" /\ stage' = "child" /\ Current.onFailure = "stop" =>
                  \A j \in 1..Len(statuses) : <<entry, j>> \in passed]_vars
  BY FailedRun, StoppedScenario
<1> QED BY <1>1, Invariance, PTL DEF Spec, FailureStops

-----------------------------------------------------------------------------
(* The step events, and the gates before the script's own steps.            *)

\* The calls are the same from inside and from outside.
LEMMA SameLists ==
    ASSUME frames \in Seq(Calls)
    PROVE  Depth(N) = Cardinality({k \in DOMAIN frames : frames[k].at = "steps"})
<1> DEFINE S == {q \in 1..N : Stack[q].at = "steps"}
           T == {k \in DOMAIN frames : frames[k].at = "steps"}
           f == [q \in S |-> N + 1 - q]
<1>1. N \in Nat /\ DOMAIN frames = 1..N
  BY DEF N
<1>2. \A q \in 1..N : N + 1 - q \in 1..N /\ Stack[q] = frames[N + 1 - q] /\ N + 1 - (N + 1 - q) = q
  BY <1>1 DEF Stack, N
<1>3. IsFiniteSet(S)
  <2>1. IsFiniteSet(1..N)
    BY <1>1, FS_Interval
  <2>2. S \in SUBSET (1..N)
    OBVIOUS
  <2> QED BY <2>1, <2>2, FS_Subset
<1>4. \A q \in S : f[q] \in T
  BY <1>1, <1>2
<1>5. \A k \in T : \E q \in S : f[q] = k
  <2> SUFFICES ASSUME NEW k \in T
               PROVE  \E q \in S : f[q] = k
    OBVIOUS
  <2>1. k \in 1..N /\ frames[k].at = "steps"
    BY <1>1
  <2>2. PICK q \in 1..N : q = N + 1 - k
    BY <1>2, <2>1
  <2>3. N + 1 - q = k
    BY <1>1, <2>1, <2>2
  <2>4. Stack[q].at = "steps"
    BY <1>2, <2>1, <2>3
  <2> QED BY <2>3, <2>4
<1>6. \A p, q \in S : f[p] = f[q] => p = q
  BY <1>1
<1>7. f \in Bijection(S, T)
  <2>1. f \in [S -> T]
    BY <1>4
  <2> HIDE DEF f, S, T
  <2> QED BY <1>5, <1>6, <2>1 DEF Bijection, Injection, Surjection, IsInjective
<1> HIDE DEF f
<1>8. Cardinality(T) = Cardinality(S)
  <2> HIDE DEF S, T
  <2> QED BY <1>3, <1>7, FS_Bijection DEF ExistsBijection
<1> QED BY <1>8 DEF Depth, Lists

LEMMA EventsNested ==
    ASSUME RunnerInv
    PROVE  EventsNest
<1>1. TypeOK /\ Shape /\ Nesting /\ Indices /\ frames \in Seq(Calls) /\ N \in Nat
  BY DEF RunnerInv, TypeOK, N
<1>2. result = "running" =>
          depth = Cardinality({k \in DOMAIN frames : frames[k].at = "steps"})
  BY <1>1, SameLists DEF Nesting
<1>3. PICK owner \in [1..Len(open) -> 1..N] : Owns(owner)
  BY <1>1 DEF Nesting
<1>4. ASSUME NEW j \in 1..Len(open), NEW k \in 1..Len(open), j < k
      PROVE  open[j].depth < open[k].depth
  <2>1. owner[j] \in 1..N /\ owner[k] \in 1..N /\ owner[j] < owner[k]
    BY <1>3, <1>4 DEF Owns
  <2>2. InStep(Stack[owner[k]]) /\ open[j].depth = Depth(owner[j]) /\ open[k].depth = Depth(owner[k])
    BY <1>3 DEF Owns
  <2>3. owner[k] # 1
    BY <2>1
  <2>4. Stack[owner[k]].at = "steps"
    <3>1. Stack[owner[k]].at \notin {"requires", "main"}
      BY <1>1, <2>1, <2>3 DEF Shape
    <3> QED BY <2>2, <3>1 DEF InStep, Loops
  <2>5. PICK p \in Nat, q \in Nat : p = owner[j] /\ q = owner[k]
    BY <2>1
  <2>6. Lists(Stack, p) < Lists(Stack, q)
    BY <2>1, <2>4, <2>5, ListsGrow
  <2> QED BY <2>2, <2>5, <2>6 DEF Depth
<1>5. result # "running" => open = <<>> /\ depth = 0
  BY <1>1, NoCalls
<1> QED BY <1>1, <1>2, <1>4, <1>5 DEF EventsNest, Indices

\* The step events of every script pair up and nest, by whichever path it ends
\* (StepStarted and StepCompleted, runState.depth and globalStepIndex).
THEOREM EventsAreNested == Spec => []EventsNest
<1>1. SuiteInv => EventsNest
  BY EventsNested DEF SuiteInv
<1> QED BY <1>1, Invariance, PTL

LEMMA FirstSaid ==
    ASSUME NEW words, NEW m \in 1..4, words[m] # "none",
           \A l \in 1..4 : l < m => words[l] = "none"
    PROVE  LET said == {k \in 1..4 : words[k] # "none"}
           IN  words[CHOOSE k \in said : \A l \in said : k <= l] = words[m]
<1> DEFINE said == {k \in 1..4 : words[k] # "none"}
           first == CHOOSE k \in said : \A l \in said : k <= l
<1>1. m \in said /\ \A l \in said : m <= l
  <2>1. \A l \in said : ~(l < m)
    OBVIOUS
  <2> QED BY <2>1
<1>2. first \in said /\ \A l \in said : first <= l
  <2> HIDE DEF said
  <2> QED BY <1>1
<1>3. first = m
  <2>1. first \in 1..4 /\ first <= m /\ m <= first
    BY <1>1, <1>2
  <2> HIDE DEF first
  <2> QED BY <2>1
<1> QED BY <1>3

\* A precondition that the run skips is one that the words above say to skip.
LEMMA SkipIsSaid ==
    ASSUME cliPre \in Overrides, configPre \in Overrides, NEW level \in Overrides,
           NEW policy \in Policies,
           \/ PreconditionsFor(level) = "skip"
           \/ PreconditionsFor(level) = "none" /\ policy = "skip"
    PROVE  LET words == <<cliPre, level, configPre, policy>>
               said == {k \in 1..4 : words[k] # "none"}
           IN  words[CHOOSE k \in said : \A l \in said : k <= l] = "skip"
<1> DEFINE words == <<cliPre, level, configPre, policy>>
<1>1. words[1] = cliPre /\ words[2] = level /\ words[3] = configPre /\ words[4] = policy
  OBVIOUS
<1>2. policy # "none"
  BY DEF Policies
<1>3. \A l \in 1..4 : l = 1 \/ l = 2 \/ l = 3 \/ l = 4
  OBVIOUS
<1>4. PICK m \in 1..4 : words[m] = "skip" /\ \A l \in 1..4 : l < m => words[l] = "none"
  <2> HIDE DEF words
  <2>1. CASE cliPre # "none"
    <3>1. words[1] = "skip"
      BY <1>1, <2>1 DEF PreconditionsFor
    <3>2. \A l \in 1..4 : ~(l < 1)
      OBVIOUS
    <3> QED BY <3>1, <3>2
  <2>2. CASE cliPre = "none" /\ level # "none"
    <3>1. words[2] = "skip"
      BY <1>1, <2>2 DEF PreconditionsFor
    <3>2. \A l \in 1..4 : l < 2 => l = 1
      OBVIOUS
    <3> QED BY <1>1, <2>2, <3>1, <3>2
  <2>3. CASE cliPre = "none" /\ level = "none" /\ configPre # "none"
    <3>1. words[3] = "skip"
      BY <1>1, <2>3 DEF PreconditionsFor
    <3>2. \A l \in 1..4 : l < 3 => l = 1 \/ l = 2
      OBVIOUS
    <3> QED BY <1>1, <2>3, <3>1, <3>2
  <2>4. CASE cliPre = "none" /\ level = "none" /\ configPre = "none"
    <3>1. words[4] = "skip"
      BY <1>1, <2>4 DEF PreconditionsFor
    <3>2. \A l \in 1..4 : l < 4 => l = 1 \/ l = 2 \/ l = 3
      OBVIOUS
    <3> QED BY <1>1, <2>4, <3>1, <3>2
  <2> QED BY <2>1, <2>2, <2>3, <2>4
<1>5. words[m] # "none"
  BY <1>4
<1> HIDE DEF words
<1>6. LET said == {k \in 1..4 : words[k] # "none"}
      IN  words[CHOOSE k \in said : \A l \in said : k <= l] = words[m]
  BY <1>4, <1>5, FirstSaid
<1> QED BY <1>4, <1>6 DEF words

\* The script's own steps start only after every flow it requires has completed and each
\* precondition was last seen to hold, but for those that the flag, the scenario, the
\* project config or their own policy say to skip (Run, resolvePreconditionsOverride).
THEOREM MainIsGated == Spec => []MainGated
<1>1. SuiteInv => MainGated
  <2> SUFFICES ASSUME SuiteInv, In("main", "checked") \/ In("main", "run")
               PROVE  MainGated
    BY DEF MainGated
  <2>1. /\ TypeOK /\ Shape /\ Unwinding /\ Gates /\ result = "running"
        /\ Top.at = "main" /\ Top.phase \in {"checked", "run"}
        /\ Staged /\ Entered /\ cliPre \in Overrides /\ configPre \in Overrides
    BY Facts DEF RunnerInv, In
  <2>2. N = 1 /\ Stack[1] = Top
    BY <2>1, Running
  <2>3. ~failed
    BY <2>1, <2>2 DEF Unwinding, AtStart
  <2>4. /\ \A j \in 1..Len(Requires[main]) : Requires[main][j] \in completed
        /\ \A j \in 1..Len(Pre[main]) : j <= Len(Pre[main]) => Held(j)
    BY <2>1, <2>2 DEF Gates, Reached
  <2>5. main \in Flows /\ Pre[main] \in Seq([setup : Flows, policy : Policies])
    BY <2>1, ScriptShape DEF TypeOK
  <2>6. \A j : ~Confirming(j)
    BY <2>1, <2>2 DEF Confirming
  <2>7. PICK level \in Overrides :
            /\ level = IF stage = "child" THEN Current.pre ELSE "none"
            /\ override = PreconditionsFor(level)
    <3>1. stage \in {"script", "child"}
      BY <2>1 DEF Staged
    <3>2. stage = "child" => Current.pre \in Overrides
      BY EntryFacts DEF InEntry
    <3> QED BY <2>1, <3>1, <3>2 DEF Entered, Overrides
  <2>8. ASSUME NEW j \in 1..Len(Pre[main]), <<main, j>> \notin confirmed
        PROVE  LET words == <<cliPre, IF stage = "child" THEN Current.pre ELSE "none",
                              configPre, Pre[main][j].policy>>
                   said == {k \in 1..4 : words[k] # "none"}
               IN  words[CHOOSE k \in said : \A l \in said : k <= l] = "skip"
    <3>1. SkipsOwn(j)
      <4>1. j <= Len(Pre[main])
        BY <2>5
      <4> QED BY <2>3, <2>4, <2>6, <2>8, <4>1 DEF Held
    <3>2. PICK policy \in Policies : policy = Pre[main][j].policy
      <4>1. Pre[main][j] \in [setup : Flows, policy : Policies]
        BY <2>5, ElementOf
      <4> QED BY <4>1
    <3>3. PreconditionsFor(level) = "skip" \/ (PreconditionsFor(level) = "none" /\ policy = "skip")
      BY <2>7, <3>1, <3>2 DEF SkipsOwn
    <3>4. LET words == <<cliPre, level, configPre, policy>>
              said == {k \in 1..4 : words[k] # "none"}
          IN  words[CHOOSE k \in said : \A l \in said : k <= l] = "skip"
      BY <2>1, <3>3, SkipIsSaid
    <3> QED BY <2>7, <3>2, <3>4
  <2> QED BY <2>4, <2>8 DEF MainGated
<1> QED BY <1>1, Invariance, PTL
=============================================================================
