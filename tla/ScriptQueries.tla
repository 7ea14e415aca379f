---------------------------- MODULE ScriptQueries ----------------------------
(***************************************************************************)
(* What a step asks while its script is played, one question at a time:     *)
(* what is expected of a captured response and extracted from it, and which *)
(* element of a hierarchy a selector means.                                 *)
(***************************************************************************)
EXTENDS CapturedData, ElementLookup

CONSTANTS Responses,    \* [captured, path]: a request, and a path into its body
          Lookups       \* [tree, selector]: a hierarchy and a selector as it is written

\* A path is one of the texts that Segments reads, and a number found there is an integer.
ASSUME ResponseShape ==
  \A r \in Responses :
    /\ r.path \in Paths
    /\ LET v == ResolveDotPath(r.captured.body, Segments(r.path)) IN IsA(v, "int") => v[2] \in Int

\* A mapping has each key once.
KeysOnce(v) == \A d, e \in ToSet(Entries(v)) : d[1] = e[1] => d = e

\* A hierarchy is finite, so that its walk ends; a selector is a text or a mapping,
\* and its place among the matches is an integer.
ASSUME LookupShape ==
  \A l \in Lookups :
    /\ Walk(l.tree) \in Seq(ToSet(Walk(l.tree)))
    /\ \/ IsA(l.selector, "str")
       \/ /\ IsA(l.selector, "map") /\ l.selector[2] \in Seq(ToSet(l.selector[2])) /\ KeysOnce(l.selector)
          /\ LET nth == Get(l.selector, "nth") IN nth # Nil => IsA(nth, "int") /\ nth[2] \in Int

VARIABLES kind, source, stage,
          result   \* the answer

queryVars == <<kind, source, stage, result>>

QueryInit ==
  /\ stage = "asked" /\ result = Nil
  /\ \/ kind = "response" /\ source \in Responses
     \/ kind = "lookup" /\ source \in Lookups

Question(k) == kind = k /\ stage = "asked" /\ UNCHANGED <<kind, source>>
Answer(s, r) == stage' = s /\ result' = r

\* Every expectation an assertApi can have of one path, and extract of the same path.
Expecting(text) == Map(<<<<"body", Map(<<<<source.path, Str(text)>>>>)>>>>)
Extracting == Map(<<<<"values", Map(<<<<"v", Str(source.path)>>>>)>>>>)
AssertResponse ==
  /\ Question("response")
  /\ Answer("asserted", [holds |-> {text \in DOMAIN Spelled : AssertApiCommand(source.captured, Expecting(text))},
                         extracted |-> ExtractCommand(source.captured, Extracting, <<>>).ok])

\* The same words as a tool's selector, as a step's, and as a condition's.  A tool's
\* may hold what a step's may not.
AsStep == Selector(source.selector)
AsTool == IF IsA(source.selector, "str") THEN AsStep ELSE source.selector
Found(s) == FindOne(source.tree, s)

LookUp ==
  /\ Question("lookup") /\ AsStep # Error
  /\ Answer("found", [tool |-> Found(AsTool), step |-> Found(AsStep),
                      condition |-> Found(ConditionSelector(source.selector))])

LookUpByTool ==
  /\ Question("lookup") /\ AsStep = Error
  /\ Answer("foundByTool", [tool |-> Found(AsTool)])

QueryNext == AssertResponse \/ LookUp \/ LookUpByTool

QuerySpec == QueryInit /\ [][QueryNext]_queryVars

------------------------------------------------------------------------------
\* The operators that compare numbers.
Numeric == {"$gte:1", "$lte:2", "$lt:2", "$between:1,2"}

\* The expectations of one value do not contradict each other: something exists or
\* does not, extract finds exactly what exists, a range is its two bounds, and less
\* than is not more than at most.  The text "NaN" alone is in a range and at neither
\* of its bounds: ParseFloat takes it for a number, and neither test by which $between
\* refuses one is true of it (assert_api_command.go:115), although toJSNumber's comment
\* says that the operators treat it as "cannot compare" (dotpath.go:203).
AssertionsAgree ==
  kind = "response" /\ stage = "asserted"
    => /\ ("$exists" \in result.holds) # ("$not_exists" \in result.holds)
       /\ result.extracted = ("$exists" \in result.holds)
       /\ "$not_empty" \in result.holds => "$exists" \in result.holds
       /\ IF ResolveDotPath(source.captured.body, Segments(source.path)) = Str("NaN")
          THEN result.holds \cap Numeric = {"$between:1,2"}
          ELSE ("$between:1,2" \in result.holds) = ({"$gte:1", "$lte:2"} \subseteq result.holds)
       /\ "$lt:2" \in result.holds => "$lte:2" \in result.holds

\* Every lookup returns the node its selector means: of the most specific field with
\* a match among the nodes that satisfy the constraints, the first one that reacts
\* best, or the one at the given place; nothing is found when no node is meant.  And
\* the three ways of writing the same words (a tool's selector, a step's, whose text
\* is mirrored into its label, a condition's) find something or nothing together: a
\* condition never passes for an element a step then misses, unless it counts matches.
LookupExact ==
  LET nodes == Walk(source.tree)
      Means(s, found) == ToSet(found) = {nodes[i] : i \in {i \in DOMAIN nodes : Meant(nodes, s, i)}}
  IN /\ kind = "lookup" /\ stage \in {"found", "foundByTool"} => Means(AsTool, result.tool)
     /\ kind = "lookup" /\ stage = "found"
          => /\ Means(AsStep, result.step)
             /\ ~Given(AsTool, "nth")
                  => (result.step = <<>>) = (result.condition = <<>>) /\ (result.step = <<>>) = (result.tool = <<>>)
=============================================================================
