---------------------------- MODULE ElementLookup ----------------------------
(***************************************************************************)
(* From a selector to the elements of a hierarchy it finds: the walk of the *)
(* tree, the filters, and CompileSelector's order of fields.  A tree is     *)
(* [has, is, children]: its attributes, the states it reports as true, and  *)
(* its children.  A selector is a mapping; a pattern is a text, or          *)
(* <<"regex", texts>> with the texts the expression is found in.            *)
(***************************************************************************)
EXTENDS ScriptDocument

\* The nodes in document order, a parent before its children: the stack holds the
\* cursors, each the places of the children that lead to its node.
Walk(tree) ==
    LET Node(cursor) == FoldLeft(LAMBDA n, i : n.children[i], tree, cursor)
        Children(cursor) == [i \in DOMAIN Node(cursor).children |-> Append(cursor, i)]
        visit[stack \in Seq(Seq(Nat))] ==
            IF stack = <<>> THEN <<>>
            ELSE <<Node(Head(stack))>> \o visit[Children(Head(stack)) \o Tail(stack)]
    IN  visit[<<<<>>>>]

\* Pattern.Matches
Matches(p, text) == IF IsA(p, "regex") THEN text \in p[2] ELSE text = p[2]

\* byAttr, and the states a selector may ask for; a state it does not ask to be
\* true is no constraint.
HasMatch(node, key, p) == key \in DOMAIN node.has /\ Matches(p, node.has[key])
States == {"enabled", "clickable", "focused"}
Constrained(node, s) ==
    /\ Given(s, "role") => HasMatch(node, "role", Get(s, "role"))
    /\ \A state \in States : Get(s, state) = Bool(TRUE) => state \in node.is

\* What a filter keeps of the nodes: those, in their order.
Keep(nodes, those) ==
    LET kept == Numbered({i \in DOMAIN nodes : nodes[i] \in those}) IN [k \in DOMAIN kept |-> nodes[kept[k]]]

\* rankCandidates: nodes that react to a tap or hold the focus come first.
Score(node) == Cardinality({"clickable", "focused"} \cap node.is)
Ranked(nodes) ==
    LET Scored(n) == Keep(nodes, {node \in ToSet(nodes) : Score(node) = n})
    IN  Scored(2) \o Scored(1) \o Scored(0)

\* The content fields in the order in which they are tried; a text is tried as a
\* label as well when no label is given.
Tries(s) ==
    LET Try(key, field) == IF Given(s, field) THEN <<<<key, Get(s, field)>>>> ELSE <<>>
    IN  Try("id", "id") \o Try("label", "label") \o Try("text", "text")
        \o (IF Given(s, "label") THEN <<>> ELSE Try("label", "text")) \o Try("value", "value") \o Try("hint", "hint")

Nth(nodes, n) == IF n + 1 \in DOMAIN nodes THEN <<nodes[n + 1]>> ELSE <<>>
Positioned(nodes, s) == IF Given(s, "nth") THEN Nth(nodes, Get(s, "nth")[2]) ELSE nodes

Admitted(nodes, s) == Keep(nodes, {n \in ToSet(nodes) : Constrained(n, s)})

\* What the first field to find anything finds.
FirstFound(found) ==
    LET hits == {k \in DOMAIN found : found[k] # <<>>} IN IF hits = {} THEN <<>> ELSE found[Min(hits)]

\* Mutant: the constraints narrow what the first matching field has found.
ConstrainedLate(nodes, s) ==
    LET Matching(try) == Keep(nodes, {n \in ToSet(nodes) : HasMatch(n, try[1], try[2])})
    IN  Admitted(FirstFound([k \in DOMAIN Tries(s) |-> Matching(Tries(s)[k])]), s)

\* The try's matches that satisfy the constraints, of the first try with any.
Broadened(nodes, s) ==
    LET Matching(try) == Keep(nodes, {n \in ToSet(nodes) : HasMatch(n, try[1], try[2]) /\ Constrained(n, s)})
    IN  FirstFound([k \in DOMAIN Tries(s) |-> Matching(Tries(s)[k])])

\* CompileSelector: without a content field, all that the constraints leave.
CompileSelector(nodes, s) ==
    IF Tries(s) = <<>> THEN Positioned(Admitted(nodes, s), s)
    ELSE IF Given(s, "nth") THEN Positioned(Broadened(nodes, s), s)
    ELSE Ranked(Broadened(nodes, s))

\* FindOne: the first match, if there is one.
FindOne(tree, s) ==
    LET found == CompileSelector(Walk(tree), s) IN IF found = <<>> THEN <<>> ELSE <<found[1]>>

\* toScriptSelector: a condition's text is looked for as a text and as a label, a
\* condition's mapping as it stands.
ConditionSelector(v) == IF IsA(v, "str") THEN Map(<<<<"text", v>>, <<"label", v>>>>) ELSE v

------------------------------------------------------------------------------
(* The definition of what a lookup finds.                                    *)

\* The nodes, by their place in document order, that a field finds.
Eligible(nodes, s, key, field) ==
    {i \in DOMAIN nodes :
        Constrained(nodes[i], s) /\ Given(s, field) /\ HasMatch(nodes[i], key, Get(s, field))}

\* The node is the one that the most specific field with a match means.
Meant(nodes, s, i) ==
    LET fields == <<"id", "label", "text", "value", "hint">>
        \* A text without a label means what it means as a text, or else as a label.
        Of(k) == IF fields[k] = "text" /\ ~Given(s, "label") /\ Eligible(nodes, s, "text", "text") = {}
                 THEN Eligible(nodes, s, "label", "text") ELSE Eligible(nodes, s, fields[k], fields[k])
        asked == \E k \in DOMAIN fields : Given(s, fields[k])
        Set == IF ~asked THEN {j \in DOMAIN nodes : Constrained(nodes[j], s)}
               ELSE UNION {Of(k) : k \in {k \in DOMAIN fields : Of(k) # {} /\ \A l \in 1..(k - 1) : Of(l) = {}}}
        Before(j) == IF Given(s, "nth") \/ ~asked THEN j < i
                     ELSE Score(nodes[j]) > Score(nodes[i]) \/ (Score(nodes[j]) = Score(nodes[i]) /\ j < i)
    IN  i \in Set /\ Cardinality({j \in Set : Before(j)}) = IF Given(s, "nth") THEN Get(s, "nth")[2] ELSE 0
=============================================================================
