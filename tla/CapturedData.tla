---------------------------- MODULE CapturedData -----------------------------
(***************************************************************************)
(* What the runner makes of a captured request: dot paths into its body,    *)
(* the assertions of assertApi, and the variables extract binds.  A JSON    *)
(* value is a tagged tuple; undefined is Absent.                            *)
(***************************************************************************)
EXTENDS ScriptDocument

\* The texts of the paths and what they spell; a leading $ is the whole value.
\* An index counts only behind a name: "[0]" is a name of its own.
Segments(path) ==
    CASE path = "$" -> <<>>
      [] path \in {"a", "$.a"} -> <<"a">>
      [] path = "a.b" -> <<"a", "b">>
      [] path \in {"a[0]", "$.a[0]"} -> <<"a", "0">>
      [] path = "a.0" -> <<"a", "0">>
      [] path = "[0]" -> <<"[0]">>
\* A path of extract starts at the request; the texts are those of Paths behind its body.
BodySegments(path) == <<"body">> \o Segments(path)
Paths == {"$", "a", "$.a", "a.b", "a[0]", "$.a[0]", "a.0", "[0]"}
Index == <<"0", "1", "2">>
IndexOf(segment) == IF segment = "0" THEN 1 ELSE 0

Field(v, segment) ==
    CASE IsA(v, "list") -> IF IndexOf(segment) \in DOMAIN v[2] THEN v[2][IndexOf(segment)] ELSE Absent
      [] IsA(v, "map") -> IF segment \in Keys(v) THEN Get(v, segment) ELSE Absent
      [] OTHER -> Absent
\* resolveDotPath
ResolveDotPath(v, segments) ==
    LET current[i \in 0..Len(segments)] == IF i = 0 THEN v ELSE Field(current[i - 1], segments[i])
    IN  current[Len(segments)]

-----------------------------------------------------------------------------
(* assertApi                                                                *)

\* asComparable: lists and maps alike are keyed.
Container(v) ==
    CASE IsA(v, "map") -> [key \in Keys(v) |-> Get(v, key)]
      [] IsA(v, "list") -> [key \in {Index[i] : i \in DOMAIN v[2]} |-> v[2][CHOOSE i \in DOMAIN v[2] : Index[i] = key]]
IsContainer(v) == v[1] \in {"map", "list"}

\* jsDeepEqual, of what lies in two values under the same keys.
DeepEqual(a, b) ==
    LET Under(v, keys) == FoldLeft(LAMBDA c, key : Container(c)[key], v, keys)
        equal[keys \in Seq(STRING)] ==
            LET x == Under(a, keys)
                y == Under(b, keys)
            IN  IF IsContainer(x) /\ IsContainer(y)
                THEN /\ DOMAIN Container(x) = DOMAIN Container(y)
                     /\ \A key \in DOMAIN Container(x) : equal[Append(keys, key)]
                ELSE x = y
    IN  equal[<<>>]

\* toJSNumber: an empty text is 0 and a truth value is 0 or 1.  ParseFloat also reads
\* the text "NaN", as the float that compares as false with every number.
NaN == <<"nan">>
ToNumber(v) ==
    CASE IsA(v, "int") -> v
      [] v = Str("") -> Num(0)
      [] v = Str("NaN") -> NaN
      [] IsA(v, "str") /\ v[2] \in Numerals -> Num(Numeral(v[2]))
      [] IsA(v, "bool") -> Num(IF v[2] THEN 1 ELSE 0)
      [] OTHER -> Error
Less(a, b) == NaN \notin {a, b} /\ a[2] < b[2]
NoMore(a, b) == NaN \notin {a, b} /\ a[2] <= b[2]

\* The texts that spell an operator, with its operands.
Spelled == [s \in {"$exists", "$not_exists", "$not_empty", "$gte:1", "$lte:2", "$lt:2", "$between:1,2"} |->
              CASE s = "$exists" -> <<"exists">> [] s = "$not_exists" -> <<"not_exists">>
                [] s = "$not_empty" -> <<"not_empty">> [] s = "$gte:1" -> <<"gte", Num(1)>>
                [] s = "$lte:2" -> <<"lte", Num(2)>> [] s = "$lt:2" -> <<"lt", Num(2)>>
                [] s = "$between:1,2" -> <<"between", Num(1), Num(2)>>]

\* Mutant: the upper end of a range is not part of it.
ComparesHalfOpen(op, n) ==
    CASE op[1] = "gte" -> NoMore(op[2], n) [] op[1] = "lte" -> NoMore(n, op[2]) [] op[1] = "lt" -> Less(n, op[2])
      [] op[1] = "between" -> ~Less(n, op[2]) /\ ~NoMore(op[3], n)
\* A range refuses what is below or above it; the others pass what compares as asked.
Compares(op, n) ==
    CASE op[1] = "gte" -> NoMore(op[2], n) [] op[1] = "lte" -> NoMore(n, op[2]) [] op[1] = "lt" -> Less(n, op[2])
      [] op[1] = "between" -> ~Less(n, op[2]) /\ ~Less(op[3], n)

\* assertValue
AssertValue(actual, expected) ==
    LET op == Spelled[expected[2]]
        n == ToNumber(actual)
    IN  CASE ~IsA(expected, "str") \/ expected[2] \notin DOMAIN Spelled -> DeepEqual(actual, expected)
          [] op[1] = "not_empty" -> actual \notin {Absent, Nil, Str(""), List(<<>>)}
          [] op[1] = "exists" -> actual # Absent
          [] op[1] = "not_exists" -> actual = Absent
          [] OTHER -> n # Error /\ Compares(op, n)

\* The body of a step maps paths to what is expected there.
AssertApiCommand(captured, s) ==
    /\ Given(s, "status") => Num(captured.status) = Get(s, "status")
    /\ \A e \in ToSet(Entries(Get(s, "body"))) :
           AssertValue(ResolveDotPath(captured.body, Segments(e[1])), e[2])

\* capturedRequestAsAny, for the paths that start with a field of the request.
Captured(captured) == Map(<<<<"status", Num(captured.status)>>, <<"body", captured.body>>>>)

\* Values in the order they are written, up to the first that is
\* not there; what was bound before stays bound, as text.
AsText(v) ==
    CASE IsA(v, "str") -> v[2] [] IsA(v, "bool") -> Text(v) [] v = Nil -> "null" [] v = Num(1) -> "1" [] OTHER -> "?"
Bind(captured, variables, name, path) ==
    [x \in DOMAIN variables \cup {name} |->
        IF x = name THEN AsText(ResolveDotPath(Captured(captured), path)) ELSE variables[x]]
ExtractCommand(captured, s, variables) ==
    LET values == Entries(Get(s, "values"))
        Bound(r, e) ==
            CASE ~r.ok \/ ResolveDotPath(Captured(captured), BodySegments(e[2][2])) = Absent -> [r EXCEPT !.ok = FALSE]
              [] OTHER -> [r EXCEPT !.variables = Bind(captured, @, e[1], BodySegments(e[2][2]))]
        extracted[i \in 0..Len(values)] ==
            IF i = 0 THEN [ok |-> TRUE, variables |-> variables] ELSE Bound(extracted[i - 1], values[i])
    IN  extracted[Len(values)]
=============================================================================
