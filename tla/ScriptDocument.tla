--------------------------- MODULE ScriptDocument ----------------------------
(***************************************************************************)
(* How a script's YAML becomes its canonical definition: the shorthand each *)
(* command accepts, the fields each step keeps, and the rules a definition  *)
(* must pass.  A YAML or JSON value is a tagged tuple; a mapping lists its  *)
(* entries in the order they are written.  Positions and wording of errors  *)
(* are left out: a rejected value is Error.                                 *)
(***************************************************************************)
EXTENDS Integers, Sequences, SequencesExt, FiniteSets

Nil == <<"nil">>
Str(s) == <<"str", s>>
Num(n) == <<"int", n>>
Half(n) == <<"half", n>>    \* the number n + 0.5
\* +Inf, with the integer the build converts it to: Go leaves that to the platform,
\* where it is one of the ends of int64 (here, the ends of what a number can be).
Least == -1000000
Greatest == 1000000
Infinite(n) == <<"inf", n>>
Bool(b) == <<"bool", b>>
List(items) == <<"list", items>>
Map(entries) == <<"map", entries>>
Error == <<"error">>
Absent == <<"absent">>

IsA(v, tag) == v[1] = tag
IsNumber(v) == v[1] \in {"int", "half", "inf"}
IsFinite(v) == v[1] \in {"int", "half"}
Entries(v) == IF IsA(v, "map") THEN v[2] ELSE <<>>
Keys(v) == {e[1] : e \in ToSet(Entries(v))}
\* m[key] of a Go map: nil when the key is not there.
Get(v, key) ==
    IF key \in Keys(v) THEN (CHOOSE e \in ToSet(Entries(v)) : e[1] = key)[2] ELSE Nil
Given(v, key) == Get(v, key) # Nil

\* The numbers of a finite set, in order.
Numbered(S) == [k \in 1..Cardinality(S) |-> CHOOSE i \in S : Cardinality({j \in S : j <= i}) = k]

\* What the texts of the documents mean: a variable's name, a numeral, a capture's
\* shorthand, a placeholder.
VariableNames == {"a", "b"}
Formats == {"atomyx/v1", "atomyx/v2"}
Numeral(s) == CASE s = "250" -> 250 [] s = " 7 " -> 7 [] s = "-1" -> -1
Numerals == {"250", " 7 ", "-1"}
CaptureShorthand(s) == IF s = "GET /x as: a" THEN <<"GET /x", "a">> ELSE <<>>
Placeholder(s) == CASE s = "${a}" -> "a" [] s = "${b}" -> "b" [] OTHER -> ""

\* jsString of a scalar; the text of another value is never a valid word.
Text(v) ==
    CASE IsA(v, "str") -> v[2]
      [] IsA(v, "bool") -> IF v[2] THEN "true" ELSE "false"
      [] IsA(v, "nil") -> "undefined"
      [] OTHER -> "?"
TextOr(v, default) == IF v = Nil THEN default ELSE Text(v)

\* An object, without the fields that are absent, unless one of its fields is bad.
Object(entries) ==
    IF \E e \in ToSet(entries) : e[2] = Error THEN Error
    ELSE Map(SelectSeq(entries, LAMBDA e : e[2] # Absent))
Sequence(items) == IF Error \in ToSet(items) THEN Error ELSE List(items)
Optional(v, convert(_)) == IF v = Nil THEN Absent ELSE convert(v)
Only(v, tag) == IF IsA(v, tag) THEN v ELSE Error
Finite(v) == IF IsFinite(v) THEN v ELSE Error
OptionalFinite(v) == Optional(v, Finite)
\* asInt: a whole number, which an infinite one is taken for; other values are dropped.
IntOrDropped(v) == CASE IsA(v, "int") -> v [] IsA(v, "inf") -> Num(v[2]) [] OTHER -> Absent
MapOrDropped(v) == IF IsA(v, "map") THEN v ELSE Absent

-----------------------------------------------------------------------------
(* Selectors and pointer targets.                                           *)

\* selectorFieldsFromMap: the fields, and the place as the integer it was taken for.
SelectorFields(m) ==
    LET Taken(e) == IF e[1] = "nth" THEN <<"nth", IntOrDropped(e[2])>> ELSE e
    IN  IF \E e \in ToSet(m[2]) :
               /\ ~(e[1] \in {"text", "id", "label", "hint", "role"} /\ IsA(e[2], "str"))
               /\ ~(e[1] = "nth" /\ IntOrDropped(e[2]) # Absent /\ IntOrDropped(e[2])[2] >= 0)
        THEN Error
        ELSE IF IsA(Get(m, "nth"), "inf") THEN Map([i \in DOMAIN m[2] |-> Taken(m[2][i])]) ELSE m

\* expandSelectorShorthand
Selector(v) ==
    CASE IsA(v, "str") -> Map(<<<<"text", v>>, <<"label", v>>>>)
      [] IsA(v, "map") ->
             IF SelectorFields(v) # Error /\ "text" \in Keys(v) /\ "label" \notin Keys(v)
             THEN Map(Append(SelectorFields(v)[2], <<"label", Get(v, "text")>>)) ELSE SelectorFields(v)
      [] OTHER -> Error

\* stringOrSelectorFromRaw
StringOrSelector(v) ==
    CASE IsA(v, "str") -> v [] IsA(v, "map") -> SelectorFields(v) [] OTHER -> Error

\* splitSelectorAndTimeout: a timeout that is not an integer is dropped.
SelectorAndTimeout(v) ==
    CASE IsA(v, "str") -> <<<<"selector", Selector(v)>>>>
      [] IsA(v, "map") ->
             <<<<"selector", Selector(Map(SelectSeq(v[2], LAMBDA e : e[1] # "timeout")))>>,
               <<"timeoutMs", IntOrDropped(Get(v, "timeout"))>>>>
      [] OTHER -> <<<<"selector", Error>>>>

Anchors == {"center", "topLeft", "topRight", "bottomLeft", "bottomRight", "top", "bottom", "left", "right"}
Anchor(v) == IF IsA(v, "str") /\ v[2] \in Anchors THEN v ELSE Error

\* normalizePointerOffset
Offset(v) ==
    IF IsA(v, "map") /\ Keys(v) \subseteq {"dx", "dy"}
    THEN Object(<<<<"dx", OptionalFinite(Get(v, "dx"))>>, <<"dy", OptionalFinite(Get(v, "dy"))>>>>)
    ELSE Error

\* normalizePointerTarget, normalizePointerSelectorTarget
Target(v) ==
    CASE IsA(v, "str") -> Map(<<<<"selector", Selector(v)>>>>)
      [] ~IsA(v, "map") -> Error
      [] IsNumber(Get(v, "x")) /\ IsNumber(Get(v, "y")) ->
             IF IsFinite(Get(v, "x")) /\ IsFinite(Get(v, "y"))
             THEN Map(<<<<"point", Map(<<<<"x", Get(v, "x")>>, <<"y", Get(v, "y")>>>>)>>>>) ELSE Error
      [] "selector" \in Keys(v) ->
             Object(<<<<"selector", Selector(Get(v, "selector"))>>,
                      <<"anchor", Optional(Get(v, "anchor"), Anchor)>>,
                      <<"offset", Optional(Get(v, "offset"), Offset)>>>>)
      [] Keys(v) \cap {"anchor", "offset"} # {} -> Error
      [] OTHER -> Object(<<<<"selector", Selector(v)>>>>)

\* A step's location: required, in any of a target's forms.
Location(v) == IF v = Nil THEN Error ELSE Target(v)

-----------------------------------------------------------------------------
(* The pointer step and the gestures built on it.                           *)

Pressure(v) ==
    IF ~Given(v, "pressure") THEN Absent
    ELSE LET p == Get(v, "pressure")
         IN  IF p \in {Num(0), Num(1), Half(0)} THEN p ELSE Error

\* A number of milliseconds; its range is the definition's concern.
Wait(v) == Finite(v)
CaptureLabel(v) == IF IsA(v, "str") /\ v[2] # "" THEN v ELSE Error

\* normalizePointerAction
PointerAction(v) ==
    LET Kind(k) == <<"type", Str(k)>>
        key   == IF IsA(v, "map") /\ Len(v[2]) = 1 THEN v[2][1][1] ELSE "none"
        value == v[2][1][2]
    IN  CASE v \in {Str("up"), Str("capture")} -> Map(<<<<"type", v>>>>)
          [] key \in {"down", "move"} ->
                 Object(<<Kind(key), <<"target", Target(value)>>, <<"pressure", Pressure(value)>>>>)
          [] key = "wait" -> Object(<<Kind("wait"), <<"ms", Wait(value)>>>>)
          [] key = "up" -> Map(<<Kind("up")>>)
          [] key = "capture" -> Object(<<Kind("capture"), <<"label", Optional(value, CaptureLabel)>>>>)
          [] OTHER -> Error

Each(items, convert(_)) == Sequence([i \in DOMAIN items |-> convert(items[i])])

\* normalizePointerTouches, normalizePointerActions
PointerTouch(v) ==
    IF IsA(v, "map") /\ IsA(Get(v, "actions"), "list")
    THEN Object(<<<<"id", IF Get(v, "id") \in {Nil, Str("")} THEN Absent ELSE Only(Get(v, "id"), "str")>>,
                  <<"actions", Each(Get(v, "actions")[2], PointerAction)>>>>)
    ELSE Error

Step(command, fields) == Object(<<<<"command", Str(command)>>>> \o fields)

\* normalizePointer
Pointer(v) ==
    IF IsA(Get(v, "touches"), "list") /\ Get(v, "touches")[2] # <<>>
    THEN Step("pointer", <<<<"touches", Each(Get(v, "touches")[2], PointerTouch)>>,
                           <<"moveDurationMs", OptionalFinite(Get(v, "moveDurationMs"))>>>>)
    ELSE Error

LongPress(v) ==
    Step("longPress", <<<<"at", Location(Get(v, "at"))>>, <<"holdMs", OptionalFinite(Get(v, "holdMs"))>>,
                        <<"thenSwipeTo", Optional(Get(v, "thenSwipeTo"), Target)>>>>)

Pinch(v) ==
    LET Axis(a) == Only(a, "str")
    IN  Step("pinch", <<<<"center", Location(Get(v, "center"))>>, <<"startGap", Finite(Get(v, "startGap"))>>,
                        <<"endGap", Finite(Get(v, "endGap"))>>,
                        <<"durationMs", OptionalFinite(Get(v, "durationMs"))>>,
                        <<"axis", Optional(Get(v, "axis"), Axis)>>>>)

Rotate(v) ==
    Step("rotate", <<<<"center", Location(Get(v, "center"))>>, <<"degrees", Finite(Get(v, "degrees"))>>,
                     <<"radius", OptionalFinite(Get(v, "radius"))>>,
                     <<"durationMs", OptionalFinite(Get(v, "durationMs"))>>>>)
=============================================================================
