----------------------------- MODULE ScriptRules -----------------------------
(***************************************************************************)
(* The two descriptions of a valid ScriptDefinition: the rules Validate     *)
(* applies at run time, and the JSON Schema the editor and the MCP surface  *)
(* use.  The schema is data here, as it is in the code.                     *)
(***************************************************************************)
EXTENDS StepNormalizer

\* The integer at or below a number.
Whole(n) == n[2]
AtLeast(n, low) == IsA(n, "inf") \/ Whole(n) >= low
AtMost(n, high) == IsFinite(n) /\ (Whole(n) < high \/ n = Num(high))
\* An optional number is not negative.
Nonnegative(s, field) == Given(s, field) => AtLeast(Get(s, field), 0)
\* The texts of the given fields are not empty, or are variable names.
NotEmpty(s, field) == Get(s, field) # Str("")
IsVariable(s, field) == Get(s, field)[2] \in VariableNames
ValidStatus(s) == Given(s, "status") => AtLeast(Get(s, "status"), 100) /\ AtMost(Get(s, "status"), 599)
OneOf(s, field, words) == Given(s, field) => Get(s, field)[2] \in words
All(s, field, Valid(_)) == \A item \in ToSet(Get(s, field)[2]) : Valid(item)

ReadFields == {"id", "text", "label", "hint", "value", "role", "class", "package", "bounds",
               "clickable", "enabled", "focused", "selected", "checked", "visible"}

\* validatePointerTarget: the selector's nth was looked at by the normalizer.
ValidTarget(t) ==
    /\ Given(t, "selector") # Given(t, "point")
    /\ OneOf(t, "anchor", Anchors)
ValidLocation(s, field) == Given(s, field) /\ ValidTarget(Get(s, field))

ValidAction(a) ==
    LET type == Get(a, "type")[2]
    IN  CASE type \in {"down", "move"} ->
                 /\ ValidLocation(a, "target")
                 /\ Given(a, "pressure") => AtLeast(Get(a, "pressure"), 0) /\ AtMost(Get(a, "pressure"), 1)
          [] type = "wait" -> AtLeast(Get(a, "ms"), 0)
          [] OTHER -> type \in {"up", "capture"}


ValidPointer(s) ==
    LET touches == Get(s, "touches")[2]
    IN  /\ touches # <<>> /\ Nonnegative(s, "moveDurationMs")
        /\ \A t \in ToSet(touches) : Get(t, "actions")[2] # <<>> /\ All(t, "actions", ValidAction)
        /\ Len(touches) > 1 => \A t \in ToSet(touches) : Given(t, "id")

ValidLongPress(s) ==
    /\ ValidLocation(s, "at") /\ Nonnegative(s, "holdMs")
    /\ Given(s, "thenSwipeTo") => ValidTarget(Get(s, "thenSwipeTo"))

ValidPinch(s) ==
    /\ ValidLocation(s, "center") /\ Nonnegative(s, "durationMs")
    /\ Nonnegative(s, "startGap") /\ Nonnegative(s, "endGap")
    /\ Get(s, "startGap") # Get(s, "endGap")
    /\ OneOf(s, "axis", {"vertical", "horizontal"})

ValidRotate(s) ==
    /\ ValidLocation(s, "center") /\ Nonnegative(s, "durationMs")
    /\ Get(s, "degrees") # Num(0)
    /\ Given(s, "radius") => AtLeast(Get(s, "radius"), 0) /\ Get(s, "radius") # Num(0)

RECURSIVE ValidStep(_)

\* validateStepsOrFile
ValidSteps(s, field) == IsA(Get(s, field), "list") => All(s, field, ValidStep)

ValidHandle(s) ==
    LET ValidBranch(b) == ValidSteps(b, "do")
    IN  Get(s, "branches")[2] # <<>> /\ OneOf(s, "otherwise", {"fail", "skip"}) /\ All(s, "branches", ValidBranch)

ValidBranchStep(s) ==
    LET ValidCase(c) == ValidStatus(Get(c, "match")) /\ ValidSteps(c, "do")
    IN  IsVariable(s, "from") /\ Get(s, "on")[2] # <<>> /\ All(s, "on", ValidCase) /\ ValidSteps(s, "default")

\* validateStep
ValidStep(s) ==
    LET command == Get(s, "command")[2]
    IN  CASE command \in {"waitFor", "assertVisible", "assertNotVisible", "assertExists"} -> Nonnegative(s, "timeoutMs")
          [] command = "swipe" -> OneOf(s, "direction", {"up", "down", "left", "right"})
          [] command = "pressKey" -> NotEmpty(s, "key")
          [] command = "sleep" -> Nonnegative(s, "ms")
          [] command = "capture" -> NotEmpty(s, "pattern") /\ IsVariable(s, "as")
          [] command = "assertApi" -> IsVariable(s, "from") /\ ValidStatus(s)
          [] command = "extract" -> IsVariable(s, "from")
          [] command = "read" -> IsVariable(s, "as") /\ OneOf(s, "field", ReadFields)
          [] command = "assertExpr" -> NotEmpty(s, "expr")
          [] command = "handle" -> ValidHandle(s)
          [] command = "branch" -> ValidBranchStep(s)
          [] command = "runFlow" -> NotEmpty(s, "file")
          [] command = "pointer" -> ValidPointer(s)
          [] command = "longPress" -> ValidLongPress(s)
          [] command = "pinch" -> ValidPinch(s)
          [] command = "rotate" -> ValidRotate(s)
          [] OTHER -> TRUE

ValidPrecondition(p) ==
    /\ Given(Get(p, "check"), "visible") # Given(Get(p, "check"), "notVisible")
    /\ ValidSteps(p, "setup")
    /\ OneOf(p, "policy", {"ensure", "always", "skip"})

\* Validate
Valid(def) ==
    LET ValidWord(w) == w # Str("")
    IN  /\ OneOf(def, "format", Formats) /\ NotEmpty(def, "name")
        /\ Given(def, "tags") => All(def, "tags", ValidWord)
        /\ Given(def, "requires") => All(def, "requires", ValidWord)
        /\ OneOf(def, "proxy", {"required", "optional"}) /\ Nonnegative(def, "stepDelay")
        /\ Given(def, "preconditions") => All(def, "preconditions", ValidPrecondition)
        /\ All(def, "steps", ValidStep)

-----------------------------------------------------------------------------
(* GenerateJSONSchema.  A schema is a tagged tuple as well.                 *)

AnyString == <<"string", "any">>
Nonempty == <<"string", "nonempty">>
Among(words) == <<"enum", words>>
Variable == Among(VariableNames)
Integer(low, high) == <<"integer", low, high>>
Number(low, high) == <<"number", low, high>>
NonnegativeNumber == Number(0, Greatest)
NonnegativeInteger == Integer(0, Greatest)
ArrayOf(items, least) == <<"array", items, least>>
StringMap == <<"strings">>
AnyMap == <<"map">>
Boolean == <<"boolean">>
Null == <<"null">>
\* A mapping from any name to values of one schema.
RecordOf(schema) == <<"record", schema>>
AnyOf(schemas) == <<"anyOf", schemas>>
Ref(name) == <<"ref", name>>
\* A closed object: its properties, and those that are required.
Closed(properties, required) == <<"object", properties, required>>
Const(word) == Among({word})

StepsOrFileSchema == AnyOf(<<ArrayOf(Ref("ScriptStep"), 0), AnyString>>)
PressureSchema == Number(0, 1)

ConditionSchema == Closed([visible |-> Ref("StringOrSelector"), notVisible |-> Ref("StringOrSelector")], {})

\* scriptSelectorSchema ... branchCaseSchema: the entries of jsonSchemaDefinitions.
TargetSchema ==
    AnyOf(<<Closed([selector |-> Ref("ScriptSelector"), anchor |-> Among(Anchors),
                    offset |-> Closed([dx |-> Number(Least, Greatest), dy |-> Number(Least, Greatest)], {})],
                   {"selector"}),
            Closed([point |-> Closed([x |-> Number(Least, Greatest), y |-> Number(Least, Greatest)], {"x", "y"})],
                   {"point"})>>)

ActionSchema ==
    AnyOf(<<Closed([type |-> Among({"down", "move"}), target |-> TargetSchema, pressure |-> PressureSchema],
                   {"type", "target"}),
            Closed([type |-> Const("wait"), ms |-> NonnegativeNumber], {"type", "ms"}),
            Closed([type |-> Const("up")], {"type"}),
            Closed([type |-> Const("capture"), label |-> AnyString], {"type"})>>)

TouchSchema == Closed([id |-> Nonempty, actions |-> ArrayOf(ActionSchema, 1)], {"actions"})

PreconditionSchema ==
    Closed([check |-> ConditionSchema, setup |-> StepsOrFileSchema, policy |-> Among({"ensure", "always", "skip"})],
           {"check", "setup"})

MatchSchema == Closed([status |-> Integer(100, 599), body |-> AnyMap], {})

\* stepJSONSchemaDefinitions, without the command every one of them fixes.
StepSchema(command) ==
    LET waits == [selector |-> Ref("ScriptSelector"), timeoutMs |-> NonnegativeInteger]
    IN  CASE command \in {"launchApp", "back"} -> <<(<<>>), {}>>
          [] command = "tap" -> <<[selector |-> Ref("ScriptSelector")], {"selector"}>>
          [] command = "type" -> <<[text |-> AnyString, into |-> Ref("ScriptSelector")], {"text"}>>
          [] command \in {"waitFor", "assertVisible", "assertNotVisible", "assertExists"} -> <<waits, {"selector"}>>
          [] command = "screenshot" -> <<[label |-> AnyString], {}>>
          [] command = "swipe" -> <<[direction |-> Among({"up", "down", "left", "right"})], {"direction"}>>
          [] command = "pressKey" -> <<[key |-> Nonempty], {"key"}>>
          [] command = "sleep" -> <<[ms |-> NonnegativeInteger], {"ms"}>>
          [] command = "capture" -> <<("pattern" :> Nonempty @@ "as" :> Variable), {"pattern", "as"}>>
          [] command = "assertApi" -> <<[from |-> Variable, status |-> Integer(100, 599), body |-> AnyMap], {"from"}>>
          [] command = "extract" -> <<[from |-> Variable, values |-> StringMap], {"from", "values"}>>
          [] command = "read" -> <<("selector" :> Ref("ScriptSelector") @@ "field" :> Among(ReadFields) @@ "as" :> Variable),
                                   {"selector", "as"}>>
          [] command = "assertExpr" -> <<[expr |-> Nonempty], {"expr"}>>
          [] command = "handle" ->
                 <<[branches |-> ArrayOf(Closed([when |-> ConditionSchema, do |-> StepsOrFileSchema], {"when", "do"}), 1),
                    otherwise |-> Among({"fail", "skip"}), timeout |-> NonnegativeInteger], {"branches"}>>
          [] command = "branch" ->
                 <<("from" :> Variable @@ "default" :> StepsOrFileSchema
                    @@ "on" :> ArrayOf(Closed([match |-> MatchSchema, do |-> StepsOrFileSchema], {"match", "do"}), 1)),
                   {"from", "on"}>>
          [] command = "runFlow" -> <<[file |-> Nonempty, env |-> StringMap], {"file"}>>
          [] command = "pointer" -> <<[touches |-> ArrayOf(TouchSchema, 1), moveDurationMs |-> NonnegativeNumber], {"touches"}>>
          [] command = "longPress" -> <<[at |-> TargetSchema, holdMs |-> NonnegativeNumber, thenSwipeTo |-> TargetSchema], {"at"}>>
          [] command = "pinch" ->
                 <<[center |-> TargetSchema, startGap |-> NonnegativeNumber, endGap |-> NonnegativeNumber,
                    durationMs |-> NonnegativeNumber, axis |-> Among({"vertical", "horizontal"})],
                   {"center", "startGap", "endGap"}>>
          [] command = "rotate" ->
                 <<[center |-> TargetSchema, degrees |-> Number(Least, Greatest), radius |-> NonnegativeNumber,
                    durationMs |-> NonnegativeNumber], {"center", "degrees"}>>

DefinitionSchema ==
    Closed([format |-> Among(Formats), appId |-> AnyString, name |-> Nonempty, description |-> AnyString,
            precondition |-> AnyString, tags |-> ArrayOf(Nonempty, 0), env |-> StringMap,
            proxy |-> Among({"required", "optional"}), requires |-> ArrayOf(Nonempty, 0),
            preconditions |-> ArrayOf(PreconditionSchema, 0), stepDelay |-> NonnegativeNumber,
            steps |-> ArrayOf(Ref("ScriptStep"), 0)],
           {"appId", "name", "env", "steps"})

SelectorSchema ==
    Closed([text |-> AnyString, id |-> AnyString, label |-> AnyString, hint |-> AnyString, role |-> AnyString,
            nth |-> NonnegativeInteger], {})

\* A reference; a step is the one definition that its command names.
Referred(name, v) ==
    CASE name = "ScriptSelector" -> SelectorSchema
      [] name = "StringOrSelector" -> AnyOf(<<AnyString, SelectorSchema>>)
      [] name = "ScriptStep" ->
             LET schema == StepSchema(Get(v, "command")[2])
             IN  Closed(schema[1] @@ ("command" :> AnyString), schema[2] \cup {"command"})

RECURSIVE Conforms(_, _)
\* What a JSON Schema validator makes of a value.
Conforms(schema, v) ==
    CASE schema[1] = "string" -> IsA(v, "str") /\ (schema[2] = "nonempty" => v[2] # "")
      [] schema[1] = "enum" -> IsA(v, "str") /\ v[2] \in schema[2]
      [] schema[1] = "integer" -> IsA(v, "int") /\ AtLeast(v, schema[2]) /\ AtMost(v, schema[3])
      [] schema[1] = "number" -> IsFinite(v) /\ AtLeast(v, schema[2]) /\ AtMost(v, schema[3])
      [] schema[1] = "array" ->
             IsA(v, "list") /\ Len(v[2]) >= schema[3] /\ \A i \in DOMAIN v[2] : Conforms(schema[2], v[2][i])
      [] schema[1] = "strings" -> IsA(v, "map") /\ \A e \in ToSet(v[2]) : IsA(e[2], "str")
      [] schema[1] = "map" -> IsA(v, "map")
      [] schema[1] = "boolean" -> IsA(v, "bool")
      [] schema[1] = "null" -> v = Nil
      [] schema[1] = "record" -> IsA(v, "map") /\ \A e \in ToSet(v[2]) : Conforms(schema[2], e[2])
      [] schema[1] = "anyOf" -> \E i \in DOMAIN schema[2] : Conforms(schema[2][i], v)
      [] schema[1] = "ref" -> Conforms(Referred(schema[2], v), v)
      [] schema[1] = "object" ->
             /\ IsA(v, "map") /\ schema[3] \subseteq Keys(v) /\ Keys(v) \subseteq DOMAIN schema[2]
             /\ \A e \in ToSet(v[2]) : Conforms(schema[2][e[1]], e[2])
=============================================================================
