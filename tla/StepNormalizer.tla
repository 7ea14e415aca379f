--------------------------- MODULE StepNormalizer ----------------------------
(***************************************************************************)
(* normalizeStep and ParseScript: from the documents of a script's YAML to  *)
(* its ScriptDefinition.                                                    *)
(***************************************************************************)
EXTENDS ScriptDocument, TLC

\* Alphabetically, as an unordered step object is read.
Commands == <<"assertApi", "assertExists", "assertExpr", "assertNotVisible", "assertVisible", "back",
              "branch", "capture", "extract", "handle", "launchApp", "longPress", "pinch", "pointer",
              "pressKey", "read", "rotate", "runFlow", "screenshot", "sleep", "swipe", "tap", "type",
              "waitFor">>
Known(key) == key \in ToSet(Commands)

TypeText(v) ==
    IF IsA(v, "str") THEN Step("type", <<<<"text", v>>>>)
    ELSE Step("type", <<<<"text", Str(TextOr(Get(v, "text"), ""))>>, <<"into", Optional(Get(v, "into"), Selector)>>>>)

Screenshot(v) == Step("screenshot", <<<<"label", IF IsA(v, "str") THEN v ELSE Absent>>>>)

\* normalizeSleep: whole milliseconds, as a number or as a numeral.
Sleep(v) ==
    LET ms == CASE IntOrDropped(v) # Absent -> IntOrDropped(v)[2]
                [] IsA(v, "str") /\ v[2] \in Numerals -> Numeral(v[2])
                [] OTHER -> -1
    IN  IF ms >= 0 THEN Step("sleep", <<<<"ms", Num(ms)>>>>) ELSE Error

Capture(v) ==
    LET short == CaptureShorthand(v[2])
        pattern == IF Given(v, "url") THEN Text(Get(v, "url")) ELSE TextOr(Get(v, "pattern"), "")
        Armed(what, name) == Step("capture", <<<<"pattern", Str(what)>>, <<"as", Str(name)>>>>)
    IN  CASE ~IsA(v, "str") -> Armed(pattern, TextOr(Get(v, "as"), ""))
          [] short = <<>> -> Error
          [] OTHER -> Armed(short[1], short[2])

\* What assertApi and a branch case expect of a captured request.
Expected(v) == <<<<"status", IntOrDropped(Get(v, "status"))>>, <<"body", MapOrDropped(Get(v, "body"))>>>>

AssertApi(v) == Step("assertApi", <<<<"from", Str(TextOr(Get(v, "from"), ""))>>>> \o Expected(v))

Strings(v) == IF IsA(v, "map") /\ \A e \in ToSet(v[2]) : IsA(e[2], "str") THEN v ELSE Error

Extract(v) ==
    Step("extract", <<<<"from", Str(TextOr(Get(v, "from"), ""))>>,
                      <<"values", IF Given(v, "values") THEN Strings(Get(v, "values")) ELSE Map(<<>>)>>>>)

Read(v) ==
    LET Field(f) == Str(Text(f))
    IN  IF ~IsA(v, "map") THEN Error
        ELSE Step("read", <<<<"selector", Selector(Get(v, "selector"))>>,
                            <<"field", Optional(Get(v, "field"), Field)>>,
                            <<"as", Str(TextOr(Get(v, "as"), ""))>>>>)

AssertExpr(v) ==
    IF IsA(v, "map") THEN Step("assertExpr", <<<<"expr", Str(TextOr(Get(v, "expr"), ""))>>>>) ELSE Error

RunFlow(v) ==
    IF IsA(v, "str") THEN Step("runFlow", <<<<"file", v>>>>)
    ELSE Step("runFlow", <<<<"file", Str(TextOr(Get(v, "file"), ""))>>,
                           <<"env", Optional(Get(v, "env"), Strings)>>>>)

\* normalizeHandleCondition, normalizePreconditionCheck
Condition(v) ==
    Object(<<<<"visible", Optional(Get(v, "visible"), StringOrSelector)>>,
             <<"notVisible", Optional(Get(v, "notVisible"), StringOrSelector)>>>>)

RECURSIVE NormalizeStep(_)

\* normalizeDoValue
StepsOrFile(v) ==
    CASE IsA(v, "str") -> v [] IsA(v, "list") -> Each(v[2], NormalizeStep) [] OTHER -> Error

\* An entry that is neither an otherwise nor has both when and do is passed over.
Handle(v) ==
    LET Branches == SelectSeq(v[2], LAMBDA e : "otherwise" \notin Keys(e) /\ {"when", "do"} \subseteq Keys(e))
        Branch(e) == Object(<<<<"when", IF Given(e, "when") THEN Condition(Get(e, "when")) ELSE Error>>,
                              <<"do", StepsOrFile(Get(e, "do"))>>>>)
        others == SelectSeq(v[2], LAMBDA e : "otherwise" \in Keys(e))
        otherwise == IF others = <<>> THEN Absent
                     ELSE Str(IF Get(Last(others), "otherwise") = Str("skip") THEN "skip" ELSE "fail")
    IN  IF IsA(v, "list") /\ \A e \in ToSet(v[2]) : IsA(e, "map")
        THEN Step("handle", <<<<"branches", Each(Branches, Branch)>>, <<"otherwise", otherwise>>>>)
        ELSE Error

Branch(v) ==
    LET Case(c) == Object(<<<<"match", Object(Expected(Get(c, "match")))>>,
                            <<"do", IF "do" \in Keys(c) THEN StepsOrFile(Get(c, "do")) ELSE List(<<>>)>>>>)
        on == CASE "on" \notin Keys(v) -> List(<<>>)
                [] IsA(Get(v, "on"), "list") -> Each(Get(v, "on")[2], Case)
                [] OTHER -> Error
    IN  Step("branch", <<<<"from", Str(TextOr(Get(v, "from"), ""))>>, <<"on", on>>,
                         <<"default", Optional(Get(v, "default"), StepsOrFile)>>>>)

\* The entries of stepNormalizers.
NormalizeAs(command, v) ==
    CASE command \in {"launchApp", "back"} -> Step(command, <<>>)
      [] command = "tap" -> Step("tap", <<<<"selector", Selector(v)>>>>)
      [] command \in {"waitFor", "assertVisible", "assertNotVisible", "assertExists"} ->
             Step(command, SelectorAndTimeout(v))
      [] command = "type" -> TypeText(v)
      [] command = "screenshot" -> Screenshot(v)
      [] command = "swipe" -> Step("swipe", <<<<"direction", Str(Text(v))>>>>)
      [] command = "pressKey" -> Step("pressKey", <<<<"key", Str(Text(v))>>>>)
      [] command = "sleep" -> Sleep(v)
      [] command = "capture" -> Capture(v)
      [] command = "assertApi" -> AssertApi(v)
      [] command = "extract" -> Extract(v)
      [] command = "read" -> Read(v)
      [] command = "assertExpr" -> AssertExpr(v)
      [] command = "handle" -> Handle(v)
      [] command = "branch" -> Branch(v)
      [] command = "runFlow" -> RunFlow(v)
      [] command = "pointer" -> Pointer(v)
      [] command = "longPress" -> LongPress(v)
      [] command = "pinch" -> Pinch(v)
      [] command = "rotate" -> Rotate(v)
      [] OTHER -> Error

\* firstStepKey of a step whose keys keep their order.
FirstKey(v) == v[2][1][1]

NormalizeStep(v) ==
    CASE IsA(v, "str") -> NormalizeAs(v[2], Nil)
      [] IsA(v, "map") /\ v[2] # <<>> -> NormalizeAs(FirstKey(v), Get(v, FirstKey(v)))
      [] OTHER -> Error

-----------------------------------------------------------------------------
(* Preconditions, variables and the script's own fields.                    *)

RECURSIVE Unordered(_), Resolve(_, _)

Rank(key) == IF Known(key) THEN CHOOSE i \in DOMAIN Commands : Commands[i] = key ELSE Len(Commands) + 1

\* The config mapping loses the order of keys: a step object in it is read by
\* the first command it names, alphabetically.
Unordered(v) ==
    CASE IsA(v, "list") -> List([i \in DOMAIN v[2] |-> Unordered(v[2][i])])
      [] IsA(v, "map") ->
             LET e == SortSeq(v[2], LAMBDA x, y : Rank(x[1]) < Rank(y[1]))
             IN  Map([i \in DOMAIN e |-> <<e[i][1], Unordered(e[i][2])>>])
      [] OTHER -> v

\* normalizePreconditionSetup
Precondition(v) ==
    LET Policy(p) == Str(Text(p))
    IN  IF IsA(v, "map") /\ IsA(Get(v, "check"), "map")
        THEN Object(<<<<"check", Condition(Get(v, "check"))>>,
                      <<"setup", StepsOrFile(Unordered(Get(v, "setup")))>>,
                      <<"policy", Optional(Get(v, "policy"), Policy)>>>>)
        ELSE Error

\* coerceStringRecord
StringRecord(v) == [key \in Keys(v) |-> Text(Get(v, key))]

\* resolveVariables: a name the environment lacks stays a placeholder.
ResolveText(s, env) == IF Placeholder(s) \in DOMAIN env THEN env[Placeholder(s)] ELSE s
Resolve(v, env) ==
    CASE IsA(v, "str") -> Str(ResolveText(v[2], env))
      [] IsA(v, "list") -> List([i \in DOMAIN v[2] |-> Resolve(v[2][i], env)])
      [] IsA(v, "map") -> Map([i \in DOMAIN v[2] |-> <<v[2][i][1], Resolve(v[2][i][2], env)>>])
      [] OTHER -> v

\* splitScriptDocs: <<config, steps>>, or <<>>.
SplitDocs(docs) ==
    CASE Len(docs) = 1 /\ IsA(docs[1], "list") -> <<Map(<<>>), docs[1]>>
      [] Len(docs) = 1 /\ IsA(Get(docs[1], "steps"), "list") -> <<docs[1], Get(docs[1], "steps")>>
      [] Len(docs) > 1 /\ IsA(docs[2], "list") ->
             <<IF IsA(docs[1], "map") THEN docs[1] ELSE Map(<<>>), docs[2]>>
      [] OTHER -> <<>>

StringList(v) ==
    CASE ~IsA(v, "list") \/ \E s \in ToSet(v[2]) : ~IsA(s, "str") -> Error
      [] v[2] = <<>> -> Absent
      [] OTHER -> v
Preconditions(v) == IF ~IsA(v, "list") THEN Error ELSE IF v[2] = <<>> THEN Absent ELSE Each(v[2], Precondition)
StepDelay(v) == IF IsNumber(v) THEN v ELSE Error
AppId(config) ==
    LET id == IF Given(config, "appId") THEN Get(config, "appId") ELSE Get(config, "app")
    IN  IF id = Nil THEN Str("") ELSE Only(id, "str")

\* applyConfigFields
ConfigFields(config) ==
    LET String(v) == Only(v, "str")
        Word(key) == <<key, Optional(Get(config, key), String)>>
        WordOr(key, default) == IF Given(config, key) THEN Word(key) ELSE <<key, Str(default)>>
    IN  <<WordOr("format", "atomyx/v1"), WordOr("name", "Untitled script"), Word("description"),
          Word("precondition"), Word("proxy"),
          <<"tags", Optional(Get(config, "tags"), StringList)>>,
          <<"requires", Optional(Get(config, "requires"), StringList)>>,
          <<"stepDelay", Optional(Get(config, "stepDelay"), StepDelay)>>,
          <<"preconditions", Optional(Get(config, "preconditions"), Preconditions)>>>>

Environment(config, external) == external @@ StringRecord(Get(config, "env"))

\* ParseScript up to Validate.
Normalize(docs, external) ==
    LET split == SplitDocs(docs)
        env   == Environment(split[1], external)
        appId == Resolve(AppId(split[1]), env)
        steps == Each(Resolve(split[2], env)[2], NormalizeStep)
    IN  IF split = <<>> \/ (steps = List(<<>>) /\ appId = Str("")) THEN Error
        ELSE Object(<<<<"appId", appId>>, <<"env", Map(SetToSeq({<<key, Str(env[key])>> : key \in DOMAIN env}))>>,
                      <<"steps", steps>>>> \o ConfigFields(split[1]))
=============================================================================
