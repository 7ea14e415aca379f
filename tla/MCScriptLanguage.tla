--------------------------- MODULE MCScriptLanguage --------------------------
(* The documents, expressions, responses, lookups and projects TLC reads.    *)
EXTENDS ScriptLanguage

M1(key, v) == Map(<<<<key, v>>>>)
M2(k1, v1, k2, v2) == Map(<<<<k1, v1>>, <<k2, v2>>>>)
\* A mapping with one or two optional entries, present with each of their values or not at all.
Opt(m, key, values) == {m} \cup {Map(Append(m[2], <<key, v>>)) : v \in values}
OptAll(maps, key, values) == UNION {Opt(m, key, values) : m \in maps}
Empty == Map(<<>>)

Odd == {Nil, Str("x"), Num(-1), Infinite(Least), Bool(TRUE), List(<<>>), Empty}
Selectors == {Str("ok"), M1("text", Str("ok")), M2("id", Str("x"), "nth", Num(0)), M1("nth", Num(-1)),
              M1("text", Num(1)), M2("text", Str("ok"), "label", Str("x")), Nil, Num(1),
              M2("text", Str("ok"), "nth", Infinite(Greatest)), M1("nth", Infinite(Least))}
Targets == {Str("ok"), M2("x", Num(0), "y", Num(4)), M2("selector", Str("ok"), "anchor", Str("topLeft")),
            M2("selector", Str("gone"), "offset", M1("dx", Num(2))), M2("selector", Str("ok"), "anchor", Str("x")),
            M2("text", Str("ok"), "anchor", Str("top")), Num(1), M2("x", Num(0), "y", Infinite(Least))}

Times == {Num(0), Num(300), Num(-1), Half(1)}
Down(t) == M1("down", t)
Move(t) == M1("move", t)
Far == M2("x", Num(40), "y", Num(4))
Near == M2("x", Num(0), "y", Num(4))
Rest(ms) == M1("wait", ms)
Capture1(label) == M1("capture", label)
Middles == {Move(Far), Move(Near), Move(Str("gone")), Rest(Num(0)), Rest(Num(300)), Str("capture"), Capture1(Str("mid")),
            Str("up"), Down(Near), Rest(Num(40000))}
Touch(acts) == M1("actions", List(acts))
Paths1 == {<<Down(Near)>> \o s \o <<Str("up")>> : s \in {<<>>} \cup [1..1 -> Middles] \cup [1..2 -> Middles] \cup [1..3 -> Middles]}
OddPaths == {<<>>, <<Down(Near)>>, <<Str("up")>>, <<Down(Num(1)), Str("up")>>,
             <<M1("down", M2("selector", Str("ok"), "pressure", Num(1))), Str("up")>>,
             <<M1("down", Map(<<<<"x", Num(0)>>, <<"y", Num(4)>>, <<"pressure", Half(0)>>>>)), Move(Far), Str("up")>>,
             <<Down(Near), Rest(Num(-1)), Str("up")>>, <<Down(Near), M1("fly", Num(1)), Str("up")>>,
             <<Down(Near), Capture1(Str("")), Str("up")>>}
Finger(id, acts) == M2("id", id, "actions", List(acts))
Pair(a, b) == M1("touches", List(<<a, b>>))
Swipe1 == <<Down(Near), Str("capture"), Move(Far), Capture1(Str("mid")), Str("up")>>
Swipe2 == <<Down(Near), Move(Far), Str("capture"), Str("up")>>
Pointers ==
    {M1("touches", List(<<Touch(p)>>)) : p \in Paths1 \cup OddPaths}
    \cup {Pair(Finger(Str("a"), p), Finger(id, q)) : p, q \in {Swipe1, Swipe2, <<Down(Near), Str("up")>>}, id \in {Str("a"), Str("b"), Str("")}}
    \cup {M2("touches", List(<<Touch(<<Down(Near), Move(Far), Str("up")>>)>>), "moveDurationMs", ms) : ms \in Times \cup {Num(20000), Infinite(Greatest)}}
    \cup {M1("touches", List(<<>>)), Empty}

Statuses == {Num(200), Num(99), Num(600), Infinite(Greatest), Str("x")}
Bodies == {M1("a", Num(1)), M1("$", Str("$exists")), Str("x")}
Inner == {List(<<>>), List(<<Str("back")>>), List(<<M1("sleep", Num(-1))>>), List(<<M1("tap", Str("${a}"))>>), Str("f.yml"), Num(1),
          List(<<M2("sleep", Num(1), "back", Nil)>>), List(<<M1("rotate", Map(<<<<"center", Near>>, <<"degrees", Num(0)>>>>))>>)}
Checks == {M1("visible", Str("ok")), M2("visible", Str("ok"), "notVisible", Str("x")), Empty, M1("visible", Num(1))}
Branches == {Map(<<<<"when", c>>, <<"do", d>>>>) : c \in Checks, d \in Inner} \cup {M1("when", M1("visible", Str("ok")))}
Cases == {Map(<<<<"match", m>>, <<"do", d>>>>) : m \in {M1("status", s) : s \in Statuses} \cup {Nil}, d \in Inner}

Step1(command, values) == {M1(command, v) : v \in values}
StepsOf ==
    UNION {
      Step1("tap", Selectors), Step1("back", {Nil}), Step1("launchApp", {Nil}), Step1("fly", {Nil}),
      Step1("type", {Str("${a}"), M1("text", Str("${b}")), M2("text", Num(1), "into", Str("ok")), Empty}),
      Step1("waitFor", Opt(M1("text", Str("ok")), "timeout", {Num(1), Num(-1), Half(0), Infinite(Least), Infinite(Greatest)})),
      Step1("screenshot", {Nil, Str("s"), Num(1)}),
      Step1("swipe", {Str("up"), Str("x"), Bool(TRUE)}), Step1("pressKey", {Str("x"), Str(""), Nil}),
      Step1("sleep", {Num(1), Num(-1), Str("250"), Str(" 7 "), Str("-1"), Half(1), Infinite(Least), Infinite(Greatest), Nil}),
      Step1("capture", {Str("GET /x as: a"), Str("GET /x"), M2("url", Str("/x"), "as", Str("a")), M2("pattern", Str(""), "as", Str("a")),
                        M2("url", Str("/x"), "as", Str("?"))}),
      Step1("assertApi", OptAll(OptAll(Opt(Empty, "from", {Str("a"), Str("?")}), "status", Statuses), "body", Bodies)),
      Step1("extract", Opt(M1("from", Str("a")), "values", {M1("b", Str("$.a")), M1("b", Num(1)), Str("x")})),
      Step1("read", OptAll(Opt(M1("selector", Str("ok")), "field", {Str("value"), Str("x")}), "as", {Str("a"), Num(1)})),
      Step1("assertExpr", {M1("expr", Str("a")), M1("expr", Str("")), Str("x")}),
      Step1("runFlow", {Str("f.yml"), Str(""), M2("file", Str("f.yml"), "env", M1("a", Str("x"))), M2("file", Str("f.yml"), "env", M1("a", Num(1)))}),
      Step1("handle", {List(<<b>>) : b \in Branches} \cup {List(<<M2("when", M1("visible", Str("ok")), "do", Str("f.yml")), M1("otherwise", Str(o))>>) : o \in {"skip", "x"}}
                      \cup {List(<<>>), Str("x")}),
      Step1("branch", {Map(<<<<"from", Str("a")>>, <<"on", List(<<c>>)>>>>) : c \in Cases}
                      \cup Opt(M2("from", Str("a"), "on", List(<<M2("match", M1("status", Num(200)), "do", Str("f.yml"))>>)), "default", Inner)
                      \cup {M1("from", Str("a")), M2("from", Str("a"), "on", Str("x"))}),
      Step1("pointer", Pointers),
      Step1("longPress", OptAll(Opt(Empty, "at", Targets), "holdMs", Times) \cup {M2("at", Near, "thenSwipeTo", t) : t \in Targets \cup {Far}}),
      Step1("pinch", OptAll(OptAll({Map(<<<<"center", c>>, <<"startGap", Num(20)>>, <<"endGap", g>>>>) : c \in {Near, Str("ok"), Str("gone")}, g \in {Num(60), Num(20), Num(-2)}},
                                   "durationMs", {Num(300), Num(-1)}), "axis", {Str("horizontal"), Str("x"), Num(1)})),
      Step1("rotate", OptAll(OptAll({Map(<<<<"center", c>>, <<"degrees", d>>>>) : c \in {Near, Str("ok"), Num(1)}, d \in {Num(90), Num(0), Num(-45), Str("x")}},
                                    "radius", {Num(50), Num(0), Num(-1)}), "durationMs", {Num(800), Half(3)}))}
    \cup {Str("back"), Str("fly"), Num(1), Empty}

App == <<"appId", Str("${a}")>>
Doc(entries, steps) == Map(<<App>> \o entries \o <<<<"steps", List(steps)>>>>)
OddWords == {Str("x"), Str(""), Num(1), List(<<Str("x")>>), List(<<Str("")>>), List(<<>>), List(<<Num(1)>>)}
ConfigDocs ==
    {Doc(<<<<key, v>>>>, <<Str("back")>>) :
        key \in {"format", "name", "description", "precondition", "proxy", "tags", "requires", "app"},
        v \in OddWords \cup {Str("atomyx/v1"), Str("required")}}
    \cup {Doc(<<<<"stepDelay", v>>>>, <<Str("back")>>) : v \in Odd \cup {Num(1), Half(2)}}
    \cup {Doc(<<<<"env", v>>>>, <<M1("type", Str("${a}")), M1("type", Str("${b}")), M1("handle", List(<<M2("when", M1("visible", Str("${b}")), "do", List(<<M1("tap", Str("${a}"))>>))>>))>>) :
            v \in {M1("a", Str("own")), M2("a", Str("own"), "b", Num(1)), Empty, Str("x")}}
    \cup {Doc(<<<<"preconditions", List(<<Map(<<<<"check", c>>, <<"setup", d>>>> \o p)>>)>>>>, <<Str("back")>>) :
            c \in Checks, d \in Inner, p \in {<<>>, <<<<"policy", Str("skip")>>>>, <<<<"policy", Str("x")>>>>}}
Played1 ==
    {Doc(<<>>, <<M1("extract", M2("from", Str("a"), "values", M1("b", Str(path)))),
                 M1("assertVisible", Str(seen)), M1("assertApi", M2("from", Str("a"), "body", M1(path, Str("$exists"))))>>) :
        path \in {"$.a", "a.b", "a[0]"}, seen \in {"ok", "${b}", "gone"}}

MCPlayed == [docs : {<<d>> : d \in Played1}, external : {<<>>}]
External == {<<>>, [a |-> "given"]}
MCScripts ==
    [docs : {<<Doc(<<>>, <<s>>)>> : s \in StepsOf} \cup {<<d>> : d \in ConfigDocs \cup Played1}
            \cup {<<Map(<<App>>), List(<<Str("back")>>)>>, <<List(<<Str("back")>>)>>, <<List(<<>>)>>, <<Str("x")>>, <<Map(<<App>>)>>,
                  <<Nil, List(<<Str("back")>>)>>},
     external : External]

Id(w) == <<"id", w>>
P(w) == <<"punct", w>>
One == <<"number", "1">>
Tokens == {One, Id("x"), Id("true"), Id("not"), Id("and"), Id("or"), Id("number"), P("("), P(")"), P("-"), P("=="), P("<"), P("*"), P("+")}
Operands == {One, Id("x"), Id("true"), <<"string", "1">>}
Infix == {Id("and"), Id("or"), P("=="), P("<"), P("-"), P("*"), P("/")}
Unary == {<<>>, <<Id("not")>>, <<P("-")>>}
Sentences ==
    {p \o <<a, o>> \o q \o <<b, o2, c>> : p, q \in Unary, a, b \in {One, Id("x"), Id("true")}, c \in {One, Id("x")}, o, o2 \in Infix}
    \cup {<<a, o, P("("), b, o2, c, P(")")>> : a, c \in {One, Id("x")}, b \in Operands, o, o2 \in Infix}
    \cup {<<Id(cast), P("("), a, P(")"), o, b>> : cast \in {"number", "string", "bool", "x"}, a, b \in Operands, o \in Infix}
MCExpressions ==
    [tokens : UNION {[1..n -> Tokens] : n \in 0..3} \cup Sentences,
     env : {"none", "true", "zero"}]
MCVariables == [none |-> <<>>, true |-> [x |-> E!Truth(TRUE)], zero |-> [x |-> E!Value("number", 0)]]

ScenarioFields == [format |-> {Str("atomyx-scenario/v1"), Str("atomyx/v1")}, description |-> {Str("x"), Nil},
                   onFailure |-> {Str("continue"), Str("x")}, preconditions |-> {Str("skip"), Num(1)},
                   env |-> {M1("a", Str("x")), M1("a", Num(1))}, tags |-> {List(<<>>), List(<<Str("")>>)},
                   steps |-> {List(<<Str("back")>>)}]
JsonBodies == {Nil, Num(1), Str(""), M1("a", Nil), M1("a", Num(2)), M1("a", Num(3)), M1("a", Str("250")), M1("a", Str("NaN")), M1("a", Bool(TRUE)),
               M1("a", M1("b", Num(1))), M1("a", List(<<Num(1)>>)), M1("a", List(<<>>)), List(<<Num(1)>>), M1("a", M1("0", Str("")))}
MCResponses == [captured : [status : {200}, body : JsonBodies], path : Paths]

MCScenarios ==
    UNION {OptAll(OptAll({M2("name", n, "scripts", s)}, f[1], ScenarioFields[f[1]]), f[2], ScenarioFields[f[2]]) :
             n \in {Str("x"), Str(""), Num(1)}, s \in {List(<<Str("f.yml")>>), List(<<>>), List(<<Str("")>>), Str("x"), List(<<Num(1)>>)},
             f \in {f \in (DOMAIN ScenarioFields) \X (DOMAIN ScenarioFields) : f[1] # f[2]}}
    \cup {Str("x"), M1("name", Str("x")), M1("scripts", List(<<Str("f.yml")>>)), List(<<Str("x")>>)}

MCScreen == [t \in {"ok"} |-> [left |-> 0, right |-> 20, top |-> 10, bottom |-> 30]]
MCTraffic == [status |-> 200, body |-> M1("a", M1("b", Str("x")))]
MCDrivers == [pressure : BOOLEAN, multi : BOOLEAN]

App1 == Map(<<<<"id", Str("x")>>, <<"platform", Str("ios")>>, <<"appId", Str("app")>>>>)
App2 == Map(<<<<"id", Str("y")>>, <<"platform", Str("android")>>, <<"appId", Str("other")>>>>)
Env1 == M1("app", Str("x"))
Envs(e) == M1("dev", e)
Config(apps, environments) == Map(<<<<"project", Str("p")>>, <<"apps", apps>>, <<"environments", environments>>>>)
Plain == Config(List(<<App1>>), Envs(Env1))
With(m, key, values) == {Put(m, key, v) : v \in values} \cup {Map(SelectSeq(m[2], LAMBDA e : e[1] # key))}
OddValues == Odd \cup {Str(""), List(<<Str("x")>>), List(<<Str("")>>), M1("x", Str("x")), M1("x", Nil)}
ReportDoc == M2("formats", List(<<Str("html")>>), "outDir", Str("out"))
SuiteDocs == With(Empty, "tags", OddValues) \cup With(M1("globs", List(<<>>)), "tags", OddValues) \cup With(Empty, "globs", OddValues) \cup {M1("x", Nil)}
ConfigDocs1 ==
    UNION {With(Plain, key, OddValues) : key \in {"project", "apps", "environments", "launch", "report", "suites", "testRoots", "dataRoots", "x"}}
    \cup With(Plain, "preconditions", OddValues \cup {Str("skip")})
    \cup UNION {{Config(List(<<a, App2>>), Envs(Env1)) : a \in With(App1, key, OddValues)} : key \in {"id", "platform", "appId", "artifact"}}
    \cup UNION {{Config(List(<<App1>>), Envs(e)) : e \in With(Env1, key, OddValues)} : key \in {"app", "vars", "device", "proxy", "x"}}
    \cup {Put(Plain, "report", r) : r \in With(ReportDoc, "formats", OddValues \cup {List(<<Str("pdf")>>)}) \cup With(ReportDoc, "outDir", OddValues)}
    \cup {Put(Plain, "launch", l) : l \in With(Empty, "mode", OddValues \cup {Str("attach")}) \cup With(Empty, "clearData", OddValues)}
    \cup {Put(Plain, "suites", M1("smoke", x)) : x \in SuiteDocs}

NoFiles == <<>>
Settings == [args |-> <<>>, dirs |-> <<>>, files |-> NoFiles, process |-> <<>>, scenario |-> Nil, own |-> M1("env", M2("a", Str("own"), "b", Num(1)))]
EnvA == Map(<<<<"app", Str("x")>>, <<"vars", M2("a", Str("env"), "appId", Str("env"))>>, <<"device", Str("phone")>>, <<"proxy", Str("mitm:f")>>>>)
EnvB == M2("app", Str("y"), "vars", M1("a", Str("${ENV:TOKEN}")))
OneEnv == Config(List(<<App1>>), Envs(EnvA))
TwoEnvs == Put(Put(Config(List(<<App1, App2>>), M2("dev", EnvA, "live", EnvB)), "preconditions", Str("force")), "report", ReportDoc)
Yaml(doc) == [yaml |-> doc]
Dirs == {<<>>, <<(<<>>), Yaml(OneEnv)>>, <<[yaml |-> OneEnv, yml |-> TwoEnvs]>>, <<[yml |-> TwoEnvs], Yaml(OneEnv)>>}
Files == ("c.yaml" :> TwoEnvs @@ "bad.yaml" :> Empty @@ "v.json" :> M2("a", Str("file"), "b", Str("file")) @@ "null.json" :> Nil
          @@ "odd.json" :> M1("a", Num(1)))
Flag1(name, words) == {<<>>} \cup {<<<<"flag", name>>, <<"word", w>>>> : w \in words} \cup {<<<<"inline", name, w>>>> : w \in words}
OddArgs == {<<<<"flag", "--env">>>>, <<<<"flag", "--env">>, <<"flag", "--var">>>>, <<<<"word", "x">>>>, <<<<"flag", "--x">>>>,
            <<<<"inline", "--skip-preconditions", "true">>>>, <<<<"flag", "--skip-preconditions">>>>,
            <<<<"flag", "--skip-preconditions">>, <<"inline", "--preconditions", "force">>>>,
            <<<<"flag", "--preconditions">>, <<"word", "skip">>>>, <<<<"inline", "--preconditions", "x">>>>}
           \cup Flag1("--report", {"html", "json, html,json", ",", "pdf"}) \cup Flag1("--report-dir", {"out"})
Variables1 == {<<>>, <<<<"inline", "--var", "a=flag">>>>, <<<<"inline", "--var", "a=flag">>, <<"flag", "--var">>, <<"word", "a=">>>>,
               <<<<"inline", "--var", "b=flag">>>>, <<<<"inline", "--var", "=x">>>>}
MCProjects ==
    {[Settings EXCEPT !.dirs = <<Yaml(d)>>] : d \in ConfigDocs1}
    \cup {[Settings EXCEPT !.args = e \o v \o f, !.dirs = d, !.files = Files, !.process = p] :
             e \in Flag1("--env", {"dev", "live", "x", "a=flag"}), v \in Variables1,
             f \in Flag1("--var-file", {"v.json", "null.json", "odd.json", "x"}), d \in Dirs, p \in {<<>>, [TOKEN |-> "secret"]}}
    \cup {[Settings EXCEPT !.args = c \o p \o q \o o, !.dirs = d, !.files = Files, !.process = [TOKEN |-> "secret"], !.scenario = s] :
             c \in {<<>>, <<<<"inline", "--config", "c.yaml">>>>, <<<<"inline", "--config", "bad.yaml">>>>, <<<<"inline", "--config", "x">>>>},
             p \in Flag1("--platform", {"ios", "x"}), q \in Flag1("--device", {"tablet"}), o \in OddArgs, d \in Dirs, s \in {Nil, Str("skip")}}

Node(has, is, children) == [has |-> has, is |-> is, children |-> children]
Leaves == {Node(h, is, <<>>) : h \in {[text |-> "ok"], [label |-> "ok"], [text |-> "ok", label |-> "gone", role |-> "button"],
                                      [id |-> "ok", label |-> "ok"], [value |-> "ok", hint |-> "ok"]},
                              is \in {{}, {"clickable"}, {"clickable", "focused", "enabled"}}}
Trees == {Node([role |-> "container"], {}, <<a, Node([label |-> "ok"], {"enabled"}, <<[b EXCEPT !.has = [bounds |-> "last"] @@ @]>>)>>) : a, b \in Leaves}
         \cup {Node([text |-> "ok"], {}, <<>>)}
Regex == <<"regex", {"ok", "gone"}>>
Asked == {Str("ok"), M1("text", Str("ok")), M1("label", Str("ok")), M2("text", Str("ok"), "label", Str("gone")),
          M2("id", Str("x"), "text", Str("ok")), M1("hint", Str("ok")), M1("value", Str("ok")), Empty,
          M1("text", Regex), M2("id", Regex, "label", Regex)}
Narrowed(s) == IF IsA(s, "str") THEN {s}
               ELSE UNION {Opt(m, "nth", {Num(0), Num(1), Num(2)}) :
                             m \in UNION {Opt(s, "role", {Str("button")}), Opt(s, "clickable", {Bool(TRUE), Bool(FALSE)}),
                                          Opt(s, "enabled", {Bool(TRUE)}), Opt(s, "focused", {Bool(TRUE)})}}
MCLookups == [tree : Trees, selector : UNION {Narrowed(s) : s \in Asked}]
=============================================================================
