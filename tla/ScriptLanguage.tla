--------------------------- MODULE ScriptLanguage ----------------------------
(***************************************************************************)
(* One source text at a time on its way through the language: a script from *)
(* its documents, through the rules, to a definition, which is then played   *)
(* (ScriptPlay); an assertion from its tokens to its value; a scenario; what *)
(* a run of a project is configured with; and the questions of ScriptQueries.*)
(***************************************************************************)
EXTENDS ProjectConfig, ScriptPlay

CONSTANTS Scripts,      \* [docs, external]: the documents of a script, and the variables given to it
          Expressions,  \* [tokens, env]: a text, and the name of the variables it is evaluated in
          Variables,    \* the values of variables under those names
          Scenarios,    \* documents
          Projects      \* [args, dirs, files, process, scenario, own]: a command line, the config
                        \* files from the working directory upwards, the files that are named, the
                        \* environment variables, a scenario's precondition word, a script's configuration

E == INSTANCE Expression

\* kind and source are what is read, result what the last stage made of it.
Init ==
  /\ run = Idle
  /\ \/ /\ stage = "read" /\ result = Nil
        /\ \/ kind = "script" /\ source \in Scripts
           \/ kind = "expression" /\ source \in Expressions
           \/ kind = "scenario" /\ source \in Scenarios
           \/ kind = "project" /\ source \in Projects
     \/ QueryInit

Becomes(s, r) == stage' = s /\ result' = r /\ UNCHANGED run

\* ParseScript, up to its validation.
NormalizeScript ==
  /\ At("script", "read")
  /\ LET def == Normalize(source.docs, source.external)
     IN Becomes(IF def = Error THEN "refused" ELSE "normalized", def)

ValidateScript ==
  /\ At("script", "normalized")
  /\ Becomes(IF Valid(result) THEN "accepted" ELSE "refused", result)

ParseExpression ==
  /\ At("expression", "read")
  /\ LET parsed == E!Parse(source.tokens)
     IN Becomes(IF parsed.ok THEN "parsed" ELSE "refused", parsed)

Evaluate ==
  /\ At("expression", "parsed")
  /\ Becomes("evaluated", [node |-> result.node, value |-> E!Eval(result.node, Variables[source.env])])

ReadScenario ==
  /\ At("scenario", "read")
  /\ LET def == ParseScenario(source)
     IN Becomes(IF def = Error THEN "refused" ELSE "accepted", def)

\* run: its arguments, the config they lead to, the environment, and the rest.
ReadArguments ==
  /\ At("project", "read")
  /\ LET flags == ParseArgs(source.args, Map(<<>>))
     IN Becomes(IF flags = Error THEN "refused" ELSE "parsed", [flags |-> flags])

LoadProject ==
  /\ At("project", "parsed")
  /\ LET doc == Load(result.flags, source.dirs, source.files, source.process)
     IN Becomes(IF doc = Error THEN "refused" ELSE "loaded", [doc |-> doc] @@ result)

PickEnvironment ==
  /\ At("project", "loaded")
  /\ LET env == SelectEnvironment(result.doc, FlagText(result.flags, "--env"))
     IN Becomes(IF env = Error THEN "refused" ELSE "picked", [env |-> env] @@ result)

ConfigureRun ==
  /\ At("project", "picked")
  /\ LET configured == Configure(result.flags, result.env, result.doc, source.scenario, source.files)
     IN Becomes(IF configured.ok THEN "configured" ELSE "refused", [settings |-> configured] @@ result)

\* The script is parsed with the variables of the run.
GiveVariables ==
  /\ At("project", "configured")
  /\ LET external == result.settings.external
     IN Becomes("given", [variables |-> Environment(source.own, [x \in Keys(external) |-> Get(external, x)[2]])] @@ result)

Next ==
  \/ NormalizeScript \/ ValidateScript \/ StartRun
  \/ PlayGesture \/ PlayExtract \/ PlayAssertApi \/ PlayAssertVisible
  \/ ParseExpression \/ Evaluate
  \/ ReadScenario
  \/ ReadArguments \/ LoadProject \/ PickEnvironment \/ ConfigureRun \/ GiveVariables
  \/ QueryNext /\ UNCHANGED run

Spec == Init /\ [][Next]_playVars

------------------------------------------------------------------------------
(* The two descriptions of a definition. *)

RECURSIVE StepsIn(_)
\* Every step of a definition, those of its nested lists included.
StepsIn(v) ==
  CASE IsA(v, "map") -> (IF "command" \in Keys(v) THEN {v} ELSE {}) \cup UNION {StepsIn(e[2]) : e \in ToSet(v[2])}
    [] IsA(v, "list") -> UNION {StepsIn(item) : item \in ToSet(v[2])}
    [] OTHER -> {}

\* The constraints over several fields, or over how many there are, which no JSON
\* Schema of this kind can say.
CrossFieldRules(def) ==
  /\ \A s \in StepsIn(def) :
       LET command == Get(s, "command")[2]
       IN /\ command = "pinch" => Get(s, "startGap") # Get(s, "endGap")
          /\ command = "pointer" /\ Len(Get(s, "touches")[2]) > 1
               => \A t \in ToSet(Get(s, "touches")[2]) : Given(t, "id")
  /\ Given(def, "preconditions")
       => \A p \in ToSet(Get(def, "preconditions")[2]) : Len(Get(p, "check")[2]) = 1

\* The fields whose constraint the schema should state and does not: a rotation's degrees
\* are not 0 and its radius is positive (the schema takes any number, and 0).
RulesBeyondSchema(def) ==
  \A s \in StepsIn(def) :
    Get(s, "command")[2] = "rotate" => Num(0) \notin {Get(s, "degrees"), Get(s, "radius")}
\* And what the rules take that is no number in JSON: a step delay of .inf.
WithoutInfiniteDelay(def) ==
  Map(SelectSeq(def[2], LAMBDA e : ~(e[1] = "stepDelay" /\ IsA(e[2], "inf"))))

\* A schema whose optional fields may be written as null, the one thing the rules of a
\* config take that its schema does not say.
RECURSIVE Nullable(_)
Nullable(schema) ==
  CASE schema[1] = "object" ->
         <<"object", [p \in DOMAIN schema[2] |-> IF p \in schema[3] THEN Nullable(schema[2][p])
                                                 ELSE AnyOf(<<Nullable(schema[2][p]), Null>>)], schema[3]>>
    [] schema[1] \in {"array", "record"} -> [schema EXCEPT ![2] = Nullable(@)]
    [] OTHER -> schema

\* The two rules that relate fields, which the schema leaves out.
SuitesSelect(doc) ==
  Given(doc, "suites") => \A e \in ToSet(Get(doc, "suites")[2]) : SomeOf(e[2], "tags") \/ SomeOf(e[2], "globs")
ConfigRelations(doc) == AppsDeclared(doc) /\ SuitesSelect(doc)


\* The texts of a step and the variables it mentions.
RECURSIVE TextsIn(_)
TextsIn(v) ==
  CASE IsA(v, "str") -> {v[2]}
    [] IsA(v, "list") -> UNION {TextsIn(item) : item \in ToSet(v[2])}
    [] IsA(v, "map") -> UNION {TextsIn(e[2]) : e \in ToSet(v[2])}
    [] OTHER -> {}
Mentioned(v) == {Placeholder(text) : text \in TextsIn(v)} \ {""}

\* docs/yml-script-reference.md:757 shows `assertVisible: "${userId}"` after an extract
\* that binds userId: a step that is about to be played holds no placeholder of a
\* variable that has a value by then.
ExtractedReachSteps ==
  kind = "script" /\ stage = "playing" /\ run.next \in DOMAIN Steps
    => Mentioned(NextStep) \cap DOMAIN run.variables = {}

------------------------------------------------------------------------------
(* Expressions. *)

\* The parser accepts the sentences of the grammar and builds the one tree the
\* grammar derives: levels bind as documented and chains associate to the left.
\* It also takes an operator's word for a name where no operator can stand.
GrammarKept ==
  kind = "expression" /\ stage \in {"parsed", "refused"}
    => LET trees == E!Derived(source.tokens, 1, 1, Len(source.tokens))
       IN IF stage = "parsed"
          THEN trees = {result.node} \/ (trees = {} /\ ToSet(source.tokens) \cap E!Reserved # {})
          ELSE trees = {}

\* The value, and the error with its position, never depend on an operand that a
\* decided "and" or "or", or an earlier error, leaves unevaluated.
ShortCircuits ==
  kind = "expression" /\ stage = "evaluated"
    => result.value = E!Eval(E!Needed(result.node, Variables[source.env]), Variables[source.env])

------------------------------------------------------------------------------
(* Settings. *)

\* The values a flag was given, in their order and in either form.
Occurrences(name) == SelectSeq([i \in DOMAIN source.args |-> i],
                               LAMBDA i : source.args[i][1] # "word" /\ source.args[i][2] = name)
ValueAt(i) == Str(IF source.args[i][1] = "inline" THEN source.args[i][3] ELSE source.args[i + 1][2])
LastOf(name) == IF Occurrences(name) = <<>> THEN Nil ELSE ValueAt(Last(Occurrences(name)))
\* The last --var that assigns x.
Assigned(x) ==
  LET to == SelectSeq(Occurrences("--var"), LAMBDA i : Assignment(ValueAt(i)[2])[1] = x)
  IN IF to = <<>> THEN Nil ELSE Str(Assignment(ValueAt(Last(to))[2])[2])
Uppermost(values) == LET given == SelectSeq(values, LAMBDA v : v # Nil) IN IF given = <<>> THEN Nil ELSE given[1]

\* A run that starts has every setting from the highest place that has one, however the
\* command line spelled it: the flag given last, then the environment (the one that was
\* named, or the only one of the nearest config), then the default; and every variable
\* of its script from --var, the file, the app's id, the environment's vars, the script.
RunConfigured ==
  kind = "project" /\ stage = "given"
    => LET named == LastOf("--env")
           env == result.env
           Of(m, key) == IF m = Nil THEN Nil ELSE Get(m, key)
           file == IF LastOf("--var-file") = Nil THEN Nil ELSE source.files[LastOf("--var-file")[2]]
           appId == Of(Of(env, "app"), "appId")
           skip == IF <<"flag", "--skip-preconditions">> \in ToSet(source.args) THEN Str("skip") ELSE Nil
       IN /\ named # Nil => env # Nil /\ Of(env, "device") = Of(Of(Of(result.doc, "environments"), named[2]), "device")
          /\ result.settings.platform = Uppermost(<<LastOf("--platform"), Of(Of(env, "app"), "platform"), Str("android")>>)
          /\ LET device == Uppermost(<<LastOf("--device"), Of(env, "device")>>)
             IN device # Nil => result.settings.device = device
          /\ result.settings.preconditions =
               Uppermost(<<LastOf("--preconditions"), skip, source.scenario, Of(result.doc, "preconditions")>>)
          /\ \A x \in DOMAIN result.variables \cup {"a", "b", "appId"} :
               LET from == <<Assigned(x), Of(file, x), IF x = "appId" THEN appId ELSE Nil, Of(Of(env, "vars"), x), Of(Of(source.own, "env"), x)>>
               IN IF Uppermost(from) = Nil THEN x \notin DOMAIN result.variables
                  ELSE x \in DOMAIN result.variables /\ result.variables[x] = Text(Uppermost(from))
=============================================================================
