---------------------------- MODULE ProjectConfig ----------------------------
(***************************************************************************)
(* What a run is configured from: the command line, the project's config    *)
(* file, the environment selected in it, and the variables a script is      *)
(* given.  Wording of errors is left out: a refused input is Error.         *)
(***************************************************************************)
EXTENDS ScriptScenario

\* What the texts of a command line and of a config mean: KEY=VALUE, and
\* ${ENV:NAME} (a reference is the whole of its text here).
Assignment(s) == CASE s = "a=flag" -> <<"a", "flag">> [] s = "a=" -> <<"a", "">> [] s = "b=flag" -> <<"b", "flag">>
                   [] OTHER -> <<>>
HasEquals(s) == s \in {"a=flag", "a=", "b=flag", "=x"}
\* strings.Split and TrimSpace of a list of report formats.
FormatList(s) == CASE s = "html" -> <<"html">> [] s = "json, html,json" -> <<"json", "html", "json">> [] s = "," -> <<>>
                   [] OTHER -> <<s>>
EnvRef(s) == IF s = "${ENV:TOKEN}" THEN "TOKEN" ELSE ""

------------------------------------------------------------------------------
(* ParseArgv for the run command.  An argument is <<"flag", name>>,          *)
(* <<"inline", name, value>> for --name=value, or <<"word", text>>.          *)

FlagKind == ("--platform" :> "value" @@ "--device" :> "value" @@ "--proxy" :> "value" @@ "--env" :> "value"
             @@ "--config" :> "value" @@ "--var-file" :> "value" @@ "--preconditions" :> "value"
             @@ "--report" :> "value" @@ "--report-dir" :> "value" @@ "--skip-preconditions" :> "boolean" @@ "--var" :> "repeatable")

Put(m, key, v) == Map(Append(SelectSeq(m[2], LAMBDA e : e[1] # key), <<key, v>>))
\* setFlag: the last value of a flag, or every value of a repeatable one.
SetFlag(flags, name, word) ==
    Put(flags, name, IF FlagKind[name] = "repeatable"
                     THEN List((IF Given(flags, name) THEN Get(flags, name)[2] ELSE <<>>) \o <<Str(word)>>)
                     ELSE Str(word))

RECURSIVE ParseArgs(_, _)
ParseArgs(args, flags) ==
    IF args = <<>> THEN flags
    ELSE LET kind == Head(args)[1]
             name == Head(args)[2]
         IN  CASE name \notin DOMAIN FlagKind -> Error
               [] kind = "inline" -> ParseArgs(Tail(args), SetFlag(flags, name, Head(args)[3]))
               [] FlagKind[name] = "boolean" -> ParseArgs(Tail(args), Put(flags, name, Bool(TRUE)))
               [] Len(args) < 2 \/ args[2][1] # "word" -> Error
               [] OTHER -> ParseArgs(Tail(Tail(args)), SetFlag(flags, name, args[2][2]))

\* flagString, flagBool, flagStrings: a flag of another type counts as not given.
FlagText(flags, name) == IF IsA(Get(flags, name), "str") THEN Get(flags, name) ELSE Nil
FlagSet(flags, name) == Get(flags, name) = Bool(TRUE)
FlagTexts(flags, name) == IF IsA(Get(flags, name), "list") THEN Get(flags, name)[2] ELSE <<>>

------------------------------------------------------------------------------
(* ParseAndValidate.  An optional field written as null counts as absent.    *)

Closely(v, keys) == IsA(v, "map") /\ Keys(v) \subseteq keys
RequiredWord(m, key) == Has(m, key) /\ IsWord(Get(m, key))
OptionalString(m, key) == Given(m, key) => IsA(Get(m, key), "str")
OptionalWord(m, key) == Given(m, key) => IsWord(Get(m, key))
OptionalBool(m, key) == Given(m, key) => IsA(Get(m, key), "bool")
OptionalWords(m, key) == Given(m, key) => Words(Get(m, key))
OptionalStrings(m, key) ==
    Given(m, key) => IsA(Get(m, key), "map") /\ \A e \in ToSet(Get(m, key)[2]) : IsA(e[2], "str")
Enum(m, key, words) == Given(m, key) => IsA(Get(m, key), "str") /\ Get(m, key)[2] \in words
RequiredEnum(m, key, words) == Given(m, key) /\ Enum(m, key, words)
\* A mapping whose every value is valid.
EachValue(v, Ok(_)) == IsA(v, "map") /\ \A e \in ToSet(v[2]) : Ok(e[2])

Platforms == {"android", "ios"}
PreconditionWords == {"skip", "force"}
ReportFormats == {"html", "json"}

\* validateAppEntry, validateEnvironmentEntry, validateSuiteEntry
AppOk(v) ==
    /\ Closely(v, {"id", "platform", "appId", "artifact"})
    /\ RequiredWord(v, "id") /\ RequiredEnum(v, "platform", Platforms) /\ RequiredWord(v, "appId") /\ OptionalString(v, "artifact")
AppsOk(v) == IsA(v, "list") /\ v[2] # <<>> /\ \A app \in ToSet(v[2]) : AppOk(app)
EnvironmentOk(v) ==
    /\ Closely(v, {"app", "vars", "device", "proxy"})
    /\ RequiredWord(v, "app") /\ OptionalStrings(v, "vars") /\ OptionalWord(v, "device") /\ OptionalString(v, "proxy")
LaunchOk(v) == /\ Closely(v, {"mode", "clearData"})
               /\ Enum(v, "mode", {"fresh", "attach"}) /\ OptionalBool(v, "clearData")
FormatsOk(v) == IsA(v, "list") /\ v[2] # <<>> /\ \A f \in ToSet(v[2]) : IsA(f, "str") /\ f[2] \in ReportFormats
ReportOk(v) == Closely(v, {"formats", "outDir"}) /\ FormatsOk(Get(v, "formats")) /\ RequiredWord(v, "outDir")
SomeOf(v, key) == IF Given(v, key) THEN Get(v, key)[2] # <<>> ELSE FALSE
SuiteOk(v) ==
    /\ Closely(v, {"tags", "globs"})
    /\ OptionalWords(v, "tags") /\ OptionalWords(v, "globs")
    /\ SomeOf(v, "tags") \/ SomeOf(v, "globs")

\* checkEnvironmentAppReferences
AppIds(doc) == {Get(app, "id") : app \in ToSet(Get(doc, "apps")[2])}
AppsDeclared(doc) == \A e \in ToSet(Get(doc, "environments")[2]) : Get(e[2], "app") \in AppIds(doc)

\* ValidateDocument; the references are looked at once the fields are right.
ValidConfig(doc) ==
    /\ Closely(doc, {"project", "apps", "environments", "launch", "preconditions", "report", "suites", "testRoots", "dataRoots"})
    /\ RequiredWord(doc, "project") /\ AppsOk(Get(doc, "apps")) /\ EachValue(Get(doc, "environments"), EnvironmentOk)
    /\ Given(doc, "launch") => LaunchOk(Get(doc, "launch"))
    /\ Enum(doc, "preconditions", PreconditionWords)
    /\ Given(doc, "report") => ReportOk(Get(doc, "report"))
    /\ Given(doc, "suites") => EachValue(Get(doc, "suites"), SuiteOk)
    /\ OptionalWords(doc, "testRoots") /\ OptionalWords(doc, "dataRoots")
    /\ AppsDeclared(doc)

\* GenerateJSONSchema: appEntrySchema ... atomyxConfigSchema
AppSchema == Closed([id |-> Nonempty, platform |-> Among(Platforms), appId |-> Nonempty, artifact |-> AnyString],
                    {"id", "platform", "appId"})
EnvironmentSchema == Closed([app |-> Nonempty, vars |-> StringMap, device |-> Nonempty, proxy |-> AnyString], {"app"})
LaunchSchema == Closed([mode |-> Among({"fresh", "attach"}), clearData |-> Boolean], {})
ReportSchema == Closed([formats |-> ArrayOf(Among(ReportFormats), 1), outDir |-> Nonempty], {"formats", "outDir"})
SuiteSchema == Closed([tags |-> ArrayOf(Nonempty, 0), globs |-> ArrayOf(Nonempty, 0)], {})
ConfigSchema ==
    Closed([project |-> Nonempty, apps |-> ArrayOf(AppSchema, 1), environments |-> RecordOf(EnvironmentSchema),
            launch |-> LaunchSchema, preconditions |-> Among(PreconditionWords), report |-> ReportSchema,
            suites |-> RecordOf(SuiteSchema), testRoots |-> ArrayOf(Nonempty, 0), dataRoots |-> ArrayOf(Nonempty, 0)],
           {"project", "apps", "environments"})

------------------------------------------------------------------------------
(* Load and SelectEnvironment.  "No file" and "no environment" are Nil.      *)

\* discoverConfigPath: from the working directory upwards, .yaml before .yml.
Discovered(dirs) ==
    LET found == SelectSeq(dirs, LAMBDA d : DOMAIN d # {})
    IN  IF found = <<>> THEN Nil ELSE IF "yaml" \in DOMAIN found[1] THEN found[1].yaml ELSE found[1].yml

\* ResolveEnvRefs: in the vars of every environment, the selected one or not.
Substituted(text, process) == IF EnvRef(text) # "" THEN Str(process[EnvRef(text)]) ELSE Str(text)
Dangling(env, process) ==
    Given(env, "vars")
      /\ \E e \in ToSet(Get(env, "vars")[2]) : EnvRef(e[2][2]) # "" /\ EnvRef(e[2][2]) \notin DOMAIN process
ResolveVars(env, process) ==
    IF Given(env, "vars")
    THEN LET vars == Get(env, "vars")[2]
         IN  Put(env, "vars", Map([i \in DOMAIN vars |-> <<vars[i][1], Substituted(vars[i][2][2], process)>>]))
    ELSE env
ResolveEnvRefs(doc, process) ==
    LET environments == Get(doc, "environments")[2]
    IN  IF \E e \in ToSet(environments) : Dangling(e[2], process) THEN Error
        ELSE Put(doc, "environments", Map([i \in DOMAIN environments |-> <<environments[i][1], ResolveVars(environments[i][2], process)>>]))

Load(flags, dirs, files, process) ==
    LET path == FlagText(flags, "--config")
        doc == IF path \in {Nil, Str("")} THEN Discovered(dirs)
               ELSE IF path[2] \in DOMAIN files THEN files[path[2]] ELSE Error
    IN  CASE doc = Nil -> Nil
          [] doc = Error \/ ~ValidConfig(doc) -> Error
          [] OTHER -> ResolveEnvRefs(doc, process)

\* The first app with the environment's id.
AppOf(doc, env) ==
    LET apps == SelectSeq(Get(doc, "apps")[2], LAMBDA app : Get(app, "id") = Get(env, "app"))
    IN  IF apps = <<>> THEN Error ELSE apps[1]

SelectEnvironment(doc, name) ==
    LET environments == IF doc = Nil THEN Map(<<>>) ELSE Get(doc, "environments")
        Selected(key) == LET env == Get(environments, key)
                         IN  IF AppOf(doc, env) = Error THEN Error ELSE Put(env, "app", AppOf(doc, env))
    IN  CASE name # Nil ->
               IF HasEquals(name[2]) \/ name[2] \notin Keys(environments) THEN Error ELSE Selected(name[2])
          [] Cardinality(Keys(environments)) = 1 -> Selected(environments[2][1][1])
          [] OTHER -> Nil

------------------------------------------------------------------------------
(* What a run takes from the command line, the environment and the config.   *)

\* resolveCliPreconditionsFlag
CliPreconditions(flags) ==
    LET value == FlagText(flags, "--preconditions")
        shorthand == FlagSet(flags, "--skip-preconditions")
    IN  IF value # Nil /\ (value[2] \notin PreconditionWords \/ (shorthand /\ value # Str("skip"))) THEN Error
        ELSE IF shorthand THEN Str("skip") ELSE value
\* resolvePreconditionsOverride, configPreconditionsOverride
PreconditionsOverride(cli, scenario, doc) ==
    IF cli # Nil THEN cli ELSE IF scenario # Nil THEN scenario ELSE IF doc = Nil THEN Nil ELSE Get(doc, "preconditions")

FlagOr(flags, name, v) == IF FlagText(flags, name) # Nil THEN FlagText(flags, name) ELSE v
FromEnvironment(env, field, default) == IF env = Nil \/ ~Given(env, field) THEN default ELSE Get(env, field)
\* resolvePlatform, descriptorFor
Platform(flags, env) == FlagOr(flags, "--platform", IF env = Nil THEN Str("android") ELSE Get(Get(env, "app"), "platform"))
DeviceID(flags, env) ==
    LET id == FlagOr(flags, "--device", FromEnvironment(env, "device", Str("")))
    IN  IF Platform(flags, env) = Str("android") /\ id = Str("") THEN Str("emulator-5554") ELSE id

\* readVarFile: an absent file, or one that does not map names to texts.
VarFile(flags, files) ==
    LET path == FlagText(flags, "--var-file")
    IN  IF path = Nil THEN Map(<<>>)
        ELSE IF path[2] \notin DOMAIN files THEN Error
        ELSE IF files[path[2]] = Nil THEN Map(<<>>)
        ELSE IF EachValue(files[path[2]], LAMBDA v : IsA(v, "str")) THEN files[path[2]] ELSE Error

Over(m, n) == FoldLeft(LAMBDA out, e : Put(out, e[1], e[2]), m, n[2])

\* Mutant: the file of variables overrides the command line's.
BuildExternalEnvReversed(flags, env, files) ==
    LET pairs == FlagTexts(flags, "--var")
        given == Map([i \in DOMAIN pairs |-> <<Assignment(pairs[i][2])[1], Str(Assignment(pairs[i][2])[2])>>])
    IN  IF VarFile(flags, files) = Error \/ \E p \in ToSet(pairs) : Assignment(p[2]) = <<>> THEN Error
        ELSE Over(Over(IF env = Nil THEN Map(<<>>)
                       ELSE Put(FromEnvironment(env, "vars", Map(<<>>)), "appId", Get(Get(env, "app"), "appId")),
                       given), VarFile(flags, files))

\* buildExternalEnv: the environment's variables, its app's id, the file's, the flags'.
BuildExternalEnv(flags, env, files) ==
    LET pairs == FlagTexts(flags, "--var")
        given == [i \in DOMAIN pairs |-> <<Assignment(pairs[i][2])[1], Str(Assignment(pairs[i][2])[2])>>]
        base == IF env = Nil THEN Map(<<>>)
                ELSE Put(FromEnvironment(env, "vars", Map(<<>>)), "appId", Get(Get(env, "app"), "appId"))
    IN  IF VarFile(flags, files) = Error \/ \E p \in ToSet(pairs) : Assignment(p[2]) = <<>> THEN Error
        ELSE Over(Over(base, VarFile(flags, files)), Map(given))

\* resolveReportOptions, parseReportFormats: nothing unless the command line or the config
\* asks for a report; the command line's formats and directory each win over the config's.
WithoutRepeats(words) ==
    FoldLeft(LAMBDA out, w : IF Str(w) \in ToSet(out) THEN out ELSE Append(out, Str(w)), <<>>, words)
ReportOptions(flags, doc) ==
    LET config == IF doc = Nil THEN Nil ELSE Get(doc, "report")
        list == FlagText(flags, "--report")
        parsed == IF FormatList(list[2]) = <<>> \/ ~(ToSet(FormatList(list[2])) \subseteq ReportFormats) THEN Error
                  ELSE List(WithoutRepeats(FormatList(list[2])))
        formats == IF list # Nil THEN parsed ELSE IF config # Nil THEN Get(config, "formats") ELSE List(<<Str("html")>>)
        dir == FlagOr(flags, "--report-dir", IF config = Nil THEN Str("") ELSE Get(config, "outDir"))
    IN  CASE list = Nil /\ FlagText(flags, "--report-dir") = Nil /\ config = Nil -> Nil
          [] formats = Error \/ dir = Str("") -> Error
          [] OTHER -> Map(<<<<"formats", formats>>, <<"outDir", dir>>>>)

\* What run hands on to the device, the runner and ParseScript, or (not ok) its exit with a usage error.
Configure(flags, env, doc, scenario, files) ==
    LET external == BuildExternalEnv(flags, env, files)
    IN  [ok |-> /\ CliPreconditions(flags) # Error /\ ReportOptions(flags, doc) # Error /\ external # Error
                /\ Platform(flags, env)[2] \in Platforms,
         platform |-> Platform(flags, env), device |-> DeviceID(flags, env),
         proxy |-> FlagOr(flags, "--proxy", FromEnvironment(env, "proxy", Str(""))),
         preconditions |-> PreconditionsOverride(CliPreconditions(flags), scenario, doc),
         report |-> ReportOptions(flags, doc), external |-> external]
=============================================================================
