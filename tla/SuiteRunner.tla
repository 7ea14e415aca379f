---------------------------- MODULE SuiteRunner -----------------------------
(***************************************************************************)
(* One command of the CLI, from its flags to its exit code: `run` of a     *)
(* script or a scenario file (cli.RunScript), or `suite` (cli.RunSuite)    *)
(* over the files a selector names.  scenario.ScenarioRunner and           *)
(* scenario.SuiteRunner give each script a ScriptRunner of its own; device,*)
(* context and capture are shared.  Which file does not parse, whether the *)
(* device connects and whether the report can be written are open.         *)
(***************************************************************************)
EXTENDS ScriptRunner, SuiteDiscovery

CONSTANTS
    Commands,   \* command lines: run with a file, suite with a selector
    TestFile,   \* file -> what it holds: a script, or a scenario and its scripts
    CliPre,     \* the values of --preconditions
    ConfigPre   \* the values of the project config's preconditions

Overrides == {"none", "skip", "force"}

ASSUME CommandShape ==
    /\ \A c \in Commands :
           \/ c.name = "run" /\ c.file \in Files
           \/ c.name = "suite" /\ c.testRoots \subseteq Seq(STRING)
    /\ TestFile \in [Files -> [kind : {"script", "scenario"}, scripts : Seq(Flows),
                               onFailure : {"stop", "continue"}, pre : Overrides]]
    /\ \A f \in Files :
           TestFile[f].kind = "script" => Len(TestFile[f].scripts) = 1
    /\ CliPre \subseteq Overrides /\ ConfigPre \subseteq Overrides

VARIABLES
    command,    \* the command line
    cliPre,     \* its precondition override
    configPre,  \* the project's
    stage,      \* where the command is
    entries,    \* the files it runs, in order
    statuses,   \* of the scripts of the scenario that runs
    results,    \* of the entries
    connected,  \* the driver is connected
    exit,       \* passed (0), failed (1), misused (2), or running
    passed      \* history: <<entry, script>> whose Run reported success

commandLine == <<command, cliPre, configPre>>
progress == <<statuses, results, passed>>
commandVars == <<commandLine, stage, entries, progress, connected, exit>>
runnerVars == <<runVars, captureVars>>
vars == <<commandVars, runnerVars>>

Stages == {"flags", "connect", "entries", "entry", "script", "scenario", "child", "report", "exited"}

SuiteTypeOK ==
    /\ TypeOK
    /\ command \in Commands /\ cliPre \in CliPre /\ configPre \in ConfigPre
    /\ stage \in Stages
    /\ entries \in Seq(Files) /\ entry \in 0..Len(entries)
    /\ statuses \in Seq({"passed", "failed", "errored", "skipped"})
    /\ results \in Seq({"passed", "failed"})
    /\ connected \in BOOLEAN /\ exit \in {"running", "passed", "failed", "misused"}
    /\ passed \subseteq (1..Len(entries)) \X Nat

Init ==
    /\ RunnerInit
    /\ command \in Commands /\ cliPre \in CliPre /\ configPre \in ConfigPre
    /\ stage = "flags" /\ entries = <<>> /\ statuses = <<>> /\ results = <<>>
    /\ connected = FALSE /\ exit = "running" /\ passed = {}

-----------------------------------------------------------------------------
Suite == command.name = "suite"
Current == TestFile[entries[entry]]

\* Every way out passes the deferred Disconnect.
Exit(code) ==
    /\ exit' = code /\ stage' = "exited" /\ connected' = FALSE
    /\ UNCHANGED <<commandLine, entries, statuses, results>>

Go(to) == stage' = to /\ UNCHANGED <<commandLine, entries, connected, exit>>

\* An entry that gave no result: a suite records it and goes on, run gives up.
EntryBroken ==
    /\ IF Suite THEN Go("entries") /\ results' = Append(results, "failed") /\ statuses' = <<>>
                ELSE Exit("failed")
    /\ UNCHANGED passed

EntryEnds(ok) ==
    /\ results' = Append(results, IF ok THEN "passed" ELSE "failed") /\ statuses' = <<>>
    /\ Go(IF Suite THEN "entries" ELSE "report")

-----------------------------------------------------------------------------
(* Flags, project config and selector.                                      *)

Misuse ==
    /\ stage = "flags"
    /\ Exit("misused")
    /\ UNCHANGED <<passed, runnerVars>>

\* A cancellation while the files are looked for counts as a misuse, too.
SelectFlows ==
    /\ stage = "flags" /\ Suite
    /\ IF ctxDone \/ Refused(command) \/ Resolve(command) = <<>>
       THEN Exit("misused")
       ELSE \/ Exit("failed")       \* one of the files cannot be read
            \/ /\ entries' = Resolve(command) /\ stage' = "connect"
               /\ UNCHANGED <<commandLine, statuses, results, connected, exit>>
    /\ UNCHANGED <<passed, runnerVars>>

OpenFile ==
    /\ stage = "flags" /\ ~Suite
    /\ \/ Exit("failed")
       \/ /\ entries' = <<command.file>> /\ stage' = "connect"
          /\ UNCHANGED <<commandLine, statuses, results, connected, exit>>
    /\ UNCHANGED <<passed, runnerVars>>

\* The device is reached and the adapter exists, before anything is parsed.
Connect ==
    /\ stage = "connect"
    /\ \/ Exit("failed")
       \/ /\ adapter # "unknown"
          /\ stage' = "entries" /\ connected' = TRUE
          /\ UNCHANGED <<commandLine, entries, statuses, results, exit>>
    /\ UNCHANGED <<passed, runnerVars>>

-----------------------------------------------------------------------------
(* scenario.SuiteRunner: one entry after the other, each from a clean slate.  *)

BeginEntry ==
    /\ stage = "entries" /\ Suite /\ entry < Len(entries) /\ ~ctxDone
    /\ entry' = entry + 1 /\ launched' = 0 /\ ResetCapture
    /\ Go("entry")
    /\ UNCHANGED <<progress, main, loader, override, frames, ret, events, dedup, ctxDone,
                   outcome, captured, adapter, proxyFile, confirmed, failed, refused>>

SuiteCancelled ==
    /\ stage = "entries" /\ Suite /\ entry < Len(entries) /\ ctxDone
    /\ Exit("failed")
    /\ UNCHANGED <<passed, runnerVars>>

SuiteEnds ==
    /\ stage = "entries" /\ Suite /\ entry = Len(entries)
    /\ Go("report")
    /\ UNCHANGED <<progress, runnerVars>>

\* `run`: the one file, with the capture and the device as they are.
BeginFile ==
    /\ stage = "entries" /\ ~Suite
    /\ entry' = 1
    /\ Go("entry")
    /\ UNCHANGED <<progress, main, loader, override, frames, ret, events, dedup, ctxDone,
                   outcome, device, confirmed, failed>>

EntryUnparsable ==
    /\ stage = "entry"
    /\ EntryBroken
    /\ UNCHANGED runnerVars

\* Mutant: the project config goes before the scenario's own field.
PreconditionsConfigFirst(flowLevel) ==
    IF cliPre # "none" THEN cliPre ELSE IF configPre # "none" THEN configPre ELSE flowLevel

\* resolvePreconditionsOverride: the flag, then the scenario's own field, then the
\* project config.
PreconditionsFor(flowLevel) ==
    IF cliPre # "none" THEN cliPre ELSE IF flowLevel # "none" THEN flowLevel ELSE configPre

\* Only `run` of a script gives its runner a flow loader.
RunScriptEntry ==
    /\ stage = "entry" /\ Current.kind = "script"
    /\ StartRun(Current.scripts[1], ~Suite, PreconditionsFor("none"))
    /\ Go("script")
    /\ UNCHANGED progress

Passes(child) == passed' = IF result = "ok" THEN passed \cup {<<entry, child>>} ELSE passed

ScriptEnds ==
    /\ stage = "script"
    /\ DropRun /\ Passes(1)
    /\ \/ ~Suite /\ result = "error" /\ Exit("failed")
       \/ (Suite \/ result # "error") /\ EntryEnds(result = "ok")

-----------------------------------------------------------------------------
(* scenario.ScenarioRunner: the scripts of one scenario file.               *)

RunScenarioEntry ==
    /\ stage = "entry" /\ Current.kind = "scenario"
    /\ Go("scenario")
    /\ UNCHANGED <<progress, runnerVars>>

MoreScripts == stage = "scenario" /\ Len(statuses) < Len(Current.scripts)
Child == Len(statuses) + 1
AddStatus(status) == statuses' = Append(statuses, status)

\* stopRequested
Stopping == Current.onFailure = "stop" /\ \E j \in DOMAIN statuses : statuses[j] # "passed"

ScenarioCancelled ==
    /\ MoreScripts /\ ctxDone
    /\ EntryBroken
    /\ UNCHANGED runnerVars

SkipScript ==
    /\ MoreScripts /\ ~ctxDone /\ Stopping
    /\ AddStatus("skipped")
    /\ Go("scenario")
    /\ UNCHANGED <<results, passed, runnerVars>>

\* runOne: the script cannot be loaded or parsed.
ScriptUnloadable ==
    /\ MoreScripts /\ ~ctxDone /\ ~Stopping
    /\ AddStatus("errored")
    /\ Go("scenario")
    /\ UNCHANGED <<results, passed, runnerVars>>

RunChild ==
    /\ MoreScripts /\ ~ctxDone /\ ~Stopping
    /\ StartRun(Current.scripts[Child], FALSE, PreconditionsFor(Current.pre))
    /\ Go("child")
    /\ UNCHANGED progress

StatusOf == [ok |-> "passed", failed |-> "failed", error |-> "errored"]

ChildEnds ==
    /\ stage = "child"
    /\ DropRun /\ Passes(Child)
    /\ AddStatus(StatusOf[result])
    /\ Go("scenario")
    /\ UNCHANGED results

\* Mutant: a script that could not be loaded does not count.
ScenarioEndsLenient ==
    /\ stage = "scenario" /\ ~MoreScripts
    /\ EntryEnds(\A j \in DOMAIN statuses : statuses[j] \in {"passed", "errored"})
    /\ UNCHANGED <<passed, runnerVars>>

ScenarioEnds ==
    /\ stage = "scenario" /\ ~MoreScripts
    /\ EntryEnds(\A j \in DOMAIN statuses : statuses[j] = "passed")
    /\ UNCHANGED <<passed, runnerVars>>

-----------------------------------------------------------------------------
\* The results are printed, and the report, if one is asked for, written or not.
Report ==
    /\ stage = "report"
    /\ \/ Exit("failed")
       \/ Exit(IF \A i \in DOMAIN results : results[i] = "passed" THEN "passed" ELSE "failed")
    /\ UNCHANGED <<passed, runnerVars>>

Command ==
    \/ Misuse \/ SelectFlows \/ OpenFile \/ Connect
    \/ BeginEntry \/ SuiteCancelled \/ SuiteEnds \/ BeginFile
    \/ EntryUnparsable \/ RunScriptEntry \/ ScriptEnds
    \/ RunScenarioEntry \/ ScenarioCancelled \/ SkipScript \/ ScriptUnloadable
    \/ RunChild \/ ChildEnds \/ ScenarioEnds
    \/ Report

Scripted == Run /\ UNCHANGED commandVars
Signalled == exit = "running" /\ Cancel /\ UNCHANGED commandVars
Proxied == exit = "running" /\ connected /\ Traffic /\ UNCHANGED commandVars

Next == Command \/ Scripted \/ Signalled \/ Proxied
Spec == Init /\ [][Next]_vars

\* The command's one goroutine goes on: every command of a script has a time-out.
FairSpec == Spec /\ WF_vars(Command \/ Scripted)

-----------------------------------------------------------------------------
\* The files a selector is documented to name: a YAML file that some test root leads to
\* through no hidden directory, that matches a glob below that root, if there are globs,
\* and carries a tag, if there are tags.
Names(selector, f) ==
    /\ f \notin NotYaml
    /\ selector.tags = {} \/ Tags[f] \cap selector.tags # {}
    /\ \E n \in 0..Len(Path[f]) - 1 :
           LET below == From(Path[f], n + 1)
           IN  /\ SubSeq(Path[f], 1, n) \in SearchDirs(selector.testRoots)
               /\ ToSet(below) \cap NotWalked = {}
               /\ selector.globs = {} \/ \E glob \in selector.globs : MatchesGlob(below, glob)

\* A suite runs the files its selector is documented to name, each once: none that a
\* hidden directory hides, a glob or a tag leaves out or two roots reach twice, and none
\* less (docs/cli.md on suite, and Resolve's comment).
SelectionExact ==
    Suite /\ stage = "connect" =>
        /\ entries # <<>> /\ IsInjective(entries)
        /\ \A f \in Files : f \in ToSet(entries) <=> Names(command, f)

\* The exit code tells the truth: 0 only if every script of every file the command line
\* names has run and passed, however entries and scripts failed, were skipped or were
\* cancelled before, and the files of a suite are those its selector names; 2 only if
\* nothing was run (the exit codes of docs/cli.md and of RunScript's and RunSuite's
\* comments).
ExitHonest ==
    /\ SelectionExact
    /\ exit = "passed" =>
           \A i \in DOMAIN entries :
               \A j \in DOMAIN TestFile[entries[i]].scripts : <<i, j>> \in passed
    /\ exit = "misused" => entry = 0 /\ result = "idle"

\* An entry of a suite depends on no other: the app it finds launched it has launched
\* itself, and the traffic it captures was written after it began, however reads fell
\* into lines and restarts of the proxy between reads; unless the capture file could
\* not be read when the entry began (ResetLaunchedApps and NetworkCapture.Reset in
\* SuiteRunner; docs/getting-started.md on clean execution contexts).
EntriesIndependent ==
    Suite /\ result = "running" =>
        /\ launched \in {0, entry}
        /\ captured > mark \/ captured = 0 \/ blind

\* The script's own steps start only after every flow it requires has completed and each
\* of its preconditions was last seen to hold, whatever its setup did, except those that
\* the flag, or else the scenario, or else the project config, or else their own policy
\* say to skip (the order of runRequiredFlows, runPreconditions and the step loop in Run,
\* under the override that RunScript, RunSuite and the runners hand down).
MainGated ==
    In("main", "checked") \/ In("main", "run") =>
        /\ \A j \in 1..Len(Requires[main]) : Requires[main][j] \in completed
        /\ \A j \in 1..Len(Pre[main]) :
               \/ <<main, j>> \in confirmed
               \/ LET words == <<cliPre, IF stage = "child" THEN Current.pre ELSE "none",
                                 configPre, Pre[main][j].policy>>
                      said == {k \in 1..4 : words[k] # "none"}
                  IN  words[CHOOSE k \in said : \A l \in said : k <= l] = "skip"

\* A failure stops what it must: a run starts no further step and does not report
\* success, in however deep a nested list, setup or required flow it failed; and a
\* scenario whose onFailure is stop starts no further script.
FailureStops ==
    [][/\ result = "running" /\ failed => index' = index /\ result' # "ok"
       /\ stage = "scenario" /\ stage' = "child" /\ Current.onFailure = "stop" =>
              \A j \in 1..Len(statuses) : <<entry, j>> \in passed]_vars

\* Every command ends with an exit code, if no flow reaches itself.
Terminates == <>(exit # "running")

\* A flow file that a script names is loaded when the script runs (docs: "Execute another
\* YML file as a sub-flow", "Required flows run in order, before the main steps").  A
\* suite and a scenario give their runners no loader.
FlowsReachable == ~refused
=============================================================================
