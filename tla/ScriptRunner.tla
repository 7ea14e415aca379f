---------------------------- MODULE ScriptRunner ----------------------------
(***************************************************************************)
(* runner.ScriptRunner: one Run after another, each of a new ScriptRunner, *)
(* over one context, one Orchestra and one capture.  A Run goes through    *)
(* required flows, preconditions with their setups, the script's own       *)
(* steps, and the nested step lists that runFlow, handle and branch steps  *)
(* run.  The goroutine's call stack is the sequence of frames, innermost   *)
(* first.  What a command or a check finds on the device is open, except   *)
(* for the app a launch finds launched and the traffic a capture finds;    *)
(* the context may be cancelled at any time.                               *)
(***************************************************************************)
EXTENDS NetworkCapture, FiniteSets

CONSTANTS
    Flows,      \* the scripts, flow files and inline step lists
    InFile,     \* the flows that are files, which only a loader reads
    NeedsProxy, \* the flows that declare `proxy: required`
    Requires,   \* flow -> the flows it requires
    Pre,        \* flow -> its preconditions: setup list and policy
    Body        \* flow -> its steps: kind, and the list a nested one runs

Policies == {"skip", "always", "ensure"}
Kinds == {"plain", "launch", "capture", "runFlow", "branch"}

ASSUME ScriptShape ==
    /\ Flows # {} /\ InFile \subseteq Flows /\ NeedsProxy \subseteq Flows
    /\ Requires \in [Flows -> Seq(Flows)]
    /\ Pre \in [Flows -> Seq([setup : Flows, policy : Policies])]
    /\ Body \in [Flows -> Seq([kind : Kinds, flow : Flows])]

VARIABLES
    entry,      \* the file of the command that the run belongs to, by position
    main,       \* the script that is run
    loader,     \* FlowLoader is configured
    override,   \* PreconditionsOverride of the run
    frames,     \* the calls that have not returned, innermost first
    ret,        \* the CommandResult the last call returned
    depth,      \* runState.depth
    index,      \* runState.globalStepIndex
    open,       \* the StepStarted events without their StepCompleted
    completed,  \* completedRequires
    setups,     \* completedPreconditionSetups
    ctxDone,    \* the run's context is done
    result,     \* of Run: idle, running, ok, failed (a ScriptResult), error
    abort,      \* RunAbort.Reason, or "none"
    launched,   \* launchedApps holds the app; of the entry that launched it, or 0
    captured,   \* the request the run captured last, or 0
    confirmed,  \* history: the preconditions whose last check held
    failed,     \* history: a step, a setup or a check has failed
    late,       \* history: steps started after the context was done
    refused     \* history: a flow file was refused for lack of a loader

runVars == <<entry, main, loader, override, frames, ret, depth, index, open, completed, setups,
             ctxDone, result, abort, launched, captured, confirmed, failed, late, refused>>
events == <<depth, index, open, late>>
dedup == <<completed, setups>>
outcome == <<result, abort>>
fixed == <<entry, main, loader, override, ctxDone>>
device == <<launched, captured, captureVars, refused>>

Calls == [at : {"requires", "pre", "flow", "steps", "main"}, of : Flows, i : Nat \ {0},
          phase : {"next", "checked", "run", "call", "confirm", "classify"}]

TypeOK ==
    /\ CaptureTypeOK
    /\ entry \in Nat /\ main \in Flows /\ loader \in BOOLEAN
    /\ override \in {"none", "skip", "force"}
    /\ frames \in Seq(Calls)
    /\ ret \in {"none", "ok", "fail"}
    /\ depth \in Nat /\ index \in Nat /\ late \in Nat
    /\ open \in Seq([index : Nat, depth : Nat])
    /\ completed \subseteq Flows /\ setups \subseteq Flows
    /\ ctxDone \in BOOLEAN /\ failed \in BOOLEAN
    /\ result \in {"idle", "running", "ok", "failed", "error"}
    /\ abort \in {"none", "proxyRequired", "deviceLost"}
    /\ launched \in Nat /\ captured \in 0..begun
    /\ confirmed \subseteq Flows \X Nat /\ refused \in BOOLEAN

NoScript == CHOOSE f \in Flows : TRUE
Frame(at, of) == [at |-> at, of |-> of, i |-> 1, phase |-> "next"]

RunnerInit ==
    /\ CaptureInit
    /\ entry = 0 /\ main = NoScript /\ loader = FALSE /\ override = "none"
    /\ frames = <<>> /\ ret = "none"
    /\ depth = 0 /\ index = 0 /\ open = <<>>
    /\ completed = {} /\ setups = {}
    /\ result = "idle" /\ abort = "none"
    /\ ctxDone = FALSE /\ launched = 0 /\ captured = 0
    /\ confirmed = {} /\ failed = FALSE /\ late = 0 /\ refused = FALSE

\* A new ScriptRunner is asked to Run a script.
StartRun(script, withLoader, preconditions) ==
    /\ result = "idle"
    /\ main' = script /\ loader' = withLoader /\ override' = preconditions
    /\ result' = "running" /\ frames' = <<Frame("requires", script)>>
    /\ UNCHANGED <<entry, ret, depth, index, open, dedup, ctxDone, abort, launched, captured,
                   captureVars, confirmed, failed, late, refused>>

\* Its caller has taken the result; the runner and its runState are dropped, and the
\* next one starts with empty sets, variables and captures.
DropRun ==
    /\ result \notin {"idle", "running"}
    /\ main' = NoScript /\ loader' = FALSE /\ override' = "none"
    /\ frames' = <<>> /\ ret' = "none"
    /\ depth' = 0 /\ index' = 0 /\ open' = <<>>
    /\ completed' = {} /\ setups' = {}
    /\ result' = "idle" /\ abort' = "none"
    /\ captured' = 0 /\ confirmed' = {} /\ failed' = FALSE
    /\ UNCHANGED <<entry, ctxDone, launched, captureVars, late, refused>>

-----------------------------------------------------------------------------
Top == Head(frames)
In(at, phase) ==
    result = "running" /\ frames # <<>> /\ Top.at = at /\ Top.phase = phase
SetTop(call) == frames' = <<call>> \o Tail(frames)
Phase(phase) == SetTop([Top EXCEPT !.phase = phase])
Advance == SetTop([Top EXCEPT !.i = @ + 1, !.phase = "next"])
Call(calls, phase) ==
    frames' = calls \o <<[Top EXCEPT !.phase = phase]>> \o Tail(frames) /\ ret' = "none"
Return(r) == frames' = Tail(frames) /\ ret' = r
Finish(r) == result' = r /\ frames' = <<>>

\* runNestedSteps
CallSteps(list, phase) == Call(<<Frame("steps", list)>>, phase) /\ depth' = depth + 1
\* resolveSteps, resolveStepsOrFile: a flow file needs a loader, an inline list does not.
Loads(list) == list \in InFile => loader
Refuse(list) == refused' = (refused \/ ~Loads(list))
\* A flow's preconditions and then its steps, in this run's state.
CallFlow(flow, phase) == Call(<<Frame("pre", flow), Frame("flow", flow)>>, phase)

-----------------------------------------------------------------------------
(* runRequiredFlows, for the script's own requires list: a required flow's   *)
(* own list is not read, so callStack holds at most the flow that runs, and  *)
(* within one Run the circular dependency it looks for cannot be found.      *)

\* `proxy: required` without a capture adapter: refused before anything runs.
NoProxy == main \in NeedsProxy /\ adapter = "none"
Requiring == In("requires", "next") /\ ~NoProxy

ProxyRequired ==
    /\ In("requires", "next") /\ NoProxy
    /\ Finish("failed") /\ abort' = "proxyRequired"
    /\ UNCHANGED <<ret, events, dedup, fixed, device, confirmed, failed>>

Required == Requires[main][Top.i]

RequireDone ==
    /\ Requiring /\ Top.i <= Len(Requires[main]) /\ Required \in completed
    /\ Advance
    /\ UNCHANGED <<ret, events, dedup, fixed, device, outcome, confirmed, failed>>

\* The required flow cannot be loaded: Run returns an error, or a failed result when
\* no loader is configured, which is every run of a scenario or a suite.
RequireUnloadable ==
    /\ Requiring /\ Top.i <= Len(Requires[main])
    /\ Required \notin completed
    /\ \/ loader /\ Finish("error") /\ UNCHANGED refused
       \/ ~loader /\ Finish("failed") /\ refused' = TRUE
    /\ UNCHANGED <<ret, events, dedup, fixed, launched, captured, captureVars, abort, confirmed, failed>>

RequireFlow ==
    /\ Requiring /\ loader /\ Top.i <= Len(Requires[main])
    /\ Required \notin completed
    /\ CallFlow(Required, "call")
    /\ UNCHANGED <<events, dedup, fixed, device, outcome, confirmed, failed>>

RequireReturns ==
    /\ In("requires", "call") /\ ret # "none"
    /\ IF ret = "ok"
       THEN completed' = completed \cup {Required} /\ Advance /\ UNCHANGED result
       ELSE Finish("failed") /\ UNCHANGED completed
    /\ UNCHANGED <<ret, events, setups, fixed, device, abort, confirmed, failed>>

RequiresDone ==
    /\ Requiring /\ Top.i > Len(Requires[main])
    /\ frames' = <<Frame("pre", main), Frame("main", main)>> /\ ret' = "none"
    /\ UNCHANGED <<events, dedup, fixed, device, outcome, confirmed, failed>>

-----------------------------------------------------------------------------
(* runPreconditions.                                                        *)

Precondition == Pre[Top.of][Top.i]
\* resolveEffectivePolicy
Policy ==
    CASE override = "skip" -> "skip"
      [] override = "force" -> "always"
      [] OTHER -> Precondition.policy
Pending == Top.i <= Len(Pre[Top.of])
Fail == Return("fail") /\ failed' = TRUE
Record(holds) ==
    confirmed' = IF holds THEN confirmed \cup {<<Top.of, Top.i>>}
                          ELSE confirmed \ {<<Top.of, Top.i>>}

PreDone ==
    /\ In("pre", "next") /\ ~Pending
    /\ Return("ok")
    /\ UNCHANGED <<events, dedup, fixed, device, outcome, confirmed, failed>>

PreCancelled ==
    /\ In("pre", "next") /\ Pending /\ ctxDone
    /\ Fail
    /\ UNCHANGED <<events, dedup, fixed, device, outcome, confirmed>>

PreSkip ==
    /\ In("pre", "next") /\ Pending /\ ~ctxDone /\ Policy = "skip"
    /\ Advance
    /\ UNCHANGED <<ret, events, dedup, fixed, device, outcome, confirmed, failed>>

\* runSetupDeduped; its file may not load.
PreAlways ==
    /\ In("pre", "next") /\ Pending /\ ~ctxDone /\ Policy = "always"
    /\ \/ /\ Precondition.setup \in setups /\ Phase("confirm")
          /\ UNCHANGED <<ret, depth, failed, refused>>
       \/ /\ Precondition.setup \notin setups /\ Loads(Precondition.setup)
          /\ CallSteps(Precondition.setup, "call")
          /\ UNCHANGED <<failed, refused>>
       \/ /\ Precondition.setup \in InFile \ setups
          /\ Fail /\ Refuse(Precondition.setup) /\ UNCHANGED depth
    /\ UNCHANGED <<index, open, late, dedup, fixed, launched, captured, captureVars, outcome,
                   confirmed>>

\* The check holds; or it does not and the setup runs, or does not load; or the check
\* itself breaks.
PreEnsure ==
    /\ In("pre", "next") /\ Pending /\ ~ctxDone /\ Policy = "ensure"
    /\ \/ Record(TRUE) /\ Advance /\ UNCHANGED <<ret, depth, failed, refused>>
       \/ /\ Record(FALSE) /\ Loads(Precondition.setup)
          /\ CallSteps(Precondition.setup, "call") /\ UNCHANGED <<failed, refused>>
       \/ /\ Record(FALSE) /\ Precondition.setup \in InFile
          /\ Fail /\ Refuse(Precondition.setup) /\ UNCHANGED depth
       \/ Record(FALSE) /\ Fail /\ UNCHANGED <<depth, refused>>
    /\ UNCHANGED <<index, open, late, dedup, fixed, launched, captured, captureVars, outcome>>

PreSetupReturns ==
    /\ In("pre", "call") /\ ret # "none"
    /\ IF ret = "ok"
       THEN /\ Phase("confirm") /\ UNCHANGED <<ret, failed>>
            /\ setups' = IF Policy = "always" THEN setups \cup {Precondition.setup} ELSE setups
       ELSE Fail /\ UNCHANGED setups
    /\ UNCHANGED <<events, completed, fixed, device, outcome, confirmed>>

\* Mutant: a check that does not hold after the setup is tried again.
PreConfirmRetries ==
    /\ In("pre", "confirm")
    /\ \/ Record(TRUE) /\ Advance
       \/ Record(FALSE) /\ Phase("next")
    /\ UNCHANGED <<ret, events, dedup, fixed, device, outcome, failed>>

PreConfirm ==
    /\ In("pre", "confirm")
    /\ \/ Record(TRUE) /\ Advance /\ UNCHANGED <<ret, failed>>
       \/ Record(FALSE) /\ Fail
    /\ UNCHANGED <<events, dedup, fixed, device, outcome>>

-----------------------------------------------------------------------------
(* A required or sub-flow: its steps follow its preconditions.              *)

FlowSteps ==
    /\ In("flow", "next") /\ ret # "none"
    /\ IF ret = "ok" THEN CallSteps(Top.of, "call") ELSE Return("fail") /\ UNCHANGED depth
    /\ UNCHANGED <<index, open, late, dedup, fixed, device, outcome, confirmed, failed>>

FlowReturns ==
    /\ In("flow", "call") /\ ret # "none"
    /\ Return(ret)
    /\ UNCHANGED <<events, dedup, fixed, device, outcome, confirmed, failed>>

-----------------------------------------------------------------------------
(* The step loops: Run's own ("main") and runNestedSteps ("steps").         *)

Step == Body[Top.of][Top.i]

\* Mutant: leaving a nested list by cancellation skips the deferred depth--.
LeaveStepsKeepsDepth(r) ==
    /\ Return(r)
    /\ depth' = IF r = "fail" /\ ctxDone THEN depth ELSE depth - 1

LeaveSteps(r) == Return(r) /\ depth' = depth - 1

MainStart ==
    /\ In("main", "next") /\ ret # "none"
    /\ ret' = "none"
    /\ IF ret = "ok" THEN UNCHANGED <<frames, result>> ELSE Finish("failed")
    /\ UNCHANGED <<events, dedup, fixed, device, abort, confirmed, failed>>

AtStep(phase) == In("main", phase) \/ In("steps", phase)
MoreSteps == ret = "none" /\ Top.i <= Len(Body[Top.of])
NoMoreSteps == ret = "none" /\ Top.i > Len(Body[Top.of])

MainDone ==
    /\ In("main", "next") /\ NoMoreSteps
    /\ Finish("ok")
    /\ UNCHANGED <<ret, events, dedup, fixed, device, abort, confirmed, failed>>

\* Between steps, or in the delay before a step that is not the first.
MainCancelled ==
    /\ ctxDone
    /\ \/ In("main", "next") /\ MoreSteps
       \/ In("main", "checked") /\ Top.i > 1
    /\ Finish("error")
    /\ UNCHANGED <<ret, events, dedup, fixed, device, abort, confirmed, failed>>

NestedDone ==
    /\ In("steps", "next") /\ NoMoreSteps
    /\ LeaveSteps("ok")
    /\ UNCHANGED <<index, open, late, dedup, fixed, device, outcome, confirmed, failed>>

NestedCancelled ==
    /\ In("steps", "next") /\ MoreSteps /\ ctxDone
    /\ LeaveSteps("fail") /\ failed' = TRUE
    /\ UNCHANGED <<index, open, late, dedup, fixed, device, outcome, confirmed>>

\* The registry has no such command (left open): the list fails without an event.
UnknownCommand ==
    /\ AtStep("next") /\ MoreSteps /\ ~ctxDone
    /\ failed' = TRUE
    /\ \/ Top.at = "main" /\ Finish("failed") /\ UNCHANGED <<ret, depth>>
       \/ Top.at = "steps" /\ LeaveSteps("fail") /\ UNCHANGED result
    /\ UNCHANGED <<index, open, late, dedup, fixed, device, abort, confirmed>>

\* Mutant: the context is not looked at between steps.
CheckStepBlind ==
    /\ AtStep("next") /\ MoreSteps
    /\ Phase("checked")
    /\ UNCHANGED <<ret, events, dedup, fixed, device, outcome, confirmed, failed>>

CheckStep ==
    /\ AtStep("next") /\ MoreSteps /\ ~ctxDone
    /\ Phase("checked")
    /\ UNCHANGED <<ret, events, dedup, fixed, device, outcome, confirmed, failed>>

\* shouldSkip, LaunchApp: the app is launched already: no event, no result.
Skipped == Step.kind = "launch" /\ launched # 0

SkipStep ==
    /\ AtStep("checked") /\ Skipped
    /\ Advance
    /\ UNCHANGED <<ret, events, dedup, fixed, device, outcome, confirmed, failed>>

StartStep ==
    /\ AtStep("checked") /\ ~Skipped
    /\ Phase("run")
    /\ index' = index + 1
    /\ open' = Append(open, [index |-> index,
                             depth |-> IF Top.at = "main" THEN 0 ELSE depth])
    /\ late' = IF ctxDone THEN late + 1 ELSE late
    /\ UNCHANGED <<ret, depth, dedup, fixed, device, outcome, confirmed, failed>>

\* The step's StepCompleted and what the loop does with its result.
StepEnds(r) ==
    /\ open' = SubSeq(open, 1, Len(open) - 1)
    /\ \/ r = "ok" /\ Advance /\ ret' = "none" /\ UNCHANGED <<depth, failed>>
       \/ /\ r = "fail" /\ Top.at = "steps"
          /\ LeaveSteps("fail") /\ failed' = TRUE
       \/ /\ r = "fail" /\ Top.at = "main"
          /\ Phase("classify") /\ ret' = "none" /\ failed' = TRUE /\ UNCHANGED depth
    /\ UNCHANGED <<index, late>>

\* A command's own result; a panic in it is a failure.
RunPlain ==
    /\ AtStep("run") /\ Step.kind = "plain"
    /\ \E r \in {"ok", "fail"} : StepEnds(r)
    /\ UNCHANGED <<dedup, fixed, device, outcome, confirmed>>

\* LaunchApp: a launch that fails gives its claim back.
RunLaunch ==
    /\ AtStep("run") /\ Step.kind = "launch"
    /\ \/ StepEnds("ok") /\ launched' = entry
       \/ StepEnds("fail") /\ UNCHANGED launched
    /\ UNCHANGED <<dedup, fixed, captured, captureVars, refused, outcome, confirmed>>

\* CaptureCommand, NullCapture and FileCapture.WaitForRequest: one turn of its loop,
\* which ends with a match, in the sleep, or after it when the time is up.
RunCapture ==
    /\ AtStep("run") /\ Step.kind = "capture"
    /\ \/ adapter = "none" /\ StepEnds("fail") /\ UNCHANGED <<captured, reader>>
       \/ /\ adapter = "file" /\ \E readable \in BOOLEAN : LoadNew(readable)
          /\ \/ captured' \in FindMatch(buffer') /\ StepEnds("ok")
             \/ buffer' = {} /\ UNCHANGED <<captured, frames, ret, events, failed>>
             \/ buffer' = {} /\ UNCHANGED captured /\ StepEnds("fail")
    /\ UNCHANGED <<dedup, fixed, launched, adapter, proxyFile, mark, blind, refused, outcome,
                   confirmed>>

\* The sub-flow cannot be loaded, or runs.
RunFlow ==
    /\ AtStep("run") /\ Step.kind = "runFlow"
    /\ \/ StepEnds("fail") /\ refused' = (refused \/ ~loader)
       \/ loader /\ CallFlow(Step.flow, "call") /\ UNCHANGED <<events, failed, refused>>
    /\ UNCHANGED <<dedup, fixed, launched, captured, captureVars, outcome, confirmed>>

\* handle and branch: a branch matches and its steps run, or cannot be loaded; or none
\* matches, which `otherwise` takes for a success or a failure.
RunBranch ==
    /\ AtStep("run") /\ Step.kind = "branch"
    /\ \/ Loads(Step.flow) /\ CallSteps(Step.flow, "call")
          /\ UNCHANGED <<index, open, late, failed, refused>>
       \/ Step.flow \in InFile /\ StepEnds("fail") /\ Refuse(Step.flow)
       \/ \E r \in {"ok", "fail"} : StepEnds(r) /\ UNCHANGED refused
    /\ UNCHANGED <<dedup, fixed, launched, captured, captureVars, outcome, confirmed>>

\* Mutant: the result of the nested list is dropped.
StepReturnsOk ==
    /\ AtStep("call") /\ ret # "none"
    /\ StepEnds("ok")
    /\ UNCHANGED <<dedup, fixed, device, outcome, confirmed>>

StepReturns ==
    /\ AtStep("call") /\ ret # "none"
    /\ StepEnds(ret)
    /\ UNCHANGED <<dedup, fixed, device, outcome, confirmed>>

\* classifyStepFailure: no probe once the context is done.
Classify ==
    /\ In("main", "classify")
    /\ Finish("failed")
    /\ abort' \in IF ctxDone THEN {"none"} ELSE {"none", "deviceLost"}
    /\ UNCHANGED <<ret, events, dedup, fixed, device, confirmed, failed>>

-----------------------------------------------------------------------------
\* The process is told to stop.
Cancel ==
    /\ ~ctxDone /\ ctxDone' = TRUE
    /\ UNCHANGED <<entry, main, loader, override, frames, ret, events, dedup, outcome, device,
                   confirmed, failed>>

Traffic == Proxy /\ UNCHANGED <<runVars>>

Prepare == ProxyRequired \/ RequireDone \/ RequireUnloadable \/ RequireFlow
           \/ RequireReturns \/ RequiresDone
Preconditions == PreDone \/ PreCancelled \/ PreSkip \/ PreAlways \/ PreEnsure
                 \/ PreSetupReturns \/ PreConfirm
Steps == FlowSteps \/ FlowReturns \/ MainStart \/ MainDone \/ MainCancelled
         \/ NestedDone \/ NestedCancelled \/ UnknownCommand \/ CheckStep \/ SkipStep
         \/ StartStep \/ RunPlain \/ RunLaunch \/ RunCapture \/ RunFlow \/ RunBranch
         \/ StepReturns \/ Classify

Run == Prepare \/ Preconditions \/ Steps

-----------------------------------------------------------------------------
\* The step events pair up and nest: depth is the number of nested lists that run,
\* a started step lies deeper than the one it runs in, and when Run has returned
\* nothing is open or nested, by whichever path it returned.
EventsNest ==
    /\ result = "running" =>
           depth = Cardinality({k \in DOMAIN frames : frames[k].at = "steps"})
    /\ \A j, k \in 1..Len(open) :
           j < k => open[j].depth < open[k].depth /\ open[j].index < open[k].index
    /\ result # "running" => open = <<>> /\ depth = 0

\* Once the context is done at most one step still starts: the one whose check had
\* passed, whatever it nests and however many scripts are left.
CancelStops == late <= 1
=============================================================================
