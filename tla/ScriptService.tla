--------------------------- MODULE ScriptService ----------------------------
(***************************************************************************)
(* The sidecar's script feature: runScript claims the one run slot, parses, *)
(* runs the script under a cancelable context and publishes lifecycle       *)
(* events; stopScript cancels whatever run it finds.  Every request runs in *)
(* its own goroutine; the runner itself is abstracted to steps that end     *)
(* well or badly and to the context checks between them.                    *)
(***************************************************************************)
EXTENDS SidecarTransport

CONSTANTS
    Runs,       \* runScript requests, each of one run id
    Stoppers,   \* stopScript requests
    MaxSteps,   \* the steps of a script
    Reserved

ASSUME RunNames == None # Reserved /\ Runs \cap {None, Reserved} = {}
ASSUME StepBound == MaxSteps \in Nat

VARIABLES
    current,    \* scriptService.current: None, the placeholder, or a run
    activeRunID,\* Session.activeRunID
    pc,         \* position of each runScript goroutine
    left,       \* steps the run has still to take
    outcome,    \* what the runner returned to each goroutine
    cancelled,  \* runs whose cancel func was called
    stop,       \* stopper -> its position and the run it read
    log         \* the events in the order the host receives them

scriptVars == <<current, activeRunID, pc, left, outcome, cancelled, stop, log>>

InSlot == {"parse", "active", "announce", "steps", "step", "clear"}
Positions == InSlot \cup {"idle", "unset", "report", "done"}
FinalEvents == {"runCompleted", "runErrored"}
Events == [event : FinalEvents \cup {"runStarted", "runStopRequested"}, run : Runs]

ScriptTypeOK ==
    /\ current \in Runs \cup {None, Reserved}
    /\ activeRunID \in Runs \cup {None}
    /\ pc \in [Runs -> Positions]
    /\ left \in [Runs -> 0..MaxSteps]
    /\ outcome \in [Runs -> {"none", "unparsed", "ok", "failed", "cancelled", "unloadable"}]
    /\ cancelled \subseteq Runs
    /\ stop \in [Stoppers -> [pc : {"idle", "emit", "cancel", "done"}, run : Runs \cup {None}]]
    /\ log \in Seq(Events)

ScriptInit ==
    /\ current = None /\ activeRunID = None
    /\ pc = [r \in Runs |-> "idle"]
    /\ left = [r \in Runs |-> MaxSteps]
    /\ outcome = [r \in Runs |-> "none"]
    /\ cancelled = {}
    /\ stop = [s \in Stoppers |-> [pc |-> "idle", run |-> None]]
    /\ log = <<>>

-----------------------------------------------------------------------------
At(r, p) == pc[r] = p
Goto(r, p) == pc' = [pc EXCEPT ![r] = p]
Emit(event, r) == log' = Append(log, [event |-> event, run |-> r])
\* Mutant: the runner is given the request's context, not the run's.
CtxDoneParent(r) == parentDone
\* Mutant: the run's context is not derived from the request's.
CtxDoneOwn(r) == r \in cancelled
CtxDone(r) == parentDone \/ r \in cancelled

\* Mutant: the slot is checked and claimed in two critical sections.
ReserveUnchecked(r) ==
    /\ line[r] = "running" /\ At(r, "idle")
    /\ current' = Reserved /\ Goto(r, "parse")
    /\ UNCHANGED <<activeRunID, left, outcome, cancelled, stop, log>>

Reserve(r) ==
    /\ line[r] = "running" /\ At(r, "idle") /\ current = None
    /\ current' = Reserved /\ Goto(r, "parse")
    /\ UNCHANGED <<activeRunID, left, outcome, cancelled, stop, log>>

\* The slot is taken, or no device is selected.
Refused(r) ==
    /\ line[r] = "running" /\ At(r, "idle") /\ Goto(r, "done")
    /\ UNCHANGED <<current, activeRunID, left, outcome, cancelled, stop, log>>

ParseFails(r) ==
    /\ At(r, "parse") /\ Goto(r, "clear")
    /\ outcome' = [outcome EXCEPT ![r] = "unparsed"]
    /\ UNCHANGED <<current, activeRunID, left, cancelled, stop, log>>

\* Parsing succeeded: the placeholder becomes a run that Stop can cancel.
Parse(r) ==
    /\ At(r, "parse") /\ Goto(r, "active")
    /\ current' = r
    /\ UNCHANGED <<activeRunID, left, outcome, cancelled, stop, log>>

SetActiveRunID(r) ==
    /\ At(r, "active") /\ Goto(r, "announce")
    /\ activeRunID' = r
    /\ UNCHANGED <<current, left, outcome, cancelled, stop, log>>

Announce(r) ==
    /\ At(r, "announce") /\ Goto(r, "steps")
    /\ Emit("runStarted", r)
    /\ UNCHANGED <<current, activeRunID, left, outcome, cancelled, stop>>

\* ScriptRunner.Run between two steps: stop if the context is done.
BeginStep(r) ==
    /\ At(r, "steps")
    /\ IF left[r] > 0 /\ ~CtxDone(r)
       THEN Goto(r, "step") /\ UNCHANGED outcome
       ELSE /\ Goto(r, "clear")
            /\ outcome' = [outcome EXCEPT ![r] = IF left[r] > 0 THEN "cancelled" ELSE "ok"]
    /\ UNCHANGED <<current, activeRunID, left, cancelled, stop, log>>

\* A required flow cannot be loaded: Run returns an error before any step.
FlowUnloadable(r) ==
    /\ At(r, "steps") /\ Goto(r, "clear")
    /\ outcome' = [outcome EXCEPT ![r] = "unloadable"]
    /\ UNCHANGED <<current, activeRunID, left, cancelled, stop, log>>

\* A step that fails, its context being done or not, ends the run as completed.
EndStep(r, ok) ==
    /\ At(r, "step")
    /\ IF ok THEN Goto(r, "steps") /\ left' = [left EXCEPT ![r] = @ - 1] /\ UNCHANGED outcome
       ELSE /\ Goto(r, "clear") /\ outcome' = [outcome EXCEPT ![r] = "failed"]
            /\ UNCHANGED left
    /\ UNCHANGED <<current, activeRunID, cancelled, stop, log>>

\* clearCurrent releases the slot, then, outside mu, the session's run id.
ClearCurrent(r) ==
    /\ At(r, "clear") /\ Goto(r, "unset")
    /\ current' = None
    /\ UNCHANGED <<activeRunID, left, outcome, cancelled, stop, log>>

UnsetActiveRunID(r) ==
    /\ At(r, "unset")
    /\ Goto(r, IF outcome[r] = "unparsed" THEN "done" ELSE "report")
    /\ activeRunID' = None
    /\ UNCHANGED <<current, left, outcome, cancelled, stop, log>>

Report(r) ==
    /\ At(r, "report") /\ Goto(r, "done")
    /\ Emit(IF outcome[r] \in {"cancelled", "unloadable"} THEN "runErrored" ELSE "runCompleted", r)
    /\ UNCHANGED <<current, activeRunID, left, outcome, cancelled, stop>>

-----------------------------------------------------------------------------
\* Stop reads the slot under mu and acts on what it read after unlocking.
StopReads(s) ==
    /\ line[s] = "running" /\ stop[s].pc = "idle"
    /\ stop' = [stop EXCEPT ![s] = IF current \in Runs
                                   THEN [pc |-> "emit", run |-> current]
                                   ELSE [pc |-> "done", run |-> None]]
    /\ UNCHANGED <<current, activeRunID, pc, left, outcome, cancelled, log>>

\* Mutant: the context is cancelled before the event is published.
StopEmitsLate(s) ==
    /\ stop[s].pc = "emit"
    /\ cancelled' = cancelled \cup {stop[s].run}
    /\ stop' = [stop EXCEPT ![s].pc = "cancel"]
    /\ UNCHANGED <<current, activeRunID, pc, left, outcome, log>>

StopEmits(s) ==
    /\ stop[s].pc = "emit"
    /\ Emit("runStopRequested", stop[s].run)
    /\ stop' = [stop EXCEPT ![s].pc = "cancel"]
    /\ UNCHANGED <<current, activeRunID, pc, left, outcome, cancelled>>

StopCancels(s) ==
    /\ stop[s].pc = "cancel"
    /\ cancelled' = cancelled \cup {stop[s].run}
    /\ stop' = [stop EXCEPT ![s].pc = "done"]
    /\ UNCHANGED <<current, activeRunID, pc, left, outcome, log>>

-----------------------------------------------------------------------------
Proceed(r) ==
    \/ Parse(r) \/ SetActiveRunID(r) \/ Announce(r) \/ BeginStep(r)
    \/ ClearCurrent(r) \/ UnsetActiveRunID(r) \/ Report(r)

ScriptNext(r) ==
    \/ Reserve(r) \/ Refused(r) \/ ParseFails(r) \/ FlowUnloadable(r) \/ Proceed(r)
    \/ \E ok \in BOOLEAN : EndStep(r, ok)

StopNext(s) == StopReads(s) \/ StopEmits(s) \/ StopCancels(s)

-----------------------------------------------------------------------------
Logged(event, r) == {i \in DOMAIN log : log[i] = [event |-> event, run |-> r]}

\* At most one request is between claiming the slot and releasing it, and the
\* slot says so (reserve "stops a second concurrent Run call"); when every request
\* has answered, however it ended, the slot is free and no run id is left.
SlotReleased ==
    /\ Cardinality({r \in Runs : pc[r] \in InSlot}) <= 1
    /\ \A r \in Runs : pc[r] \in InSlot => current = IF At(r, "parse") \/ outcome[r] = "unparsed"
                                                     THEN Reserved ELSE r
    /\ (\A r \in Runs : pc[r] \in {"idle", "report", "done"}) => current = None /\ activeRunID = None

\* A run is cancelled by Stop only after the host was told that this run's stop
\* was requested, and before it is told the run errored ("runStopRequested
\* always precedes the runErrored that cancellation goes on to produce").
StopAnnouncedFirst ==
    \A r \in Runs :
        /\ r \in cancelled => Logged("runStopRequested", r) # {}
        /\ outcome[r] = "cancelled" /\ ~parentDone =>
              \A j \in Logged("runErrored", r) : \E i \in Logged("runStopRequested", r) : i < j

\* A run that was stopped ends and its request answers, even when its step
\* waits on a device that never reacts.
StopEndsRun == \A r \in Runs : r \in cancelled ~> At(r, "done")
=============================================================================
