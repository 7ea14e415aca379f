--------------------------- MODULE SidecarRuntime ----------------------------
(***************************************************************************)
(* atomyx-runtime as a whole: the transport, the script feature, the        *)
(* device, inspection and input features and the simulator's helper, from   *)
(* the first request to the release of everything they hold.                *)
(***************************************************************************)
EXTENDS ScriptService, SidecarRequests

CONSTANTS
    Workloads   \* requests that meet, and what of their surroundings moves

VARIABLES
    load        \* the workload of this behaviour

vars == <<transportVars, scriptVars, hidVars, serviceVars, load>>
deviceVars == <<ready, time, load>>

ASSUME OwnLines == Lines = Runs \cup Stoppers \cup Requests
ASSUME WorkloadShape ==
    \A w \in Workloads :
        /\ \A r \in Requests \cap DOMAIN w.methods : /\ w.methods[r][1] \in Kinds
                                                     /\ w.methods[r][2] \in Devices
        /\ w.agents \subseteq Devices /\ w.until \in 0..MaxTime

TypeOK ==
    /\ TransportTypeOK /\ ScriptTypeOK /\ HidTypeOK /\ ServicesTypeOK
    /\ load \in Workloads

\* A session may start out on a simulator whose helper runs and is connected.
Selected ==
    /\ cur = 1 /\ told = {}
    /\ attempt = [n \in Attempts |-> IF n = 1 THEN [at |-> "done", state |-> "ready"]
                                     ELSE [at |-> "none", state |-> "idle"]]
    /\ proc = [n \in Attempts |-> IF n = 1 THEN "running" ELSE "none"]
    /\ hid = [gen |-> 1, helper |-> 1, dead |-> FALSE, closed |-> FALSE, nextID |-> 1, pending |-> {}]
    /\ frames = <<>> /\ performed = <<>> /\ replies = <<>>
    /\ slot = [r \in Requests |-> "empty"]
    /\ touch = [r \in Requests |-> [at |-> "idle", gen |-> 0, id |-> 0]]
    /\ sel = [dev |-> Sim, gen |-> 1]

Init ==
    /\ load \in Workloads
    /\ LET w == load IN
          /\ TransportInit(w.sent, w.received)
          /\ req = [r \in Requests |-> IF r \in DOMAIN w.methods
                                       THEN Fresh(w.methods[r][1], w.methods[r][2]) ELSE Fresh("app", Sim)]
          /\ IF w.selected = Sim THEN Selected
             ELSE HidInit /\ sel = IF w.selected = None THEN None ELSE [dev |-> Phone, gen |-> 0]
    /\ ScriptInit
    /\ selectMu = None /\ treeCache = [tree |-> None, at |-> 0]
    /\ sizeCache = [s \in {"input", "mirror"} |-> None]
    /\ ready = Devices /\ time = 0
    /\ load \in Workloads

-----------------------------------------------------------------------------
Receive(l) == ReadLine(l) /\ UNCHANGED <<scriptVars, hidVars, serviceVars, load>>

Answer(l) ==
    /\ \/ l \in Runs /\ At(l, "done")
       \/ l \in Stoppers /\ stop[l].pc = "done"
       \/ l \in Requests /\ req[l].at = "reply"
    /\ Respond(l)
    /\ UNCHANGED <<reader, input, main, parentDone, scriptVars, hidVars, serviceVars, load>>

HandlerStep(r) == Handle(r) /\ UNCHANGED <<transportVars, scriptVars, deviceVars>>

RunStep(r) == ScriptNext(r) /\ UNCHANGED <<transportVars, hidVars, serviceVars, load>>
StopStep(s) == StopNext(s) /\ UNCHANGED <<transportVars, hidVars, serviceVars, load>>

\* What goroutines of the helper's manager and client do between requests.
ClientStep(r) ==
    /\ WriteFrame(r) \/ WriteFails(r) \/ Replied(r) \/ GivesUp(r, "timeout") \/ GivesUp(r, "cancelled")
    /\ UNCHANGED managerVars
LaunchStep(n) == (Launch(n) \/ StartFails(n)) /\ UNCHANGED clientVars
Replying == ReadLoopEnds \/ HandleLine(TRUE) \/ HandleLine(FALSE)
Elsewhere == <<transportVars, scriptVars, serviceVars, load>>

HelperStep ==
    /\ \/ \E r \in Requests : ClientStep(r)
       \/ \E n \in Attempts : LaunchStep(n)
       \/ Replying /\ UNCHANGED managerVars
    /\ UNCHANGED Elsewhere

\* The helper processes live on after the runtime.
HelperPerformsTouch == HelperPerforms /\ UNCHANGED <<managerVars, Elsewhere>>
HelperProcessExits(n) == HelperExits(n) /\ UNCHANGED Elsewhere

-----------------------------------------------------------------------------
(* main.dispose, after the features': the manager, then the session. *)

DisposeHelpers ==
    /\ MainSteps("helpers", "reaping") /\ DisposeManager
    /\ UNCHANGED <<cur, attempt, proc, clientVars, scriptVars, serviceVars, load>>

\* Kill returns once its process is reaped; a cancelled spawn is not waited for.
HelpersReaped ==
    /\ cur # 0 /\ attempt[cur].state = "ready" => proc[cur] = "exited"
    /\ MainSteps("reaping", "session") /\ cur' = 0
    /\ UNCHANGED <<attempt, proc, told, clientVars, scriptVars, serviceVars, load>>

DisposeSession ==
    /\ MainSteps("session", "exited")
    /\ IF sel # None /\ sel.gen # 0 THEN DisposeHid ELSE UNCHANGED clientVars
    /\ sel' = None /\ activeRunID' = None
    /\ UNCHANGED <<managerVars, current, pc, left, outcome, cancelled, stop, log, req, selectMu,
                   treeCache, sizeCache, deviceVars>>

MainStep == DisposeHelpers \/ HelpersReaped \/ DisposeSession
TransportStep == TransportNext /\ UNCHANGED <<scriptVars, hidVars, serviceVars, load>>
HostStep == load.stops /\ (HostCloses \/ Signal) /\ UNCHANGED <<scriptVars, hidVars, serviceVars, load>>

\* The device's agents on their own, and the clock.
DeviceStep ==
    /\ \/ time < load.until /\ time' = time + 1 /\ UNCHANGED ready
       \/ /\ \E d \in load.agents : ready' \in {ready \cup {d}, ready \ {d}} \ {ready}
          /\ UNCHANGED time
    /\ UNCHANGED <<transportVars, scriptVars, hidVars, req, sel, selectMu, treeCache, sizeCache, load>>

Next ==
    \/ /\ main # "exited"
       /\ \/ \E l \in Lines : Receive(l) \/ Answer(l)
          \/ \E r \in Requests : HandlerStep(r)
          \/ \E r \in Runs : RunStep(r)
          \/ \E s \in Stoppers : StopStep(s)
          \/ HelperStep \/ MainStep \/ TransportStep \/ HostStep \/ DeviceStep
    \/ HelperPerformsTouch
    \/ \E n \in Attempts : HelperProcessExits(n)

Spec == Init /\ [][Next]_vars

\* Goroutines run; a call of a device is sure to end only once its context is
\* done, a step of a script too; the helper needs not answer, since a dispatch
\* has a timer; Kill insists.  A read of a stdin that main closed under it is
\* not sure to return: only the host's end of input is.
Calling(r) == req[r].at \in {"capture", "measure", "attach", "act", "connect"}
CallEnds(r) == (CallFails(r) \/ ConnectFails(r)) /\ UNCHANGED <<transportVars, scriptVars, deviceVars>>
OwnStep(r) == IF Calling(r) THEN parentDone /\ CallEnds(r)
              ELSE HandlerStep(r) \/ (ClientStep(r) /\ UNCHANGED Elsewhere)
ScriptStepEnds(r) == CtxDone(r) /\ EndStep(r, FALSE) /\ UNCHANGED <<transportVars, hidVars, serviceVars, load>>
OwnRunStep(r) == IF At(r, "step") THEN ScriptStepEnds(r) ELSE RunStep(r)

Goroutine(l) ==
    /\ line[l] = "running"
    /\ \/ Answer(l)
       \/ l \in Requests /\ OwnStep(l)
       \/ l \in Runs /\ OwnRunStep(l)
       \/ l \in Stoppers /\ StopStep(l)
MainGoroutine == MainStep \/ (TransportStep /\ (reader = "read" => input = "ended"))

Fairness ==
    /\ \A l \in Lines : WF_vars(Goroutine(l))
    /\ \A n \in Attempts : WF_vars(n \in told /\ HelperProcessExits(n))
    /\ WF_vars(MainGoroutine)

FairSpec == Spec /\ Fairness

-----------------------------------------------------------------------------
\* A signal, once the host closes its end of stdin, ends the runtime, whatever
\* its handlers, the device, the script and the helper were doing.
ShutdownEnds == (main = "draining" /\ input = "ended") ~> main = "exited"

\* getUiTree never answers with a tree captured CacheTTL or longer before the
\* request, however long the capture that cached it took.
CacheFresh ==
    \A r \in Requests : req[r].kind = "tree" /\ req[r].out = "ok" => req[r].now < req[r].tree.t + CacheTTL

\* A touch reported as done was performed: a reply wakes the dispatch whose
\* number it carries, also after other dispatches gave up or were reconnected.
TouchConfirmed == \A r \in Requests : touch[r].at = "ok" => r \in Range(performed)

\* A helper nobody told to exit is the one the manager hands out or is still
\* starting, and is none once the manager is disposed (Dispose: "kills every
\* running helper").
HelpersOwned ==
    \A n \in Attempts :
        proc[n] = "running" /\ n \notin told =>
            n = cur /\ attempt[n].state \in {"spawning", "ready"} /\ main \notin {"reaping", "session", "exited"}
=============================================================================
