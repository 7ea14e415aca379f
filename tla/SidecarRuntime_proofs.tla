----------------------- MODULE SidecarRuntime_proofs -------------------------
(***************************************************************************)
(* The runtime as a whole, for any requests, runs, stops, workloads and     *)
(* bounds: the run slot, the announcement of a stop, the freshness of a     *)
(* tree, the confirmation of a touch and the ownership of the helpers.      *)
(* Each of these needs an invariant about its own part of the state; what   *)
(* the parts share is the shutdown: no handler runs once the reader of the  *)
(* transport has returned, and main disposes only after that.               *)
(***************************************************************************)
EXTENDS SidecarRuntime, FiniteSetTheorems, TLAPS

-----------------------------------------------------------------------------
(* The inductive invariant.                                                 *)

\* main disposes when the reader has returned, and it returns when no handler
\* runs any more.
Drained ==
    /\ main \notin {"serving", "draining"} => reader = "returned"
    /\ reader = "returned" => \A l \in Lines : line[l] # "running"

Unfinished == {"idle", "parse", "active", "announce", "steps", "step"}

\* One run at a time is between Reserve and ClearCurrent, and current says which;
\* the session's run id is that of a run which has yet to unset it.
SlotOwned ==
    /\ \A r \in Runs : \A q \in Runs : pc[r] \in InSlot /\ pc[q] \in InSlot => q = r
    /\ \A r \in Runs : pc[r] \in InSlot => current = IF At(r, "parse") \/ outcome[r] = "unparsed"
                                                     THEN Reserved ELSE r
    /\ current # None => \E r \in Runs : pc[r] \in InSlot
    /\ activeRunID # None => pc[activeRunID] \in {"announce", "steps", "step", "clear", "unset"}
    /\ \A r \in Runs : /\ pc[r] \in Unfinished => outcome[r] = "none"
                       /\ pc[r] = "step" => left[r] > 0

\* A stopper at work has a run; past its event, the host was told of that run.
StopsTold ==
    /\ \A s \in Stoppers :
          /\ stop[s].pc \in {"emit", "cancel"} => stop[s].run \in Runs
          /\ stop[s].pc = "cancel" => Logged("runStopRequested", stop[s].run) # {}
    /\ \A r \in Runs :
          /\ outcome[r] = "cancelled" /\ ~parentDone => r \in cancelled
          /\ Logged("runErrored", r) # {} => pc[r] = "done"
    /\ StopAnnouncedFirst

\* What a handler holds where it uses it.  A tree is captured at or after the
\* instant its request bears.
Sound(r) ==
    /\ req[r].at \in {"capture", "size", "measure", "keep", "attach", "act", "touch", "dispose"} =>
          req[r].sel \in Selections
    /\ req[r].at = "store" => req[r].tree \in Trees /\ req[r].now <= req[r].tree.t
    /\ req[r].at # "reply" => req[r].out = "none"
    /\ req[r].kind = "tree" => req[r].at \in {"begin", "lookup", "require", "capture", "store", "reply"}
    /\ req[r].now <= time
    /\ req[r].kind = "tree" /\ req[r].out = "ok" => req[r].now < req[r].tree.t + CacheTTL
Handling == \A r \in Requests : Sound(r)

\* The cache's entry is stamped no later than its tree was captured.
Stamped == treeCache.tree # None => treeCache.at <= treeCache.tree.t

\* The dispatches of the connected client bear different numbers, all of them
\* below the next one, and a reply bears the number of a touch performed.
Mine(r) == hid.gen # 0 /\ touch[r].gen = hid.gen
Numbered ==
    /\ ~hid.dead => hid.gen # 0
    /\ \A r \in Requests : touch[r].gen <= hid.gen /\ (Mine(r) => touch[r].id < hid.nextID)
    /\ \A r \in Requests : \A q \in Requests : Mine(r) /\ Mine(q) /\ touch[r].id = touch[q].id => q = r
    /\ \A r \in hid.pending : Mine(r)
    /\ \A i \in DOMAIN replies :
          /\ replies[i] < hid.nextID
          /\ \A r \in Requests : Mine(r) /\ touch[r].id = replies[i] => r \in Range(performed)
    /\ \A r \in Requests : slot[r] = "ok" => r \in Range(performed)
    /\ TouchConfirmed

\* An attempt before the current one has failed and left no process, one after
\* it has not begun; from the moment main has told them, all are told.
Launches ==
    /\ \A n \in Attempts :
          /\ attempt[n].at = "none" => attempt[n].state = "idle"
          /\ attempt[n].at \in {"start", "handshake", "kill"} => attempt[n].state = "spawning"
          /\ attempt[n].at = "done" => attempt[n].state \in {"ready", "failed"}
          /\ attempt[n].at \in {"none", "start"} \/ attempt[n].state = "failed" => proc[n] # "running"
          /\ main \notin {"session", "exited"} => /\ n < cur => attempt[n].state = "failed"
                                                  /\ n > cur <=> attempt[n].at = "none"
    /\ main \in {"reaping", "session", "exited"} =>
          \A n \in Attempts : proc[n] = "running" \/ attempt[n].at = "start" => n \in told

IInv ==
    /\ TypeOK /\ Drained /\ SlotOwned /\ StopsTold /\ Handling /\ Stamped /\ Numbered /\ Launches

\* The transport, the features and the sets of positions are spelled out in every
\* obligation; the actions and the invariants only where they are cited.
USE DEF transportVars, scriptVars, managerVars, clientVars, hidVars, serviceVars, deviceVars,
        Elsewhere

-----------------------------------------------------------------------------
(* The transport.                                                           *)

\* A handler that takes a step runs.
LEMMA HandlerRuns ==
    ASSUME NEW r \in Requests, Handle(r)
    PROVE  line[r] = "running"
  BY DEF Handle, In, Require, AskTree, LookUpTree, Capture, Store, Invalidate, ScreenSize,
         Measure, KeepSize, Attach, Act, CallFails, Dispatch, Dispatched, LockSelect,
         AlreadySelected, DropDevice, DisconnectDropped, Deselected, CreateDriver,
         HelperResolved, HelperAbandoned, Connect, ConnectFails, Install

\* No handler takes a step once main disposes.
LEMMA HandlersAreDone ==
    ASSUME Drained, NEW r \in Requests, Handle(r)
    PROVE  main \in {"serving", "draining"}
  BY HandlerRuns, OwnLines DEF Drained

\* What a step may do to the transport.
LEMMA TransportPreserves ==
    ASSUME TransportTypeOK, Drained, [Next]_vars
    PROVE  TransportTypeOK' /\ Drained' /\ (parentDone => parentDone')
<1>1. ASSUME UNCHANGED transportVars
      PROVE  TransportTypeOK' /\ Drained' /\ (parentDone => parentDone')
  BY <1>1 DEF TransportTypeOK, Drained
<1>2. ASSUME NEW l \in Lines, Receive(l) \/ Answer(l)
      PROVE  TransportTypeOK' /\ Drained' /\ (parentDone => parentDone')
  BY <1>2 DEF TransportTypeOK, Drained, Receive, ReadLine, Answer, Respond
<1>3. CASE TransportStep
  BY <1>3 DEF TransportTypeOK, Drained, TransportStep, TransportNext, CheckContext, ReadFails,
              Drain, LoopDone
<1>4. CASE HostStep
  <2>1. HostCloses \/ Signal
    BY <1>4 DEF HostStep
  <2> QED  BY <2>1 DEF TransportTypeOK, Drained, HostCloses, Signal
<1>5. CASE MainStep
  BY <1>5 DEF TransportTypeOK, Drained, MainStep, DisposeHelpers, HelpersReaped, DisposeSession,
              MainSteps
<1>6. ASSUME NEW r \in Requests, HandlerStep(r) PROVE UNCHANGED transportVars
  BY <1>6 DEF HandlerStep
<1>7. ASSUME NEW r \in Runs, RunStep(r) PROVE UNCHANGED transportVars
  BY <1>7 DEF RunStep
<1>8. ASSUME NEW s \in Stoppers, StopStep(s) PROVE UNCHANGED transportVars
  BY <1>8 DEF StopStep
<1>9. CASE HelperStep \/ HelperPerformsTouch \/ DeviceStep \/ \E n \in Attempts : HelperProcessExits(n)
  BY <1>1, <1>9 DEF HelperStep, HelperPerformsTouch, DeviceStep, HelperProcessExits
<1>10. CASE UNCHANGED vars
  BY <1>1, <1>10 DEF vars
<1> QED  BY <1>1, <1>2, <1>3, <1>4, <1>5, <1>6, <1>7, <1>8, <1>9, <1>10 DEF Next

-----------------------------------------------------------------------------
(* The script feature: the slot.                                            *)

LEMMA RunPreservesTypes ==
    ASSUME ScriptTypeOK, SlotOwned, NEW r \in Runs, ScriptNext(r)
    PROVE  ScriptTypeOK'
<1> USE DEF ScriptTypeOK, Goto, At
<1>1. CASE Reserve(r) \/ Refused(r) \/ Parse(r) \/ SetActiveRunID(r) \/ ClearCurrent(r)
  BY <1>1 DEF Reserve, Refused, Parse, SetActiveRunID, ClearCurrent, Positions, InSlot
<1>2. CASE ParseFails(r) \/ FlowUnloadable(r) \/ BeginStep(r)
  BY <1>2 DEF ParseFails, FlowUnloadable, BeginStep, Positions, InSlot
<1>3. ASSUME NEW ok \in BOOLEAN, EndStep(r, ok), left[r] > 0 PROVE ScriptTypeOK'
  <2>1. left[r] - 1 \in 0..MaxSteps
    BY <1>3, StepBound
  <2>2. left' \in [Runs -> 0..MaxSteps]
    BY <1>3, <2>1 DEF EndStep
  <2> QED  BY <1>3, <2>2 DEF EndStep, Positions, InSlot
<1>4. CASE UnsetActiveRunID(r)
  BY <1>4 DEF UnsetActiveRunID, Positions, InSlot
<1>5. ASSUME NEW event \in FinalEvents \cup {"runStarted"}, Emit(event, r) PROVE log' \in Seq(Events)
  BY <1>5 DEF Emit, Events
<1>6. CASE Announce(r)
  <2>1. log' \in Seq(Events)
    BY <1>5, <1>6 DEF Announce
  <2> QED  BY <1>6, <2>1 DEF Announce, Positions, InSlot
<1>7. CASE Report(r)
  <2>1. log' \in Seq(Events)
    BY <1>5, <1>7 DEF Report, FinalEvents
  <2> QED  BY <1>7, <2>1 DEF Report, Positions, InSlot
<1> QED  BY <1>1, <1>2, <1>3, <1>4, <1>6, <1>7 DEF ScriptNext, Proceed, SlotOwned, EndStep

\* The run that owns the slot moves on and keeps it.
LEMMA MovesInSlot ==
    ASSUME ScriptTypeOK, SlotOwned, NEW r \in Runs,
           UNCHANGED <<current, activeRunID>>,
           NEW p \in {"steps", "step", "clear"}, Goto(r, p),
           ScriptTypeOK',
           \A q \in Runs : q # r => outcome'[q] = outcome[q] /\ left'[q] = left[q],
           p = "step" => left'[r] > 0,
           pc[r] \in {"parse", "announce", "steps", "step"},
           outcome'[r] = "unparsed" <=> pc[r] = "parse",
           p # "clear" => outcome'[r] = "none",
           pc[r] = "parse" => p = "clear"
    PROVE  SlotOwned'
<1> USE DEF ScriptTypeOK, Goto, At, InSlot
<1>1. pc' = [pc EXCEPT ![r] = p] /\ pc[r] \in InSlot
  OBVIOUS
<1>2. \A q \in Runs : q # r => pc'[q] = pc[q] /\ pc[q] \notin InSlot
  BY DEF SlotOwned
<1>3. \A q \in Runs : pc'[q] \in InSlot <=> q = r
  BY <1>2
<1>4. current' = IF outcome'[r] = "unparsed" THEN Reserved ELSE r
  BY DEF SlotOwned, Unfinished
<1>5. activeRunID' # None => pc'[activeRunID'] \in {"announce", "steps", "step", "clear", "unset"}
  BY <1>2 DEF SlotOwned
<1>6. \A q \in Runs : /\ pc'[q] \in Unfinished => outcome'[q] = "none"
                      /\ pc'[q] = "step" => left'[q] > 0
  BY <1>2 DEF SlotOwned, Unfinished
<1> QED  BY <1>1, <1>2, <1>3, <1>4, <1>5, <1>6 DEF SlotOwned

LEMMA RunPreservesSlot ==
    ASSUME ScriptTypeOK, SlotOwned, NEW r \in Runs, ScriptNext(r)
    PROVE  SlotOwned'
<1> USE RunNames DEF ScriptTypeOK, Goto, At
<1>1. CASE Reserve(r)
  BY <1>1 DEF Reserve, SlotOwned, InSlot, Unfinished
<1>2. CASE Refused(r)
  BY <1>2 DEF Refused, SlotOwned, InSlot, Unfinished
<1>3. CASE Parse(r)
  BY <1>3 DEF Parse, SlotOwned, InSlot, Unfinished
<1>4. CASE SetActiveRunID(r)
  BY <1>4 DEF SetActiveRunID, SlotOwned, InSlot, Unfinished
<1>5. CASE ClearCurrent(r)
  BY <1>5 DEF ClearCurrent, SlotOwned, InSlot, Unfinished
<1>6. CASE UnsetActiveRunID(r)
  BY <1>6 DEF UnsetActiveRunID, SlotOwned, InSlot, Unfinished
<1>7. pc[r] \in Unfinished => outcome[r] = "none"
  BY DEF SlotOwned
<1>8. ScriptTypeOK'
  BY RunPreservesTypes
<1>9. CASE ParseFails(r)
  BY <1>8, <1>9, MovesInSlot DEF ParseFails
<1>10. CASE FlowUnloadable(r)
  BY <1>8, <1>10, MovesInSlot DEF FlowUnloadable
<1>11. CASE BeginStep(r)
  BY <1>7, <1>8, <1>11, MovesInSlot DEF BeginStep, Unfinished
<1>12. ASSUME NEW ok \in BOOLEAN, EndStep(r, ok) PROVE SlotOwned'
  BY <1>7, <1>8, <1>12, MovesInSlot DEF EndStep, Unfinished
<1>13. CASE Announce(r)
  BY <1>7, <1>8, <1>13, MovesInSlot DEF Announce, Unfinished
<1>14. CASE Report(r)
  BY <1>14 DEF Report, SlotOwned, InSlot, Unfinished
<1> QED  BY <1>1, <1>2, <1>3, <1>4, <1>5, <1>6, <1>9, <1>10, <1>11, <1>12, <1>13, <1>14
         DEF ScriptNext, Proceed

-----------------------------------------------------------------------------
(* The script feature: the announcement of a stop.                          *)

LEMMA LogGrows ==
    ASSUME ScriptTypeOK, NEW event \in FinalEvents \cup {"runStarted", "runStopRequested"},
           NEW r \in Runs, Emit(event, r)
    PROVE  /\ \A e, q : Logged(e, q) \subseteq 1..Len(log)
           /\ \A e, q : Logged(e, q) \subseteq Logged(e, q)'
           /\ \A e, q : e # event \/ q # r => Logged(e, q)' = Logged(e, q)
           /\ Len(log) + 1 \in Logged(event, r)'
           /\ Logged(event, r)' = Logged(event, r) \cup {Len(log) + 1}
<1> DEFINE new == [event |-> event, run |-> r]
<1>1. log \in Seq(Events) /\ new \in Events /\ log' = Append(log, new)
  BY DEF ScriptTypeOK, Emit, Events
<1>2. /\ DOMAIN log = 1..Len(log) /\ DOMAIN log' = 1..(Len(log) + 1) /\ Len(log) \in Nat
      /\ \A i \in 1..Len(log) : log'[i] = log[i]
      /\ log'[Len(log) + 1] = new
  BY <1>1
<1>3. \A e, q : [event |-> e, run |-> q] = new => e = event /\ q = r
  OBVIOUS
<1> QED  BY <1>2, <1>3 DEF Logged

LEMMA RunPreservesStops ==
    ASSUME ScriptTypeOK, SlotOwned, StopsTold, NEW r \in Runs, ScriptNext(r), parentDone' = parentDone
    PROVE  StopsTold'
<1> USE DEF ScriptTypeOK, Goto, At
<1>1. ASSUME UNCHANGED <<cancelled, stop, log>>, pc[r] # "done", NEW p, Goto(r, p),
             \A q \in Runs : \/ outcome'[q] = outcome[q]
                             \/ /\ outcome'[q] = "cancelled" /\ ~parentDone => q \in cancelled
                                /\ pc[q] # "done"
      PROVE  StopsTold'
  <2>1. \A e, q : Logged(e, q)' = Logged(e, q)
    BY <1>1 DEF Logged
  <2>2. \A q \in Runs : Logged("runErrored", q) # {} => pc[q] = "done" /\ q # r
    BY <1>1 DEF StopsTold
  <2>3. \A q \in Runs : Logged("runErrored", q)' # {} => pc'[q] = "done"
    BY <1>1, <2>1, <2>2
  <2>4. \A q \in Runs : outcome'[q] = "cancelled" /\ ~parentDone => q \in cancelled
    BY <1>1 DEF StopsTold
  <2>5. StopAnnouncedFirst'
    BY <1>1, <2>1, <2>2 DEF StopsTold, StopAnnouncedFirst
  <2> QED  BY <1>1, <2>1, <2>3, <2>4, <2>5 DEF StopsTold
<1>2. CASE Reserve(r) \/ Refused(r) \/ Parse(r) \/ SetActiveRunID(r) \/ ClearCurrent(r) \/ UnsetActiveRunID(r)
  BY <1>1, <1>2 DEF Reserve, Refused, Parse, SetActiveRunID, ClearCurrent, UnsetActiveRunID
<1>3. CASE ParseFails(r) \/ FlowUnloadable(r)
  BY <1>1, <1>3 DEF ParseFails, FlowUnloadable
<1>4. CASE BeginStep(r)
  BY <1>1, <1>4 DEF BeginStep, CtxDone
<1>5. ASSUME NEW ok \in BOOLEAN, EndStep(r, ok) PROVE StopsTold'
  BY <1>1, <1>5 DEF EndStep
<1>6. CASE Announce(r)
  BY <1>6, LogGrows DEF Announce, StopsTold, StopAnnouncedFirst, FinalEvents
<1>7. CASE Report(r)
  BY <1>7, LogGrows, SMTT(30) DEF Report, StopsTold, StopAnnouncedFirst, FinalEvents
<1> QED  BY <1>2, <1>3, <1>4, <1>5, <1>6, <1>7 DEF ScriptNext, Proceed

LEMMA StopPreserves ==
    ASSUME ScriptTypeOK, SlotOwned, StopsTold, NEW s \in Stoppers, StopNext(s), parentDone' = parentDone
    PROVE  ScriptTypeOK' /\ SlotOwned' /\ StopsTold'
<1>1. UNCHANGED <<current, activeRunID, pc, left, outcome>>
  BY DEF StopNext, StopReads, StopEmits, StopCancels
<1>2. SlotOwned'
  BY <1>1 DEF SlotOwned, At
<1>3. CASE StopReads(s)
  <2>1. ScriptTypeOK'
    BY <1>3 DEF ScriptTypeOK, StopReads
  <2>2. StopsTold'
    BY <1>3 DEF ScriptTypeOK, StopReads, StopsTold, StopAnnouncedFirst, Logged
  <2> QED  BY <1>2, <2>1, <2>2
<1>4. CASE StopEmits(s)
  <2>1. PICK r \in Runs : r = stop[s].run
    BY <1>4 DEF StopEmits, StopsTold
  <2>2. Emit("runStopRequested", r)
    BY <1>4, <2>1 DEF StopEmits
  <2>3. ScriptTypeOK'
    <3>1. log' \in Seq(Events)
      BY <2>2 DEF ScriptTypeOK, Emit, Events
    <3> QED  BY <1>4, <3>1 DEF ScriptTypeOK, StopEmits
  <2>4. /\ \A e, q : Logged(e, q) \subseteq Logged(e, q)'
        /\ \A q : Logged("runErrored", q)' = Logged("runErrored", q)
        /\ Logged("runStopRequested", r)' # {}
    <3>1. /\ \A e, q : Logged(e, q) \subseteq Logged(e, q)'
          /\ \A e, q : e # "runStopRequested" \/ q # r => Logged(e, q)' = Logged(e, q)
          /\ Len(log) + 1 \in Logged("runStopRequested", r)'
      BY <2>2, LogGrows DEF FinalEvents
    <3> QED  BY <3>1
  <2>5. \A t \in Stoppers :
           /\ stop'[t].run = stop[t].run
           /\ stop'[t].pc = IF t = s THEN "cancel" ELSE stop[t].pc
    BY <1>4 DEF ScriptTypeOK, StopEmits
  <2>6. \A t \in Stoppers :
           /\ stop'[t].pc \in {"emit", "cancel"} => stop'[t].run \in Runs
           /\ stop'[t].pc = "cancel" => Logged("runStopRequested", stop[t].run)' # {}
    BY <2>1, <2>4, <2>5 DEF StopsTold
  <2>7. StopAnnouncedFirst'
    BY <1>4, <2>4 DEF StopEmits, StopsTold, StopAnnouncedFirst
  <2> QED  BY <1>2, <1>4, <2>3, <2>4, <2>6, <2>7 DEF StopEmits, StopsTold
<1>5. CASE StopCancels(s)
  <2>1. stop[s].run \in Runs /\ Logged("runStopRequested", stop[s].run) # {}
    BY <1>5 DEF StopCancels, StopsTold
  <2>2. ScriptTypeOK'
    BY <1>5, <2>1 DEF ScriptTypeOK, StopCancels
  <2>3. StopsTold'
    BY <1>5, <2>1 DEF ScriptTypeOK, StopCancels, StopsTold, StopAnnouncedFirst, Logged
  <2> QED  BY <1>2, <2>2, <2>3
<1> QED  BY <1>3, <1>4, <1>5 DEF StopNext

\* A step of another part of the runtime: the context may be cancelled, and the
\* session may let go of its run id.
LEMMA OthersLeaveScripts ==
    ASSUME ScriptTypeOK, SlotOwned, StopsTold,
           UNCHANGED <<current, pc, left, outcome, cancelled, stop, log>>,
           activeRunID' = activeRunID \/ activeRunID' = None,
           parentDone => parentDone'
    PROVE  ScriptTypeOK' /\ SlotOwned' /\ StopsTold'
<1>1. ScriptTypeOK'
  BY DEF ScriptTypeOK
<1>2. SlotOwned'
  BY DEF SlotOwned, At
<1>3. StopsTold'
  BY DEF StopsTold, StopAnnouncedFirst, Logged
<1> QED  BY <1>1, <1>2, <1>3

LEMMA ScriptPreserves ==
    ASSUME TransportTypeOK, Drained, ScriptTypeOK, SlotOwned, StopsTold, [Next]_vars
    PROVE  ScriptTypeOK' /\ SlotOwned' /\ StopsTold'
<1>1. parentDone => parentDone'
  BY TransportPreserves
<1>2. ASSUME UNCHANGED scriptVars PROVE ScriptTypeOK' /\ SlotOwned' /\ StopsTold'
  BY <1>1, <1>2, OthersLeaveScripts
<1>3. ASSUME NEW r \in Runs, RunStep(r) PROVE ScriptTypeOK' /\ SlotOwned' /\ StopsTold'
  BY <1>3, RunPreservesTypes, RunPreservesSlot, RunPreservesStops DEF RunStep
<1>4. ASSUME NEW s \in Stoppers, StopStep(s) PROVE ScriptTypeOK' /\ SlotOwned' /\ StopsTold'
  BY <1>4, StopPreserves DEF StopStep
<1>5. CASE MainStep
  BY <1>1, <1>5, OthersLeaveScripts DEF MainStep, DisposeHelpers, HelpersReaped, DisposeSession
<1>6. ASSUME NEW l \in Lines, Receive(l) \/ Answer(l) PROVE UNCHANGED scriptVars
  BY <1>6 DEF Receive, Answer
<1>7. ASSUME NEW r \in Requests, HandlerStep(r) PROVE UNCHANGED scriptVars
  BY <1>7 DEF HandlerStep
<1>8. CASE HelperStep \/ HelperPerformsTouch \/ \E n \in Attempts : HelperProcessExits(n)
  BY <1>2, <1>8 DEF HelperStep, HelperPerformsTouch, HelperProcessExits
<1>9. CASE TransportStep \/ HostStep \/ DeviceStep
  BY <1>2, <1>9 DEF TransportStep, HostStep, DeviceStep
<1>10. CASE UNCHANGED vars
  BY <1>2, <1>10 DEF vars
<1> QED  BY <1>2, <1>3, <1>4, <1>5, <1>6, <1>7, <1>8, <1>9, <1>10 DEF Next

-----------------------------------------------------------------------------
(* The helper's client: the numbers of the dispatches.                      *)

HidType == [gen : Nat, helper : 0..MaxHelpers, dead : BOOLEAN, closed : BOOLEAN,
            nextID : Nat, pending : SUBSET Requests]
TouchType == [at : {"idle", "write", "await", "ok"} \cup HidErrors, gen : Nat, id : Nat]

ManagerTypeOK ==
    /\ cur \in 0..MaxHelpers /\ told \subseteq Attempts
    /\ attempt \in [Attempts -> [at : {"none", "start", "handshake", "kill", "done"},
                                 state : {"idle", "spawning", "ready", "failed"}]]
    /\ proc \in [Attempts -> {"none", "running", "exited"}]
ClientTypeOK ==
    /\ hid \in HidType
    /\ frames \in Seq(Requests) /\ performed \in Seq(Requests) /\ replies \in Seq(Nat)
    /\ slot \in [Requests -> {"empty", "ok", "rejected", "disconnected"}]
    /\ touch \in [Requests -> TouchType]

LEMMA HidTypes == HidTypeOK <=> ManagerTypeOK /\ ClientTypeOK
  BY DEF HidTypeOK, ManagerTypeOK, ClientTypeOK, HidType, TouchType

LEMMA RangeAppend ==
    ASSUME NEW S, NEW s \in Seq(S), NEW e \in S
    PROVE  Range(Append(s, e)) = Range(s) \cup {e}
<1>1. /\ DOMAIN s = 1..Len(s) /\ DOMAIN Append(s, e) = 1..(Len(s) + 1) /\ Len(s) \in Nat
      /\ \A i \in 1..Len(s) : Append(s, e)[i] = s[i]
      /\ Append(s, e)[Len(s) + 1] = e
  OBVIOUS
<1> QED  BY <1>1 DEF Range

\* A step that registers no dispatch, connects no client and performs no touch.
LEMMA NumbersKept ==
    ASSUME ClientTypeOK, ClientTypeOK', Numbered,
           hid'.gen = hid.gen, hid'.nextID = hid.nextID,
           hid'.pending \subseteq hid.pending, hid.dead => hid'.dead,
           \A i \in DOMAIN replies' : \E j \in DOMAIN replies : replies'[i] = replies[j],
           performed' = performed,
           \A r \in Requests :
              /\ touch'[r].gen = touch[r].gen /\ touch'[r].id = touch[r].id
              /\ slot'[r] = "ok" => slot[r] = "ok" \/ r \in Range(performed)
              /\ touch'[r].at = "ok" => touch[r].at = "ok" \/ slot[r] = "ok"
    PROVE  Numbered'
<1>1. \A r \in Requests : Mine(r)' <=> Mine(r)
  BY DEF Mine
<1>2. hid'.pending \subseteq Requests /\ hid.pending \subseteq Requests
  BY DEF ClientTypeOK, HidType
<1>3. (~hid.dead => hid.gen # 0)'
  BY DEF Numbered
<1>4. \A r \in Requests : touch'[r].gen <= hid'.gen /\ (Mine(r)' => touch'[r].id < hid'.nextID)
  BY <1>1 DEF Numbered
<1>5. \A r \in Requests : \A q \in Requests :
          Mine(r)' /\ Mine(q)' /\ touch'[r].id = touch'[q].id => q = r
  BY <1>1 DEF Numbered
<1>6. \A r \in hid'.pending : Mine(r)'
  BY <1>1, <1>2 DEF Numbered
<1>7. \A i \in DOMAIN replies' :
          /\ replies'[i] < hid'.nextID
          /\ \A r \in Requests : Mine(r)' /\ touch'[r].id = replies'[i] => r \in Range(performed)
  BY <1>1 DEF Numbered
<1>8. \A r \in Requests : slot'[r] = "ok" \/ touch'[r].at = "ok" => r \in Range(performed)
  BY DEF Numbered, TouchConfirmed
<1> QED  BY <1>3, <1>4, <1>5, <1>6, <1>7, <1>8 DEF Numbered, TouchConfirmed

LEMMA DisposePreserves ==
    ASSUME ClientTypeOK, Numbered, DisposeHid
    PROVE  ClientTypeOK' /\ Numbered'
<1>1. CASE UNCHANGED clientVars
  BY <1>1 DEF ClientTypeOK, Numbered, TouchConfirmed, Mine
<1>2. CASE ~hid.dead
  <2>1. ClientTypeOK'
    <3>1. hid' = [hid EXCEPT !.dead = TRUE, !.closed = TRUE, !.pending = {}]
      BY <1>2 DEF DisposeHid
    <3>2. hid' \in HidType
      BY <3>1 DEF ClientTypeOK, HidType
    <3>3. slot' \in [Requests -> {"empty", "ok", "rejected", "disconnected"}]
      BY <1>2 DEF DisposeHid, Woken, ClientTypeOK
    <3> QED  BY <1>2, <3>2, <3>3 DEF DisposeHid, ClientTypeOK
  <2>2. /\ hid'.gen = hid.gen /\ hid'.nextID = hid.nextID /\ hid'.dead /\ hid'.pending = {}
        /\ UNCHANGED <<frames, performed, replies, touch>>
    BY <1>2 DEF DisposeHid, ClientTypeOK, HidType
  <2>3. \A r \in Requests : slot'[r] = "ok" => slot[r] = "ok"
    BY <1>2 DEF DisposeHid, Woken, ClientTypeOK
  <2> QED  BY <2>1, <2>2, <2>3, NumbersKept
<1> QED  BY <1>1, <1>2 DEF DisposeHid

LEMMA ConnectPreserves ==
    ASSUME ClientTypeOK, Numbered, NEW n \in 0..MaxHelpers, ConnectHid(n)
    PROVE  ClientTypeOK' /\ Numbered'
<1>1. ClientTypeOK'
  BY DEF ConnectHid, ClientTypeOK, HidType
<1>2. \A r \in Requests : touch'[r] = touch[r] /\ touch[r].gen < hid'.gen
  BY DEF ConnectHid, ClientTypeOK, HidType, TouchType, Numbered
<1>3. \A r \in Requests : ~Mine(r)'
  BY <1>1, <1>2 DEF Mine, ClientTypeOK, HidType, TouchType
<1>4. hid'.gen # 0 /\ hid'.pending = {} /\ DOMAIN replies' = {}
  BY DEF ConnectHid, ClientTypeOK, HidType
<1>5. \A r \in Requests : touch'[r].gen <= hid'.gen
  BY <1>1, <1>2 DEF ClientTypeOK, HidType, TouchType
<1> QED  BY <1>1, <1>3, <1>4, <1>5 DEF ConnectHid, Numbered, TouchConfirmed

LEMMA RegisterPreserves ==
    ASSUME ClientTypeOK, Numbered, NEW r \in Requests, NEW gen \in Nat \ {0}, Register(r, gen)
    PROVE  ClientTypeOK' /\ Numbered'
<1>1. CASE UNCHANGED hid /\ \E result \in HidErrors : Ends(r, result)
  <2>1. ClientTypeOK'
    BY <1>1 DEF Register, Ends, ClientTypeOK, TouchType
  <2> QED  BY <1>1, <2>1, NumbersKept, SMTT(30)
           DEF Register, Ends, ClientTypeOK, TouchType, HidErrors
<1>2. CASE /\ gen = hid.gen
           /\ touch' = [touch EXCEPT ![r] = [at |-> "write", gen |-> gen, id |-> hid.nextID]]
           /\ hid' = [hid EXCEPT !.nextID = @ + 1, !.pending = @ \cup {r}]
  <2>1. ClientTypeOK'
    <3>1. hid' \in HidType /\ hid.nextID \in Nat
      <4>1. hid \in HidType /\ hid.nextID \in Nat /\ hid.pending \in SUBSET Requests
        BY DEF ClientTypeOK, HidType
      <4>2. hid.nextID + 1 \in Nat /\ hid.pending \cup {r} \in SUBSET Requests
        BY <4>1
      <4>3. hid' = [hid EXCEPT !.nextID = hid.nextID + 1, !.pending = hid.pending \cup {r}]
        BY <1>2
      <4> QED  BY <4>1, <4>2, <4>3 DEF HidType
    <3>2. [at |-> "write", gen |-> gen, id |-> hid.nextID] \in TouchType
      BY <3>1 DEF TouchType
    <3>3. touch' \in [Requests -> TouchType]
      BY <1>2, <3>2 DEF ClientTypeOK
    <3> QED  BY <3>1, <3>3 DEF Register, ClientTypeOK
  <2>2. /\ hid'.gen = hid.gen /\ hid.gen # 0 /\ hid'.nextID = hid.nextID + 1 /\ hid.nextID \in Nat
        /\ hid'.pending = hid.pending \cup {r} /\ hid'.dead = hid.dead
    BY <1>2 DEF ClientTypeOK, HidType
  <2>3. /\ touch'[r].at = "write" /\ touch'[r].gen = hid.gen /\ touch'[r].id = hid.nextID
        /\ \A q \in Requests : q # r => touch'[q] = touch[q]
        /\ \A q \in Requests : touch[q].id \in Nat
    BY <1>2 DEF ClientTypeOK, TouchType
  <2>4. \A q \in Requests : Mine(q)' <=> q = r \/ Mine(q)
    BY <2>2, <2>3 DEF Mine
  <2>5. \A q \in Requests : touch'[q].gen <= hid'.gen /\ (Mine(q)' => touch'[q].id < hid'.nextID)
    BY <2>2, <2>3, <2>4 DEF Numbered, ClientTypeOK, HidType
  <2>6. \A p \in Requests : \A q \in Requests :
            Mine(p)' /\ Mine(q)' /\ touch'[p].id = touch'[q].id => q = p
    BY <2>2, <2>3, <2>4 DEF Numbered
  <2>7. \A i \in DOMAIN replies :
            /\ replies[i] < hid'.nextID
            /\ \A q \in Requests : Mine(q)' /\ touch'[q].id = replies[i] => q \in Range(performed)
    <3>1. \A i \in DOMAIN replies : replies[i] \in Nat
      BY DEF ClientTypeOK
    <3> QED  BY <2>2, <2>3, <2>4, <3>1 DEF Numbered
  <2>8. UNCHANGED <<replies, performed, slot>>
    BY DEF Register
  <2>9. \A q \in hid'.pending : Mine(q)'
    BY <2>1, <2>2, <2>3, <2>4 DEF Numbered, ClientTypeOK, HidType
  <2>10. (~hid.dead => hid.gen # 0)'
    BY <2>2
  <2>11. \A q \in Requests : slot'[q] = "ok" \/ touch'[q].at = "ok" => q \in Range(performed)
    BY <2>3, <2>8 DEF Numbered, TouchConfirmed
  <2> QED  BY <2>1, <2>5, <2>6, <2>7, <2>8, <2>9, <2>10, <2>11 DEF Numbered, TouchConfirmed
<1> QED  BY <1>1, <1>2 DEF Register, HidErrors

LEMMA ReadLoopEndsPreserves ==
    ASSUME ClientTypeOK, Numbered, ReadLoopEnds
    PROVE  ClientTypeOK' /\ Numbered'
<1>1. hid' = [hid EXCEPT !.dead = TRUE, !.pending = {}] /\ slot' = Woken(hid.pending)
  BY DEF ReadLoopEnds
<1>2. hid' \in HidType
  BY <1>1 DEF ClientTypeOK, HidType
<1>3. slot' \in [Requests -> {"empty", "ok", "rejected", "disconnected"}]
  BY <1>1 DEF Woken, ClientTypeOK
<1>4. ClientTypeOK'
  BY <1>2, <1>3 DEF ReadLoopEnds, ClientTypeOK
<1>5. /\ hid'.gen = hid.gen /\ hid'.nextID = hid.nextID /\ hid'.pending = {} /\ hid'.dead
      /\ \A r \in Requests : slot'[r] = "ok" => slot[r] = "ok"
  BY <1>1 DEF Woken, ClientTypeOK, HidType
<1> QED  BY <1>4, <1>5, NumbersKept DEF ReadLoopEnds

\* A dispatch that ends, with the outcome it found or was given.
LEMMA EndsPreserves ==
    ASSUME ClientTypeOK, Numbered, NEW r \in Requests,
           NEW result \in {"await", "ok"} \cup HidErrors,
           Ends(r, result), result = "ok" => slot[r] = "ok",
           UNCHANGED hid \/ RemovePending(r),
           frames' \in Seq(Requests), UNCHANGED <<performed, replies, slot>>
    PROVE  ClientTypeOK' /\ Numbered'
<1>1. hid' \in HidType
  <2>1. hid \in HidType /\ hid.pending \ {r} \in SUBSET Requests
    BY DEF ClientTypeOK, HidType
  <2>2. UNCHANGED hid \/ hid' = [hid EXCEPT !.pending = hid.pending \ {r}]
    BY DEF RemovePending
  <2> QED  BY <2>1, <2>2 DEF HidType
<1>2. /\ hid'.gen = hid.gen /\ hid'.nextID = hid.nextID /\ hid'.dead = hid.dead
      /\ hid'.pending \subseteq hid.pending
  BY DEF RemovePending, ClientTypeOK, HidType
<1>3. touch' \in [Requests -> TouchType]
  BY DEF Ends, ClientTypeOK, TouchType
<1>4. \A q \in Requests : /\ touch'[q].gen = touch[q].gen /\ touch'[q].id = touch[q].id
                          /\ touch'[q].at = "ok" => touch[q].at = "ok" \/ slot[q] = "ok"
  BY DEF Ends, ClientTypeOK, TouchType
<1>5. ClientTypeOK'
  BY <1>1, <1>3 DEF ClientTypeOK
<1> QED  BY <1>2, <1>4, <1>5, NumbersKept

LEMMA DispatchPreserves ==
    ASSUME ClientTypeOK, Numbered, NEW r \in Requests,
           WriteFrame(r) \/ WriteFails(r) \/ Replied(r) \/ GivesUp(r, "timeout") \/ GivesUp(r, "cancelled")
    PROVE  ClientTypeOK' /\ Numbered'
<1>1. CASE WriteFrame(r)
  <2>1. frames' \in Seq(Requests)
    BY <1>1 DEF WriteFrame, ClientTypeOK
  <2> QED  BY <1>1, <2>1, EndsPreserves DEF WriteFrame
<1>2. frames \in Seq(Requests) /\ slot[r] \in {"empty", "ok"} \cup HidErrors
  BY DEF ClientTypeOK, HidErrors
<1>3. CASE WriteFails(r)
  BY <1>2, <1>3, EndsPreserves DEF WriteFails, HidErrors
<1>4. CASE Replied(r)
  <2>1. PICK result \in {"ok"} \cup HidErrors : result = slot[r]
    BY <1>2, <1>4 DEF Replied
  <2> QED  BY <1>2, <1>4, <2>1, EndsPreserves DEF Replied
<1>5. CASE GivesUp(r, "timeout") \/ GivesUp(r, "cancelled")
  BY <1>2, <1>5, EndsPreserves DEF GivesUp, HidErrors
<1> QED  BY <1>1, <1>3, <1>4, <1>5

\* The helper replies to a touch it performed under the number that touch bears.
LEMMA HelperPerformsPreserves ==
    ASSUME ClientTypeOK, Numbered, HelperPerforms
    PROVE  ClientTypeOK' /\ Numbered'
<1>1. PICK h \in Requests : h = Head(frames)
  BY DEF HelperPerforms, ClientTypeOK
<1>2. /\ frames' \in Seq(Requests) /\ performed' = Append(performed, h)
      /\ performed' \in Seq(Requests)
      /\ \/ replies' = replies
         \/ Mine(h) /\ replies' = Append(replies, touch[h].id)
      /\ UNCHANGED <<hid, slot, touch>>
  BY <1>1 DEF HelperPerforms, ClientTypeOK, Numbered, Mine
<1>3. touch[h].id \in Nat /\ replies \in Seq(Nat)
  BY DEF ClientTypeOK, TouchType
<1>4. replies' \in Seq(Nat)
  <2>1. Append(replies, touch[h].id) \in Seq(Nat)
    BY <1>3
  <2> QED  BY <1>2, <1>3, <2>1
<1>5. ClientTypeOK'
  BY <1>2, <1>4 DEF ClientTypeOK
<1>6. Range(performed') = Range(performed) \cup {h}
  BY <1>2, RangeAppend DEF ClientTypeOK
<1>7. \A i \in DOMAIN replies' : \/ i \in DOMAIN replies /\ replies'[i] = replies[i]
                                 \/ Mine(h) /\ replies'[i] = touch[h].id
  <2>1. CASE replies' = replies
    BY <2>1
  <2>2. CASE Mine(h) /\ replies' = Append(replies, touch[h].id)
    <3>1. /\ DOMAIN replies = 1..Len(replies) /\ DOMAIN replies' = 1..(Len(replies) + 1)
          /\ Len(replies) \in Nat /\ replies'[Len(replies) + 1] = touch[h].id
          /\ \A i \in 1..Len(replies) : replies'[i] = replies[i]
      BY <1>3, <2>2
    <3> QED  BY <2>2, <3>1
  <2> QED  BY <1>2, <2>1, <2>2
<1>8. \A i \in DOMAIN replies' :
          /\ replies'[i] < hid.nextID
          /\ \A r \in Requests : Mine(r) /\ touch[r].id = replies'[i] => r \in Range(performed')
  <2> SUFFICES ASSUME NEW i \in DOMAIN replies'
               PROVE  /\ replies'[i] < hid.nextID
                      /\ \A r \in Requests : Mine(r) /\ touch[r].id = replies'[i] => r \in Range(performed')
    OBVIOUS
  <2>1. CASE i \in DOMAIN replies /\ replies'[i] = replies[i]
    BY <1>6, <2>1 DEF Numbered
  <2>2. CASE Mine(h) /\ replies'[i] = touch[h].id
    BY <1>6, <2>2 DEF Numbered
  <2> QED  BY <1>7, <2>1, <2>2
<1> QED  BY <1>2, <1>5, <1>6, <1>8 DEF Numbered, TouchConfirmed, Mine

\* A reply wakes at most the dispatch whose touch was performed.
LEMMA HandleLinePreserves ==
    ASSUME ClientTypeOK, Numbered, NEW ok \in BOOLEAN, HandleLine(ok)
    PROVE  ClientTypeOK' /\ Numbered'
<1> DEFINE asked == {r \in hid.pending : touch[r].id = Head(replies)}
<1>1. /\ hid' = [hid EXCEPT !.pending = hid.pending \ asked]
      /\ slot' = [r \in Requests |-> IF r \notin asked THEN slot[r] ELSE IF ok THEN "ok" ELSE "rejected"]
      /\ replies' = Tail(replies) /\ replies # <<>>
      /\ UNCHANGED <<frames, performed, touch>>
  BY DEF HandleLine
<1>2. hid \in HidType /\ hid.pending \in SUBSET Requests
  BY DEF ClientTypeOK, HidType
<1>3. replies \in Seq(Nat) /\ 1 \in DOMAIN replies /\ Head(replies) = replies[1]
  BY <1>1 DEF ClientTypeOK
<1>4. \A r \in asked : r \in Requests /\ r \in Range(performed)
  BY <1>2, <1>3 DEF Numbered
<1>5. hid' \in HidType
  BY <1>1, <1>2 DEF HidType
<1>6. slot' \in [Requests -> {"empty", "ok", "rejected", "disconnected"}]
  BY <1>1 DEF ClientTypeOK
<1>7. replies' \in Seq(Nat) /\ \A i \in DOMAIN replies' : \E j \in DOMAIN replies : replies'[i] = replies[j]
  <2>1. /\ Len(replies) \in Nat /\ Len(replies) > 0 /\ DOMAIN replies = 1..Len(replies)
        /\ replies' \in Seq(Nat) /\ DOMAIN replies' = 1..(Len(replies) - 1)
        /\ \A i \in 1..(Len(replies) - 1) : replies'[i] = replies[i + 1]
    BY <1>1, <1>3
  <2>2. \A i \in 1..(Len(replies) - 1) : i + 1 \in 1..Len(replies)
    BY <2>1
  <2> QED  BY <2>1, <2>2
<1>8. ClientTypeOK'
  BY <1>1, <1>5, <1>6, <1>7 DEF ClientTypeOK
<1>9. /\ hid'.gen = hid.gen /\ hid'.nextID = hid.nextID /\ hid'.dead = hid.dead
      /\ hid'.pending \subseteq hid.pending
  BY <1>1, <1>2 DEF HidType
<1>10. \A r \in Requests : slot'[r] = "ok" => slot[r] = "ok" \/ r \in Range(performed)
  BY <1>1, <1>4
<1> QED  BY <1>1, <1>7, <1>8, <1>9, <1>10, NumbersKept

-----------------------------------------------------------------------------
(* The helper's manager: who owns a process.                                *)

LEMMA LaunchPreserves ==
    ASSUME ManagerTypeOK, Launches, NEW n \in Attempts, Launch(n) \/ StartFails(n), main' = main
    PROVE  ManagerTypeOK' /\ Launches'
<1> USE HelperBound DEF Attempts, ManagerTypeOK, Launches
<1>1. attempt[n].at # "none"
  BY DEF Launch, StartProcess, StartFails, Handshake, HandshakeFails, Killed
<1>2. CASE StartProcess(n)
  BY <1>1, <1>2 DEF StartProcess
<1>3. CASE StartFails(n)
  BY <1>1, <1>3 DEF StartFails, Launched
<1>4. CASE Handshake(n)
  BY <1>1, <1>4 DEF Handshake, Launched
<1>5. CASE HandshakeFails(n)
  BY <1>1, <1>5 DEF HandshakeFails
<1>6. CASE Killed(n)
  BY <1>1, <1>6 DEF Killed, Launched
<1> QED  BY <1>2, <1>3, <1>4, <1>5, <1>6 DEF Launch

LEMMA ExitPreserves ==
    ASSUME ManagerTypeOK, Launches, NEW n \in Attempts, UNCHANGED <<cur, attempt, told, main>>,
           proc' = [proc EXCEPT ![n] = "exited"]
    PROVE  ManagerTypeOK' /\ Launches'
  BY HelperBound DEF Attempts, ManagerTypeOK, Launches

\* A new attempt begins only when the latest has failed.
LEMMA StartPreserves ==
    ASSUME ManagerTypeOK, Launches, main \in {"serving", "draining"}, main' = main, StartSimHid
    PROVE  ManagerTypeOK' /\ Launches' /\ cur' \in 0..MaxHelpers
<1> USE HelperBound DEF Attempts, ManagerTypeOK
<1>1. CASE UNCHANGED managerVars
  BY <1>1 DEF Launches
<1>2. CASE ~Joinable(cur)
  <2>1. /\ cur < MaxHelpers /\ cur' = cur + 1
        /\ attempt' = [attempt EXCEPT ![cur + 1] = [at |-> "start", state |-> "spawning"]]
        /\ UNCHANGED <<proc, told>>
    BY <1>2 DEF StartSimHid
  <2>2. ManagerTypeOK'
    BY <2>1
  <2>3. \A n \in Attempts : n < cur + 1 => attempt[n].state = "failed"
    <3>1. \A n \in Attempts : n < cur => attempt[n].state = "failed"
      BY DEF Launches
    <3>2. cur # 0 => attempt[cur].state = "failed"
      BY <1>2 DEF Joinable, Launches
    <3> QED  BY <3>1, <3>2
  <2>4. \A n \in Attempts : n # cur + 1 => attempt'[n] = attempt[n]
    BY <2>1
  <2>5. attempt'[cur + 1] = [at |-> "start", state |-> "spawning"] /\ attempt[cur + 1].at = "none"
    BY <2>1 DEF Launches
  <2>6. \A n \in Attempts :
          /\ attempt'[n].at = "none" => attempt'[n].state = "idle"
          /\ attempt'[n].at \in {"start", "handshake", "kill"} => attempt'[n].state = "spawning"
          /\ attempt'[n].at = "done" => attempt'[n].state \in {"ready", "failed"}
          /\ attempt'[n].at \in {"none", "start"} \/ attempt'[n].state = "failed" => proc[n] # "running"
    BY <2>4, <2>5 DEF Launches
  <2>7. \A n \in Attempts : /\ n < cur + 1 => attempt'[n].state = "failed"
                            /\ n > cur + 1 <=> attempt'[n].at = "none"
    BY <2>3, <2>4, <2>5 DEF Launches
  <2> QED  BY <2>1, <2>2, <2>6, <2>7 DEF Launches
<1> QED  BY <1>1, <1>2 DEF StartSimHid

\* What the handlers do to the helper: register a dispatch, dispose the client,
\* ask for a helper, connect to it.
LEMMA HandlersOnHelper ==
    ASSUME ServicesTypeOK, Handling, ManagerTypeOK, ClientTypeOK, Numbered, Launches,
           main \in {"serving", "draining"}, main' = main, NEW r \in Requests, Handle(r)
    PROVE  ManagerTypeOK' /\ ClientTypeOK' /\ Numbered' /\ Launches'
<1> DEFINE ManagerKept == ManagerTypeOK' /\ Launches'
           ClientKept == ClientTypeOK' /\ Numbered'
<1>1. ASSUME UNCHANGED managerVars PROVE ManagerKept
  BY <1>1 DEF ManagerTypeOK, Launches
<1>2. ASSUME UNCHANGED clientVars PROVE ClientKept
  BY <1>2 DEF ClientTypeOK, Numbered, TouchConfirmed, Mine
<1>3. CASE Dispatch(r)
  <2>1. PICK gen \in Nat \ {0} : Register(r, gen)
    BY <1>3 DEF Dispatch, In, Handling, Sound, Selections
  <2>2. ClientKept
    BY <2>1, RegisterPreserves
  <2> QED  BY <1>1, <1>3, <2>2 DEF Dispatch
<1>4. CASE DisconnectDropped(r)
  <2>1. ClientKept
    BY <1>2, <1>4, DisposePreserves DEF DisconnectDropped
  <2> QED  BY <1>1, <1>4, <2>1 DEF DisconnectDropped
<1>5. CASE CreateDriver(r)
  <2>1. StartSimHid \/ UNCHANGED managerVars
    BY <1>5 DEF CreateDriver
  <2>2. ManagerKept
    BY <1>1, <2>1, StartPreserves
  <2> QED  BY <1>2, <1>5, <2>2 DEF CreateDriver
<1>6. CASE Connect(r)
  <2>1. req[r].helper \in 0..MaxHelpers
    BY DEF ServicesTypeOK
  <2>2. UNCHANGED clientVars \/ \E n \in 0..MaxHelpers : ConnectHid(n)
    BY <1>6, <2>1 DEF Connect
  <2>3. ClientKept
    BY <1>2, <2>2, ConnectPreserves
  <2> QED  BY <1>1, <1>6, <2>3 DEF Connect
<1>7. CASE \/ Require(r) \/ AskTree(r) \/ LookUpTree(r) \/ Capture(r) \/ Store(r) \/ Invalidate(r)
           \/ ScreenSize(r) \/ Measure(r) \/ KeepSize(r) \/ Attach(r) \/ Act(r) \/ CallFails(r)
           \/ Dispatched(r) \/ LockSelect(r) \/ AlreadySelected(r) \/ DropDevice(r)
           \/ Deselected(r) \/ HelperResolved(r) \/ HelperAbandoned(r) \/ ConnectFails(r) \/ Install(r)
  <2>1. UNCHANGED hidVars
    BY <1>7 DEF Require, AskTree, LookUpTree, Capture, Store, Invalidate, ScreenSize, Measure,
                KeepSize, Attach, Act, CallFails, Dispatched, LockSelect, AlreadySelected,
                DropDevice, Deselected, HelperResolved, HelperAbandoned, ConnectFails, Install
  <2> QED  BY <1>1, <1>2, <2>1
<1> QED  BY <1>3, <1>4, <1>5, <1>6, <1>7 DEF Handle

LEMMA HelperPreserves ==
    ASSUME TransportTypeOK, Drained, ServicesTypeOK, Handling, ManagerTypeOK, ClientTypeOK,
           Numbered, Launches, [Next]_vars
    PROVE  ManagerTypeOK' /\ ClientTypeOK' /\ Numbered' /\ Launches'
<1> DEFINE Kept == ManagerTypeOK' /\ ClientTypeOK' /\ Numbered' /\ Launches'
<1>1. ASSUME UNCHANGED managerVars,
             main' = main \/ {main, main'} \cap {"reaping", "session", "exited"} = {}
      PROVE  ManagerTypeOK' /\ Launches'
  BY <1>1 DEF ManagerTypeOK, Launches
<1>2. ASSUME UNCHANGED clientVars PROVE ClientTypeOK' /\ Numbered'
  BY <1>2 DEF ClientTypeOK, Numbered, TouchConfirmed, Mine
<1>3. ASSUME NEW r \in Requests, HandlerStep(r) PROVE Kept
  BY <1>3, HandlersAreDone, HandlersOnHelper DEF HandlerStep
<1>4. CASE HelperStep
  <2>1. ASSUME NEW r \in Requests, ClientStep(r), UNCHANGED Elsewhere PROVE Kept
    BY <1>1, <2>1, DispatchPreserves DEF ClientStep
  <2>2. ASSUME NEW n \in Attempts, LaunchStep(n), UNCHANGED Elsewhere PROVE Kept
    BY <1>2, <2>2, LaunchPreserves DEF LaunchStep
  <2>3. CASE Replying /\ UNCHANGED managerVars /\ UNCHANGED Elsewhere
    BY <1>1, <2>3, ReadLoopEndsPreserves, HandleLinePreserves DEF Replying
  <2> QED  BY <1>4, <2>1, <2>2, <2>3 DEF HelperStep
<1>5. CASE HelperPerformsTouch
  BY <1>1, <1>5, HelperPerformsPreserves DEF HelperPerformsTouch
<1>6. ASSUME NEW n \in Attempts, HelperProcessExits(n) PROVE Kept
  <2>1. /\ UNCHANGED <<cur, attempt, told, main, hid, performed, replies, slot, touch>>
        /\ proc' = [proc EXCEPT ![n] = "exited"] /\ frames' \in Seq(Requests)
    BY <1>6 DEF HelperProcessExits, HelperExits, ClientTypeOK
  <2>2. ClientTypeOK' /\ Numbered'
    BY <2>1 DEF ClientTypeOK, Numbered, TouchConfirmed, Mine
  <2> QED  BY <2>1, <2>2, ExitPreserves
<1>7. CASE DisposeHelpers
  BY <1>2, <1>7 DEF DisposeHelpers, MainSteps, DisposeManager, ManagerTypeOK, Launches, Attempts
<1>8. CASE HelpersReaped
  BY <1>2, <1>8, HelperBound DEF HelpersReaped, MainSteps, ManagerTypeOK, Launches, Attempts
<1>9. CASE DisposeSession
  <2>1. ClientTypeOK' /\ Numbered'
    BY <1>2, <1>9, DisposePreserves DEF DisposeSession
  <2>2. ManagerTypeOK' /\ Launches'
    BY <1>9 DEF DisposeSession, MainSteps, ManagerTypeOK, Launches
  <2> QED  BY <2>1, <2>2
<1>10. CASE TransportStep \/ HostStep
  <2>1. UNCHANGED hidVars /\ (main' = main \/ {main, main'} \cap {"reaping", "session", "exited"} = {})
    BY <1>10 DEF TransportStep, TransportNext, CheckContext, ReadFails, Drain, LoopDone,
                 HostStep, HostCloses, Signal
  <2> QED  BY <1>1, <1>2, <2>1
<1>11. ASSUME UNCHANGED hidVars, main' = main PROVE Kept
  BY <1>1, <1>2, <1>11
<1>12. ASSUME NEW l \in Lines, Receive(l) \/ Answer(l) PROVE Kept
  BY <1>11, <1>12 DEF Receive, ReadLine, Answer
<1>13. ASSUME NEW r \in Runs, RunStep(r) PROVE Kept
  BY <1>11, <1>13 DEF RunStep
<1>14. ASSUME NEW s \in Stoppers, StopStep(s) PROVE Kept
  BY <1>11, <1>14 DEF StopStep
<1>15. CASE DeviceStep \/ UNCHANGED vars
  BY <1>11, <1>15 DEF DeviceStep, vars
<1> QED  BY <1>3, <1>4, <1>5, <1>6, <1>7, <1>8, <1>9, <1>10, <1>12, <1>13, <1>14, <1>15
         DEF Next, MainStep

-----------------------------------------------------------------------------
(* The handlers.                                                            *)

RequestType ==
    [kind : Kinds, dev : Devices, at : HandlerAt, now : Nat, sel : Selections \cup {None},
     tree : Trees \cup {None}, sizes : Seq(Devices), helper : 0..MaxHelpers,
     out : {"none", "ok", "failed"}]
CacheType == [tree : Trees \cup {None}, at : Nat]

\* The session, the lock, the caches and the device as in ServicesTypeOK.
SharedTypeOK ==
    /\ sel \in Selections \cup {None} /\ selectMu \in Requests \cup {None}
    /\ treeCache \in CacheType
    /\ sizeCache \in [{"input", "mirror"} -> Devices \cup {None}]
    /\ ready \subseteq Devices /\ time \in 0..MaxTime

LEMMA ServiceTypes == ServicesTypeOK <=> req \in [Requests -> RequestType] /\ SharedTypeOK
  BY DEF ServicesTypeOK, SharedTypeOK, RequestType, CacheType

\* Only r's record changes, and becomes e.
Becomes(r, e) ==
    /\ req' \in [Requests -> RequestType]
    /\ req'[r] = e
    /\ \A q \in Requests : q # r => req'[q] = req[q]

LEMMA GoesEffect ==
    ASSUME ServicesTypeOK, NEW r \in Requests, NEW at \in HandlerAt, Goes(r, at)
    PROVE  Becomes(r, [req[r] EXCEPT !.at = at])
<1> DEFINE e == [req[r] EXCEPT !.at = at]
<1>1. req \in [Requests -> RequestType]
  BY ServiceTypes
<1>2. e \in RequestType
  BY <1>1 DEF RequestType
<1>3. req' = [req EXCEPT ![r] = e]
  BY <1>1 DEF Goes, RequestType
<1> HIDE DEF e
<1>4. Becomes(r, e)
  BY <1>1, <1>2, <1>3 DEF Becomes
<1> QED  BY <1>4 DEF e

LEMMA RepliesEffect ==
    ASSUME ServicesTypeOK, NEW r \in Requests, NEW out \in {"ok", "failed"}, Replies(r, out)
    PROVE  Becomes(r, [req[r] EXCEPT !.at = "reply", !.out = out])
<1> DEFINE e == [req[r] EXCEPT !.at = "reply", !.out = out]
<1>1. "reply" \in HandlerAt
  BY DEF HandlerAt
<1>2. req \in [Requests -> RequestType]
  BY ServiceTypes
<1>3. e \in RequestType
  BY <1>1, <1>2 DEF RequestType
<1>4. req' = [req EXCEPT ![r] = e]
  BY <1>2 DEF Replies, RequestType
<1> HIDE DEF e
<1>5. Becomes(r, e)
  BY <1>2, <1>3, <1>4 DEF Becomes
<1> QED  BY <1>5 DEF e

\* A step of r's that leaves r sound and the shared state typed.
LEMMA HandledSoundly ==
    ASSUME ServicesTypeOK, Handling, NEW r \in Requests, NEW e, Becomes(r, e), time' = time,
           Sound(r)', SharedTypeOK'
    PROVE  ServicesTypeOK' /\ Handling'
<1>1. ServicesTypeOK'
  BY ServiceTypes DEF Becomes, ServicesTypeOK, SharedTypeOK, RequestType, CacheType
<1>2. \A q \in Requests : Sound(q)'
  BY DEF Handling, Sound, Becomes
<1> QED  BY <1>1, <1>2 DEF Handling

LEMMA GoesPreserves ==
    ASSUME ServicesTypeOK, Handling, NEW r \in Requests, NEW at \in HandlerAt \ {"reply", "store", "capture"},
           Goes(r, at), req[r].at # "reply",
           req[r].kind = "tree" => at = "require",
           at \in {"size", "measure", "keep", "attach", "act", "touch", "dispose"} => req[r].sel \in Selections,
           time' = time, SharedTypeOK'
    PROVE  ServicesTypeOK' /\ Handling'
<1> DEFINE e == [req[r] EXCEPT !.at = at]
<1>1. Becomes(r, e)
  BY GoesEffect
<1>2. /\ e.at = at /\ e.kind = req[r].kind /\ e.now = req[r].now /\ e.sel = req[r].sel
      /\ e.tree = req[r].tree /\ e.out = req[r].out
  BY ServiceTypes DEF RequestType
<1>3. Sound(r)'
  BY <1>1, <1>2 DEF Becomes, Handling, Sound
<1> QED  BY <1>1, <1>3, HandledSoundly

LEMMA RepliesPreserves ==
    ASSUME ServicesTypeOK, Handling, NEW r \in Requests, NEW out \in {"ok", "failed"}, Replies(r, out),
           req[r].kind = "tree" /\ out = "ok" => req[r].now < req[r].tree.t + CacheTTL,
           time' = time, SharedTypeOK'
    PROVE  ServicesTypeOK' /\ Handling'
<1> DEFINE e == [req[r] EXCEPT !.at = "reply", !.out = out]
<1>1. Becomes(r, e)
  BY RepliesEffect
<1>2. /\ e.at = "reply" /\ e.kind = req[r].kind /\ e.now = req[r].now /\ e.tree = req[r].tree
      /\ e.out = out
  BY ServiceTypes DEF RequestType
<1>3. Sound(r)'
  BY <1>1, <1>2 DEF Becomes, Handling, Sound
<1> QED  BY <1>1, <1>3, HandledSoundly

LEMMA RequirePreserves ==
    ASSUME ServicesTypeOK, Handling, NEW r \in Requests, Require(r), time' = time, SharedTypeOK'
    PROVE  ServicesTypeOK' /\ Handling'
<1>1. CASE Replies(r, "failed")
  BY <1>1, RepliesPreserves
<1>2. CASE Allowed(r) /\ req' = [req EXCEPT ![r].at = AfterRequire(req[r].kind), ![r].sel = sel,
                                            ![r].now = IF req[r].kind = "freshTree" THEN time ELSE @]
  <2>1. /\ req[r].kind \in Kinds /\ req[r].at \in {"begin", "require"} /\ sel \in Selections
        /\ time \in Nat /\ req[r] \in RequestType
    BY <1>2, ServiceTypes DEF Allowed, SharedTypeOK, RequestType, Require, In
  <2>2. PICK at \in {"capture", "size", "act"} :
           at = AfterRequire(req[r].kind) /\ (req[r].kind = "tree" => at = "capture")
    BY DEF AfterRequire, Points, Touching, MirrorPoints, Streams
  <2>3. PICK now \in Nat : now = (IF req[r].kind = "freshTree" THEN time ELSE req[r].now) /\ now <= time
    BY <2>1 DEF Handling, Sound, RequestType
  <2> DEFINE e == [req[r] EXCEPT !.at = at, !.sel = sel, !.now = now]
  <2>4. req' = [req EXCEPT ![r] = e]
    BY <1>2, <2>2, <2>3
  <2>5. e \in RequestType
    BY <2>1 DEF RequestType, HandlerAt
  <2>6. Becomes(r, e)
    BY <2>4, <2>5, ServiceTypes DEF Becomes
  <2>7. /\ e.at = at /\ e.kind = req[r].kind /\ e.now = now /\ e.sel = sel /\ e.out = req[r].out
    BY <2>1 DEF RequestType
  <2>8. Sound(r)'
    BY <2>1, <2>2, <2>3, <2>6, <2>7 DEF Becomes, Handling, Sound
  <2> QED  BY <2>6, <2>8, HandledSoundly
<1> QED  BY <1>1, <1>2 DEF Require

LEMMA InspectionPreserves ==
    ASSUME ServicesTypeOK, Handling, Stamped, NEW r \in Requests, time' = time,
           AskTree(r) \/ LookUpTree(r) \/ Capture(r) \/ Store(r) \/ Invalidate(r), UNCHANGED ready
    PROVE  ServicesTypeOK' /\ Handling' /\ Stamped'
<1>1. /\ req[r] \in RequestType /\ SharedTypeOK /\ time \in Nat /\ Sound(r)
      /\ req[r].now \in Nat
  BY ServiceTypes DEF SharedTypeOK, Handling, RequestType
<1>2. CASE AskTree(r)
  <2> DEFINE e == [req[r] EXCEPT !.at = "lookup", !.now = time]
  <2>1. req' = [req EXCEPT ![r] = e] /\ SharedTypeOK' /\ Stamped'
    BY <1>1, <1>2 DEF AskTree, SharedTypeOK, Stamped
  <2>2. e \in RequestType /\ e.at = "lookup" /\ e.now = time /\ e.out = req[r].out
    BY <1>1 DEF RequestType, HandlerAt
  <2>3. Becomes(r, e)
    BY <2>1, <2>2, ServiceTypes DEF Becomes
  <2>4. Sound(r)'
    BY <1>1, <1>2, <2>2, <2>3 DEF Becomes, Sound, AskTree, In
  <2> QED  BY <2>1, <2>3, <2>4, HandledSoundly
<1>3. CASE LookUpTree(r)
  <2>1. SharedTypeOK' /\ Stamped'
    BY <1>1, <1>3 DEF LookUpTree, SharedTypeOK, Stamped
  <2>2. CASE Goes(r, "require")
    BY <1>3, <2>1, <2>2, GoesPreserves DEF LookUpTree, In, HandlerAt
  <2>3. CASE /\ CachedIfFresh(req[r].now)
             /\ req' = [req EXCEPT ![r].at = "reply", ![r].out = "ok", ![r].tree = treeCache.tree]
    <3>1. PICK tree \in Trees : tree = treeCache.tree
      BY <1>1, <2>3 DEF CachedIfFresh, SharedTypeOK, CacheType
    <3>2. tree.t \in Nat /\ treeCache.at \in Nat
      BY <1>1 DEF Trees, SharedTypeOK, CacheType
    <3>3. req[r].now < tree.t + CacheTTL
      BY <1>1, <2>3, <3>1, <3>2, Times DEF CachedIfFresh, Stamped
    <3> DEFINE e == [req[r] EXCEPT !.at = "reply", !.out = "ok", !.tree = tree]
    <3>4. req' = [req EXCEPT ![r] = e]
      BY <2>3, <3>1
    <3>5. e \in RequestType /\ e.at = "reply" /\ e.now = req[r].now /\ e.tree = tree
      BY <1>1 DEF RequestType, HandlerAt
    <3>6. Becomes(r, e)
      BY <3>4, <3>5, ServiceTypes DEF Becomes
    <3>7. Sound(r)'
      BY <1>1, <3>3, <3>5, <3>6 DEF Becomes, Sound
    <3> QED  BY <2>1, <3>6, <3>7, HandledSoundly
  <2> QED  BY <1>3, <2>2, <2>3 DEF LookUpTree
<1>4. CASE Capture(r)
  <2> DEFINE tree == [dev |-> req[r].sel.dev, t |-> time]
             e == [req[r] EXCEPT !.at = "store", !.tree = tree]
  <2>1. req' = [req EXCEPT ![r] = e] /\ SharedTypeOK' /\ Stamped'
    BY <1>1, <1>4 DEF Capture, SharedTypeOK, Stamped
  <2>2. tree \in Trees /\ tree.t = time
    BY <1>1, <1>4 DEF Capture, In, Sound, Selections, Trees
  <2>3. e \in RequestType /\ e.at = "store" /\ e.tree = tree /\ e.now = req[r].now /\ e.out = req[r].out
    <3> HIDE DEF tree
    <3> QED  BY <1>1, <2>2 DEF RequestType, HandlerAt
  <2>4. Becomes(r, e)
    BY <2>1, <2>3, ServiceTypes DEF Becomes
  <2>5. Sound(r)'
    <3> HIDE DEF e, tree
    <3> QED  BY <1>1, <1>4, <2>2, <2>3, <2>4 DEF Becomes, Sound, Capture, In
  <2> QED  BY <2>1, <2>4, <2>5, HandledSoundly
<1>5. CASE Store(r)
  <2>1. /\ req[r].tree \in Trees /\ req[r].now <= req[r].tree.t /\ req[r].tree.t \in Nat
    BY <1>1, <1>5 DEF Store, In, Sound, Trees
  <2>2. SharedTypeOK' /\ Stamped'
    BY <1>1, <1>5, <2>1 DEF Store, SharedTypeOK, Stamped, CacheType
  <2>3. req[r].now < req[r].tree.t + CacheTTL
    BY <1>1, <2>1, Times
  <2> QED  BY <1>5, <2>2, <2>3, RepliesPreserves DEF Store
<1>6. CASE Invalidate(r)
  <2>1. SharedTypeOK' /\ Stamped'
    BY <1>1, <1>6 DEF Invalidate, SharedTypeOK, Stamped, CacheType
  <2> QED  BY <1>6, <2>1, RepliesPreserves DEF Invalidate, In
<1> QED  BY <1>2, <1>3, <1>4, <1>5, <1>6

LEMMA ScaledPreserves ==
    ASSUME ServicesTypeOK, Handling, NEW r \in Requests, NEW dev \in Devices, Scaled(r, dev),
           req[r].at \in {"size", "keep"}, time' = time, SharedTypeOK'
    PROVE  ServicesTypeOK' /\ Handling'
<1>1. PICK at \in {"size", "attach", "act"} :
         req' = [req EXCEPT ![r].sizes = Append(req[r].sizes, dev), ![r].at = at]
  BY DEF Scaled
<1> DEFINE sizes == Append(req[r].sizes, dev)
           e == [req[r] EXCEPT !.sizes = sizes, !.at = at]
<1>2. req[r] \in RequestType /\ Sound(r) /\ sizes \in Seq(Devices)
  BY ServiceTypes DEF RequestType, Handling
<1>3. req' = [req EXCEPT ![r] = e]
  BY <1>1
<1>4. /\ e \in RequestType /\ e.at = at /\ e.kind = req[r].kind /\ e.now = req[r].now
      /\ e.sel = req[r].sel /\ e.out = req[r].out
  <2> HIDE DEF sizes
  <2> QED  BY <1>2 DEF RequestType, HandlerAt
<1>5. Becomes(r, e)
  BY <1>3, <1>4, ServiceTypes DEF Becomes
<1>6. Sound(r)'
  <2> HIDE DEF e
  <2> QED  BY <1>2, <1>4, <1>5 DEF Becomes, Sound
<1> QED  BY <1>5, <1>6, HandledSoundly

\* Every kind caches its screen size with one of the two services.
LEMMA ServiceNames == \A kind : Service(kind) \in {"input", "mirror"}
  BY DEF Service

LEMMA InputPreserves ==
    ASSUME ServicesTypeOK, Handling, Stamped, NEW r \in Requests, time' = time, UNCHANGED ready,
           \/ ScreenSize(r) \/ Measure(r) \/ KeepSize(r) \/ Attach(r) \/ Act(r) \/ CallFails(r)
           \/ Dispatch(r) \/ Dispatched(r)
    PROVE  ServicesTypeOK' /\ Handling' /\ Stamped'
<1>1. UNCHANGED <<sel, selectMu, treeCache>>
  BY DEF ScreenSize, Measure, KeepSize, Attach, Act, CallFails, Dispatch, Dispatched
<1>2. Stamped' /\ SharedTypeOK /\ Sound(r) /\ req[r] \in RequestType
  BY <1>1, ServiceTypes DEF Stamped, Handling
<1>3. ASSUME UNCHANGED sizeCache PROVE SharedTypeOK'
  BY <1>1, <1>2, <1>3 DEF SharedTypeOK
<1>4. CASE ScreenSize(r)
  <2>1. req[r].at = "size" /\ SharedTypeOK'
    BY <1>3, <1>4 DEF ScreenSize, In
  <2>2. CASE Goes(r, "measure")
    BY <1>2, <2>1, <2>2, GoesPreserves DEF Sound, HandlerAt
  <2>3. CASE Cached(r) /\ Scaled(r, sizeCache[Service(req[r].kind)])
    <3>1. PICK dev \in Devices : dev = sizeCache[Service(req[r].kind)]
      BY <1>2, <2>3, ServiceNames DEF Cached, SharedTypeOK
    <3> QED  BY <1>2, <2>1, <2>3, <3>1, ScaledPreserves
  <2> QED  BY <1>2, <1>4, <2>2, <2>3 DEF ScreenSize
<1>5. CASE Measure(r)
  BY <1>2, <1>3, <1>5, GoesPreserves DEF Measure, In, Sound, HandlerAt
<1>6. CASE KeepSize(r)
  <2>1. PICK dev \in Devices : dev = req[r].sel.dev
    BY <1>2, <1>6 DEF KeepSize, In, Sound, Selections
  <2>2. sizeCache' \in [{"input", "mirror"} -> Devices \cup {None}]
    BY <1>2, <1>6, <2>1, ServiceNames DEF KeepSize, SharedTypeOK
  <2>3. SharedTypeOK'
    BY <1>1, <1>2, <2>2 DEF SharedTypeOK
  <2> QED  BY <1>2, <1>6, <2>1, <2>3, ScaledPreserves DEF KeepSize, In
<1>7. CASE Attach(r)
  BY <1>2, <1>3, <1>7, GoesPreserves DEF Attach, In, Sound, HandlerAt
<1>8. CASE Act(r)
  BY <1>2, <1>3, <1>8, RepliesPreserves DEF Act, In, Sound
<1>9. CASE CallFails(r)
  BY <1>2, <1>3, <1>9, RepliesPreserves DEF CallFails
<1>10. CASE Dispatch(r)
  BY <1>2, <1>3, <1>10, GoesPreserves DEF Dispatch, In, Sound, HandlerAt
<1>11. CASE Dispatched(r)
  <2>1. PICK out \in {"ok", "failed"} : Replies(r, out)
    BY <1>11 DEF Dispatched
  <2>2. req[r].kind # "tree"
    BY <1>2, <1>11 DEF Dispatched, In, Sound
  <2> QED  BY <1>2, <1>3, <1>11, <2>1, <2>2, RepliesPreserves DEF Dispatched
<1> QED  BY <1>4, <1>5, <1>6, <1>7, <1>8, <1>9, <1>10, <1>11

LEMMA SelectionPreserves ==
    ASSUME ServicesTypeOK, ManagerTypeOK, ClientTypeOK, ManagerTypeOK', Handling, Stamped,
           NEW r \in Requests, time' = time, UNCHANGED ready,
           \/ LockSelect(r) \/ AlreadySelected(r) \/ DropDevice(r) \/ DisconnectDropped(r)
           \/ Deselected(r) \/ CreateDriver(r) \/ HelperResolved(r) \/ HelperAbandoned(r)
           \/ Connect(r) \/ ConnectFails(r) \/ Install(r)
    PROVE  ServicesTypeOK' /\ Handling' /\ Stamped'
<1>1. UNCHANGED <<treeCache, sizeCache>>
  BY DEF LockSelect, AlreadySelected, DropDevice, DisconnectDropped, Deselected, CreateDriver,
         HelperResolved, HelperAbandoned, Connect, ConnectFails, Install
<1>2. Stamped' /\ SharedTypeOK /\ Sound(r) /\ req[r] \in RequestType
  BY <1>1, ServiceTypes DEF Stamped, Handling
<1>3. req[r].kind \in {"select", "deselect"} /\ req[r].at # "reply"
  BY DEF LockSelect, AlreadySelected, DropDevice, DisconnectDropped, Deselected, CreateDriver,
         HelperResolved, HelperAbandoned, Connect, ConnectFails, Install, In
<1>4. ASSUME selectMu' \in {selectMu, r, None}, sel' \in Selections \cup {None} PROVE SharedTypeOK'
  BY <1>1, <1>2, <1>4 DEF SharedTypeOK
<1>5. sel \in Selections \cup {None}
  BY <1>2 DEF SharedTypeOK
<1>6. ASSUME NEW out \in {"ok", "failed"}, Unlock(r, out), sel' \in Selections \cup {None}
      PROVE  ServicesTypeOK' /\ Handling'
  BY <1>3, <1>4, <1>6, RepliesPreserves DEF Unlock
<1>7. CASE AlreadySelected(r) \/ Deselected(r) \/ ConnectFails(r)
  BY <1>2, <1>5, <1>6, <1>7 DEF AlreadySelected, Deselected, ConnectFails
<1>8. CASE Install(r)
  <2>1. sel' \in Selections
    <3>1. req[r].dev \in Devices /\ hid.gen \in Nat
      BY <1>2 DEF RequestType, ClientTypeOK, HidType
    <3> QED  BY <1>8, <3>1 DEF Install, Selections
  <2> QED  BY <1>2, <1>6, <1>8, <2>1 DEF Install
<1>9. ASSUME NEW at \in {"check", "build", "connect", "install"}, Goes(r, at),
             selectMu' \in {selectMu, r, None}, sel' = sel
      PROVE  ServicesTypeOK' /\ Handling'
  BY <1>3, <1>4, <1>5, <1>9, GoesPreserves DEF HandlerAt
<1>10. CASE LockSelect(r) \/ DisconnectDropped(r) \/ Connect(r)
  BY <1>2, <1>9, <1>10 DEF LockSelect, DisconnectDropped, Connect
\* The record keeps all but its position, its helper and, when dropped, the selection.
<1>11. ASSUME NEW e \in RequestType, req' = [req EXCEPT ![r] = e], SharedTypeOK',
              e.kind = req[r].kind, e.now = req[r].now, e.out = req[r].out,
              e.at \in {"build", "dispose", "helper", "connect"},
              e.at = "dispose" => e.sel \in Selections
       PROVE  ServicesTypeOK' /\ Handling'
  <2>1. Becomes(r, e)
    BY <1>11, ServiceTypes DEF Becomes
  <2>2. Sound(r)'
    BY <1>2, <1>3, <1>11, <2>1 DEF Becomes, Sound
  <2> QED  BY <1>11, <2>1, <2>2, HandledSoundly
<1>12. CASE DropDevice(r)
  <2> DEFINE e == [req[r] EXCEPT !.sel = sel, !.at = IF sel = None THEN "build" ELSE "dispose"]
  <2>1. req' = [req EXCEPT ![r] = e] /\ SharedTypeOK'
    BY <1>4, <1>12 DEF DropDevice
  <2>2. /\ e \in RequestType /\ e.kind = req[r].kind /\ e.now = req[r].now /\ e.out = req[r].out
        /\ e.at \in {"build", "dispose"} /\ (e.at = "dispose" => e.sel \in Selections)
    BY <1>2, <1>5 DEF RequestType, HandlerAt
  <2> HIDE DEF e
  <2> QED  BY <1>2, <1>11, <2>1, <2>2
\* A helper is handed to the request.
<1>13. ASSUME NEW at \in {"helper", "connect"}, NEW h \in 0..MaxHelpers, SharedTypeOK',
              req' = [req EXCEPT ![r].at = at, ![r].helper = h]
       PROVE  ServicesTypeOK' /\ Handling'
  <2> DEFINE e == [req[r] EXCEPT !.at = at, !.helper = h]
  <2>1. req' = [req EXCEPT ![r] = e]
    BY <1>13
  <2>2. /\ e \in RequestType /\ e.kind = req[r].kind /\ e.now = req[r].now /\ e.out = req[r].out
        /\ e.at = at
    BY <1>2 DEF RequestType, HandlerAt
  <2> HIDE DEF e
  <2> QED  BY <1>11, <1>13, <2>1, <2>2
<1>14. CASE CreateDriver(r)
  <2>1. SharedTypeOK' /\ cur' \in 0..MaxHelpers
    BY <1>4, <1>5, <1>14 DEF CreateDriver, ManagerTypeOK
  <2>2. CASE Goes(r, "connect")
    BY <1>2, <1>9, <1>14, <2>2 DEF CreateDriver
  <2>3. CASE req' = [req EXCEPT ![r].at = "helper", ![r].helper = cur']
    BY <1>2, <1>13, <2>1, <2>3
  <2> QED  BY <1>14, <2>2, <2>3 DEF CreateDriver
<1>15. CASE HelperResolved(r) \/ HelperAbandoned(r)
  <2>1. SharedTypeOK'
    BY <1>4, <1>5, <1>15 DEF HelperResolved, HelperAbandoned
  <2>2. req[r].helper \in 0..MaxHelpers /\ 0 \in 0..MaxHelpers
    BY <1>2, HelperBound DEF RequestType
  <2>3. PICK h \in 0..MaxHelpers : req' = [req EXCEPT ![r].at = "connect", ![r].helper = h]
    BY <1>15, <2>2 DEF HelperResolved, HelperAbandoned
  <2> QED  BY <1>2, <1>13, <2>1, <2>3
<1> QED  BY <1>2, <1>7, <1>8, <1>10, <1>12, <1>14, <1>15

\* What the rest of the runtime does to the features' state: the clock runs, agents
\* come and go, and main lets go of the session's device.
LEMMA OthersLeaveServices ==
    ASSUME ServicesTypeOK, Handling, Stamped, UNCHANGED <<req, selectMu, treeCache, sizeCache>>,
           sel' \in {sel, None}, ready' \subseteq Devices, time' \in {time, time + 1} \cap 0..MaxTime
    PROVE  ServicesTypeOK' /\ Handling' /\ Stamped'
<1>1. SharedTypeOK /\ req \in [Requests -> RequestType]
  BY ServiceTypes
<1>2. SharedTypeOK'
  BY <1>1 DEF SharedTypeOK
<1>3. ServicesTypeOK'
  BY <1>1, <1>2 DEF ServicesTypeOK, SharedTypeOK, RequestType, CacheType
<1>4. \A r \in Requests : req[r].now \in Nat /\ time \in Nat
  BY <1>1 DEF RequestType, SharedTypeOK
<1>5. \A r \in Requests : req[r].now <= time'
  BY <1>4 DEF Handling, Sound
<1>6. \A r \in Requests : Sound(r)'
  BY <1>5 DEF Handling, Sound
<1> QED  BY <1>3, <1>6 DEF Handling, Stamped

LEMMA ServicesPreserve ==
    ASSUME TransportTypeOK, Drained, ServicesTypeOK, Handling, Stamped, ManagerTypeOK, ClientTypeOK,
           ManagerTypeOK', load \in Workloads, [Next]_vars
    PROVE  ServicesTypeOK' /\ Handling' /\ Stamped' /\ load' \in Workloads
<1> DEFINE Kept == ServicesTypeOK' /\ Handling' /\ Stamped'
<1>1. /\ ready \subseteq Devices /\ time \in 0..MaxTime
      /\ load.agents \subseteq Devices /\ load.until \in 0..MaxTime
  BY WorkloadShape DEF ServicesTypeOK
<1>2. ASSUME UNCHANGED serviceVars PROVE Kept
  BY <1>1, <1>2, OthersLeaveServices
<1>3. ASSUME NEW r \in Requests, HandlerStep(r) PROVE Kept
  <2>1. Handle(r) /\ time' = time /\ UNCHANGED ready
    BY <1>3 DEF HandlerStep
  <2>2. CASE Require(r)
    <3>1. UNCHANGED <<sel, selectMu, treeCache, sizeCache>>
      BY <2>2 DEF Require
    <3>2. SharedTypeOK' /\ Stamped'
      BY <2>1, <3>1, ServiceTypes DEF SharedTypeOK, Stamped
    <3> QED  BY <2>1, <2>2, <3>2, RequirePreserves
  <2> QED  BY <2>1, <2>2, InspectionPreserves, InputPreserves, SelectionPreserves DEF Handle
<1>4. CASE DisposeSession
  BY <1>1, <1>4, OthersLeaveServices DEF DisposeSession
<1>5. CASE DeviceStep
  <2>1. time' \in {time, time + 1} \cap 0..MaxTime
    BY <1>1, <1>5, Times DEF DeviceStep
  <2>2. ready' \subseteq Devices
    BY <1>1, <1>5 DEF DeviceStep
  <2> QED  BY <1>5, <2>1, <2>2, OthersLeaveServices DEF DeviceStep
<1>6. CASE DisposeHelpers \/ HelpersReaped
  BY <1>2, <1>6 DEF DisposeHelpers, HelpersReaped
<1>7. ASSUME NEW l \in Lines, Receive(l) \/ Answer(l) PROVE Kept
  BY <1>2, <1>7 DEF Receive, Answer
<1>8. ASSUME NEW r \in Runs, RunStep(r) PROVE Kept
  BY <1>2, <1>8 DEF RunStep
<1>9. ASSUME NEW s \in Stoppers, StopStep(s) PROVE Kept
  BY <1>2, <1>9 DEF StopStep
<1>10. CASE HelperStep \/ HelperPerformsTouch \/ \E n \in Attempts : HelperProcessExits(n)
  BY <1>2, <1>10 DEF HelperStep, HelperPerformsTouch, HelperProcessExits
<1>11. CASE TransportStep \/ HostStep \/ UNCHANGED vars
  BY <1>2, <1>11 DEF TransportStep, HostStep, vars
<1>12. load' = load
  BY DEF Next, vars, Receive, Answer, HandlerStep, RunStep, StopStep, HelperStep, MainStep,
         DisposeHelpers, HelpersReaped, DisposeSession, TransportStep, HostStep, DeviceStep,
         HelperPerformsTouch, HelperProcessExits
<1> QED  BY <1>3, <1>4, <1>5, <1>6, <1>7, <1>8, <1>9, <1>10, <1>11, <1>12 DEF Next, MainStep

-----------------------------------------------------------------------------
(* Induction.                                                               *)

LEMMA NextIInv == IInv /\ [Next]_vars => IInv'
<1> SUFFICES ASSUME IInv, [Next]_vars PROVE IInv'
  OBVIOUS
<1>1. /\ TransportTypeOK /\ ScriptTypeOK /\ ManagerTypeOK /\ ClientTypeOK /\ ServicesTypeOK
      /\ load \in Workloads
  BY HidTypes DEF IInv, TypeOK
<1>2. TransportTypeOK' /\ Drained'
  BY <1>1, TransportPreserves DEF IInv
<1>3. ScriptTypeOK' /\ SlotOwned' /\ StopsTold'
  BY <1>1, ScriptPreserves DEF IInv
<1>4. ManagerTypeOK' /\ ClientTypeOK' /\ Numbered' /\ Launches'
  BY <1>1, HelperPreserves DEF IInv
<1>5. ServicesTypeOK' /\ Handling' /\ Stamped' /\ load' \in Workloads
  BY <1>1, <1>4, ServicesPreserve DEF IInv
<1>6. HidTypeOK'
  BY <1>4 DEF HidTypeOK, ManagerTypeOK, ClientTypeOK, HidType, TouchType
<1> QED  BY <1>2, <1>3, <1>4, <1>5, <1>6 DEF IInv, TypeOK

LEMMA InitIInv == Init => IInv
<1> SUFFICES ASSUME Init PROVE IInv
  OBVIOUS
<1>1. load \in Workloads
  BY DEF Init
<1>2. TransportTypeOK /\ Drained /\ main = "serving"
  BY DEF Init, TransportInit, TransportTypeOK, Drained
<1>3. ScriptTypeOK
  BY StepBound DEF Init, ScriptInit, ScriptTypeOK, Positions
<1>4. SlotOwned
  BY RunNames DEF Init, ScriptInit, SlotOwned, InSlot, Unfinished
<1>5. StopsTold
  BY DEF Init, ScriptInit, StopsTold, StopAnnouncedFirst, Logged
<1>6. \A r \in Requests : \E kind \in Kinds, dev \in Devices : req[r] = Fresh(kind, dev)
  <2>1. "app" \in Kinds /\ Sim \in Devices
    BY DEF Kinds, Plain, Devices
  <2>2. \A r \in Requests : req[r] = IF r \in DOMAIN load.methods
                                     THEN Fresh(load.methods[r][1], load.methods[r][2]) ELSE Fresh("app", Sim)
    BY DEF Init
  <2>3. \A r \in Requests \cap DOMAIN load.methods : load.methods[r][1] \in Kinds /\ load.methods[r][2] \in Devices
    BY <1>1, WorkloadShape
  <2> QED  BY <2>1, <2>2, <2>3
<1>7. \A kind \in Kinds, dev \in Devices : Fresh(kind, dev) \in RequestType
  BY HelperBound DEF Fresh, RequestType, HandlerAt
<1>8. req \in [Requests -> RequestType]
  BY <1>6, <1>7 DEF Init
<1>9. Selected \/ HidInit
  BY DEF Init
<1>10. sel \in Selections \cup {None}
  BY DEF Init, Selected, Selections, Devices
<1>11. SharedTypeOK
  BY <1>10, Times DEF Init, SharedTypeOK, CacheType
<1>12. ServicesTypeOK
  BY <1>8, <1>11, ServiceTypes
<1>13. Handling
  BY <1>6 DEF Init, Handling, Sound, Fresh
<1>14. Stamped
  BY DEF Init, Stamped
<1>15. ManagerTypeOK /\ ClientTypeOK
  <2>1. ManagerTypeOK
    BY <1>9, HelperBound DEF Selected, HidInit, ManagerTypeOK, Attempts
  <2>2. hid \in HidType
    <3>1. 0 \in 0..MaxHelpers /\ 1 \in 0..MaxHelpers
      BY HelperBound
    <3>2. CASE Selected
      BY <3>1, <3>2 DEF Selected, HidType
    <3>3. CASE HidInit
      BY <3>1, <3>3 DEF HidInit, HidType
    <3> QED  BY <1>9, <3>2, <3>3
  <2>3. touch \in [Requests -> TouchType] /\ slot \in [Requests -> {"empty", "ok", "rejected", "disconnected"}]
    BY <1>9 DEF Selected, HidInit, TouchType
  <2>4. frames \in Seq(Requests) /\ performed \in Seq(Requests) /\ replies \in Seq(Nat)
    <3>1. frames = <<>> /\ performed = <<>> /\ replies = <<>>
      BY <1>9 DEF Selected, HidInit
    <3> QED  BY <3>1
  <2> QED  BY <2>1, <2>2, <2>3, <2>4 DEF ClientTypeOK
<1>16. Numbered
  BY <1>9 DEF Selected, HidInit, Numbered, TouchConfirmed, Mine
<1>17. Launches
  BY <1>2, <1>9, HelperBound DEF Selected, HidInit, Launches, Attempts
<1> QED  BY <1>1, <1>2, <1>3, <1>4, <1>5, <1>12, <1>13, <1>14, <1>15, <1>16, <1>17, HidTypes DEF IInv, TypeOK

LEMMA Invariance == Spec => []IInv
  BY InitIInv, NextIInv, PTL DEF Spec

-----------------------------------------------------------------------------
(* The theorems.                                                            *)

\* The state of every part stays of its type, for any requests and workloads.
THEOREM TypeCorrect == Spec => []TypeOK
<1>1. IInv => TypeOK
  BY DEF IInv
<1> QED  BY <1>1, Invariance, PTL

\* reserve and clearCurrent hand the one slot from run to run: at most one request
\* is between them, current says which, and with no request left at work the slot
\* is free and the session bears no run id.
THEOREM OneRunAtATime == Spec => []SlotReleased
<1>1. IInv => SlotReleased
  <2> SUFFICES ASSUME IInv PROVE SlotReleased
    OBVIOUS
  <2> DEFINE owners == {r \in Runs : pc[r] \in InSlot}
  <2>1. owners = {} \/ \E r \in Runs : owners = {r}
    BY DEF IInv, SlotOwned
  <2>2. Cardinality(owners) <= 1
    <3>1. Cardinality({}) = 0 /\ \A r : Cardinality({r}) = 1
      BY FS_EmptySet, FS_Singleton
    <3> HIDE DEF owners
    <3>2. Cardinality(owners) = 0 \/ Cardinality(owners) = 1
      BY <2>1, <3>1
    <3> QED  BY <3>2
  <2>3. (\A r \in Runs : pc[r] \in {"idle", "report", "done"}) => current = None /\ activeRunID = None
    BY DEF IInv, SlotOwned, InSlot, TypeOK, ScriptTypeOK
  <2> QED  BY <2>2, <2>3 DEF IInv, SlotOwned, SlotReleased
<1> QED  BY <1>1, Invariance, PTL

\* stopScript publishes runStopRequested before it cancels, and only that
\* cancellation, or the end of the runtime, makes the run end as cancelled.
THEOREM StopsAreAnnounced == Spec => []StopAnnouncedFirst
<1>1. IInv => StopAnnouncedFirst
  BY DEF IInv, StopsTold
<1> QED  BY <1>1, Invariance, PTL

\* getUiTree stamps its cache with the instant before the capture, so a tree it
\* serves from there was captured less than the TTL before the request.
THEOREM TreesAreFresh == Spec => []CacheFresh
<1>1. IInv => CacheFresh
  BY DEF IInv, Handling, Sound, CacheFresh
<1> QED  BY <1>1, Invariance, PTL

\* A number is given to one dispatch of a client only, and a reply is dropped with
\* the client it was for: a dispatch that succeeds was performed.
THEOREM TouchesAreConfirmed == Spec => []TouchConfirmed
<1>1. IInv => TouchConfirmed
  BY DEF IInv, Numbered
<1> QED  BY <1>1, Invariance, PTL

\* Launch, the manager and Dispose leave no helper behind: one that runs untold is
\* the latest attempt's, before main disposes the manager.
THEOREM NoHelperIsLost == Spec => []HelpersOwned
<1>1. IInv => HelpersOwned
  BY HelperBound DEF IInv, TypeOK, HidTypeOK, TransportTypeOK, Launches, HelpersOwned, Attempts
<1> QED  BY <1>1, Invariance, PTL
=============================================================================
