-------------------------- MODULE SidecarRequests ---------------------------
(***************************************************************************)
(* The handlers that use the selected device: selection itself, the cached  *)
(* UI tree, the app and input services and the mirror's input, which gate   *)
(* on an agent's readiness and scale ratios by a cached screen size.  Each  *)
(* handler holds what it read from the session for as long as it runs.      *)
(***************************************************************************)
EXTENDS SimHid

CONSTANTS
    Sim, Phone, \* an iOS simulator with the direct-touch path, and an iPhone
    CacheTTL,   \* inspectionCacheTTLMs, in ticks
    MaxTime     \* bound on the clock

ASSUME Sim # Phone
ASSUME Times == CacheTTL \in Nat \ {0} /\ MaxTime \in Nat

VARIABLES
    req,        \* request -> its method, parameters and local variables
    sel,        \* Session.device: device, HidClient generation, 0 without one
    selectMu,   \* deviceService.selectMu: the request that holds it
    treeCache,  \* inspectionService: the tree and capturedAt
    sizeCache,  \* service -> the device whose screen size it caches
    ready,      \* devices whose agent is in its ready state
    time

serviceVars == <<req, sel, selectMu, treeCache, sizeCache, ready, time>>

Devices == {Sim, Phone}
Streams == {"down", "move", "up"}
MirrorPoints == {"mirrorTap", "mirrorSwipe", "mirrorPinch"} \cup Streams
Mirror == MirrorPoints \cup {"mirrorText"}
Touching == {"tap", "mirrorTap", "mirrorSwipe"} \cup Streams
Attaching == {"tap", "mirrorTap", "mirrorSwipe", "mirrorPinch"}
Plain == {"screenshot", "app"}
Kinds == Mirror \cup Plain \cup {"tap", "tree", "freshTree", "invalidate", "select", "deselect"}
Selections == [dev : Devices, gen : Nat]
Trees == [dev : Devices, t : Nat]
Service(kind) == IF kind = "tap" THEN "input" ELSE "mirror"
\* A swipe converts two points, and looks the size up for each.
Points(kind) == CASE kind = "mirrorSwipe" -> 2 [] kind \in Touching \cup MirrorPoints -> 1 [] OTHER -> 0

HandlerAt == {"begin", "lookup", "require", "capture", "store", "size", "measure", "keep",
               "attach", "act", "touch", "check", "dispose", "build", "helper", "connect",
               "install", "reply"}

ServicesTypeOK ==
    /\ req \in [Requests -> [kind : Kinds, dev : Devices, at : HandlerAt, now : Nat,
                             sel : Selections \cup {None}, tree : Trees \cup {None},
                             sizes : Seq(Devices), helper : 0..MaxHelpers,
                             out : {"none", "ok", "failed"}]]
    /\ sel \in Selections \cup {None} /\ selectMu \in Requests \cup {None}
    /\ treeCache \in [tree : Trees \cup {None}, at : Nat]
    /\ sizeCache \in [{"input", "mirror"} -> Devices \cup {None}]
    /\ ready \subseteq Devices /\ time \in 0..MaxTime

Fresh(kind, dev) ==
    [kind |-> kind, dev |-> dev, at |-> "begin", now |-> 0, sel |-> None, tree |-> None,
     sizes |-> <<>>, helper |-> 0, out |-> "none"]

-----------------------------------------------------------------------------
In(r, kinds, at) == line[r] = "running" /\ req[r].kind \in kinds /\ req[r].at = at
Goes(r, at) == req' = [req EXCEPT ![r].at = at]
Replies(r, out) == req' = [req EXCEPT ![r].at = "reply", ![r].out = out]

\* requireDevice, and for the mirror the readiness of the device it names.
Allowed(r) ==
    /\ sel # None
    /\ req[r].kind \in Mirror => req[r].dev \in ready
    /\ req[r].kind \in Streams => sel.gen # 0

AfterRequire(kind) ==
    CASE kind \in {"tree", "freshTree"} -> "capture" [] Points(kind) > 0 -> "size" [] OTHER -> "act"

Require(r) ==
    /\ In(r, Kinds \ {"select", "deselect", "invalidate", "tree"}, "begin") \/ In(r, {"tree"}, "require")
    /\ IF Allowed(r)
       THEN req' = [req EXCEPT ![r].at = AfterRequire(req[r].kind), ![r].sel = sel,
                               ![r].now = IF req[r].kind = "freshTree" THEN time ELSE @]
       ELSE Replies(r, "failed")
    /\ UNCHANGED <<sel, selectMu, treeCache, sizeCache, hidVars>>

-----------------------------------------------------------------------------
(* inspectionService *)

AskTree(r) ==
    /\ In(r, {"tree"}, "begin")
    /\ req' = [req EXCEPT ![r].at = "lookup", ![r].now = time]
    /\ UNCHANGED <<sel, selectMu, treeCache, sizeCache, hidVars>>

CachedIfFresh(now) == treeCache.tree # None /\ now - treeCache.at < CacheTTL

LookUpTree(r) ==
    /\ In(r, {"tree"}, "lookup")
    /\ IF CachedIfFresh(req[r].now)
       THEN req' = [req EXCEPT ![r].at = "reply", ![r].out = "ok", ![r].tree = treeCache.tree]
       ELSE Goes(r, "require")
    /\ UNCHANGED <<sel, selectMu, treeCache, sizeCache, hidVars>>

Capture(r) ==
    /\ In(r, {"tree", "freshTree"}, "capture")
    /\ req' = [req EXCEPT ![r].at = "store", ![r].tree = [dev |-> req[r].sel.dev, t |-> time]]
    /\ UNCHANGED <<sel, selectMu, treeCache, sizeCache, hidVars>>

\* Mutant: the tree is stamped when it is stored.
StoreStamped(r) ==
    /\ In(r, {"tree", "freshTree"}, "store")
    /\ treeCache' = [tree |-> req[r].tree, at |-> time]
    /\ Replies(r, "ok")
    /\ UNCHANGED <<sel, selectMu, sizeCache, hidVars>>

Store(r) ==
    /\ In(r, {"tree", "freshTree"}, "store")
    /\ treeCache' = [tree |-> req[r].tree, at |-> req[r].now]
    /\ Replies(r, "ok")
    /\ UNCHANGED <<sel, selectMu, sizeCache, hidVars>>

Invalidate(r) ==
    /\ In(r, {"invalidate"}, "begin")
    /\ treeCache' = [treeCache EXCEPT !.tree = None]
    /\ Replies(r, "ok")
    /\ UNCHANGED <<sel, selectMu, sizeCache, hidVars>>

-----------------------------------------------------------------------------
(* inputService and mirrorInputService *)

\* ratioToPoint has its size: on to the second point, or to the gesture.
Scaled(r, dev) ==
    LET sizes == Append(req[r].sizes, dev)
        next  == IF Len(sizes) < Points(req[r].kind) THEN {"size"}
                 ELSE IF req[r].kind \in Attaching THEN {"attach", "act"} ELSE {"act"}
    IN  \E at \in next : req' = [req EXCEPT ![r].sizes = sizes, ![r].at = at]

Cached(r) ==
    /\ sizeCache[Service(req[r].kind)] # None
    /\ sizeCache[Service(req[r].kind)] = req[r].sel.dev

ScreenSize(r) ==
    /\ In(r, Kinds, "size")
    /\ IF Cached(r) THEN Scaled(r, sizeCache[Service(req[r].kind)]) ELSE Goes(r, "measure")
    /\ UNCHANGED <<sel, selectMu, treeCache, sizeCache, hidVars>>

Measure(r) ==
    /\ In(r, Kinds, "measure")
    /\ Goes(r, "keep")
    /\ UNCHANGED <<sel, selectMu, treeCache, sizeCache, hidVars>>

KeepSize(r) ==
    /\ In(r, Kinds, "keep")
    /\ sizeCache' = [sizeCache EXCEPT ![Service(req[r].kind)] = req[r].sel.dev]
    /\ Scaled(r, req[r].sel.dev)
    /\ UNCHANGED <<sel, selectMu, treeCache, hidVars>>

Attach(r) ==
    /\ In(r, Attaching, "attach") /\ Goes(r, "act")
    /\ UNCHANGED <<sel, selectMu, treeCache, sizeCache, hidVars>>

\* A call of the agent: everything but a touch of the simulator.
Act(r) ==
    /\ In(r, Kinds, "act") /\ ~(req[r].kind \in Touching /\ req[r].sel.gen # 0)
    /\ Replies(r, "ok")
    /\ UNCHANGED <<sel, selectMu, treeCache, sizeCache, hidVars>>

\* An agent call fails, or gives up because its context is done; a touch of
\* the simulator asks the agent for the screen size first.
CallFails(r) ==
    /\ \E at \in {"capture", "measure", "attach", "act"} : In(r, Kinds, at)
    /\ Replies(r, "failed")
    /\ UNCHANGED <<sel, selectMu, treeCache, sizeCache, hidVars>>

Dispatch(r) ==
    /\ In(r, Touching, "act") /\ req[r].sel.gen # 0
    /\ Register(r, req[r].sel.gen)
    /\ Goes(r, "touch")
    /\ UNCHANGED <<sel, selectMu, treeCache, sizeCache, managerVars>>

Dispatched(r) ==
    /\ In(r, Touching, "touch") /\ touch[r].at \in {"ok"} \cup HidErrors
    /\ Replies(r, IF touch[r].at = "ok" THEN "ok" ELSE "failed")
    /\ UNCHANGED <<sel, selectMu, treeCache, sizeCache, hidVars>>

-----------------------------------------------------------------------------
(* deviceService, DriverFactory.Build and the simulator driver's Connect *)

LockSelect(r) ==
    /\ In(r, {"select", "deselect"}, "begin") /\ selectMu = None
    /\ selectMu' = r /\ Goes(r, "check")
    /\ UNCHANGED <<sel, treeCache, sizeCache, hidVars>>

Unlock(r, out) == selectMu' = None /\ Replies(r, out)

\* The device is selected already and its agent's connection looks alive.
AlreadySelected(r) ==
    /\ In(r, {"select"}, "check") /\ sel # None /\ sel.dev = req[r].dev
    /\ Unlock(r, "ok")
    /\ UNCHANGED <<sel, treeCache, sizeCache, hidVars>>

\* SetDevice(nil): the session lets go, then the driver disconnects.
DropDevice(r) ==
    /\ In(r, {"select", "deselect"}, "check")
    /\ sel' = None
    /\ req' = [req EXCEPT ![r].sel = sel, ![r].at = IF sel = None THEN "build" ELSE "dispose"]
    /\ UNCHANGED <<selectMu, treeCache, sizeCache, hidVars>>

DisconnectDropped(r) ==
    /\ In(r, {"select", "deselect"}, "dispose")
    /\ IF req[r].sel.gen # 0 /\ req[r].sel.gen = hid.gen THEN DisposeHid ELSE UNCHANGED clientVars
    /\ Goes(r, "build")
    /\ UNCHANGED <<sel, selectMu, treeCache, sizeCache, managerVars>>

Deselected(r) ==
    /\ In(r, {"deselect"}, "build") /\ Unlock(r, "ok")
    /\ UNCHANGED <<sel, treeCache, sizeCache, hidVars>>

CreateDriver(r) ==
    /\ In(r, {"select"}, "build")
    /\ IF req[r].dev = Sim THEN StartSimHid /\ req' = [req EXCEPT ![r].at = "helper", ![r].helper = cur']
       ELSE Goes(r, "connect") /\ UNCHANGED managerVars
    /\ UNCHANGED <<sel, selectMu, treeCache, sizeCache, clientVars>>

\* The helper's port, or none: then the simulator is driven without it.
HelperResolved(r) ==
    /\ In(r, {"select"}, "helper") /\ attempt[req[r].helper].at = "done"
    /\ req' = [req EXCEPT ![r].at = "connect",
                          ![r].helper = IF attempt[@].state = "ready" THEN @ ELSE 0]
    /\ UNCHANGED <<sel, selectMu, treeCache, sizeCache, hidVars>>

HelperAbandoned(r) ==
    /\ In(r, {"select"}, "helper") /\ parentDone
    /\ req' = [req EXCEPT ![r].at = "connect", ![r].helper = 0]
    /\ UNCHANGED <<sel, selectMu, treeCache, sizeCache, hidVars>>

\* The agent answers, and so does the helper where there is one.
Connect(r) ==
    /\ In(r, {"select"}, "connect")
    /\ IF req[r].helper = 0 THEN UNCHANGED clientVars
       ELSE Running(req[r].helper) /\ ConnectHid(req[r].helper)
    /\ Goes(r, "install")
    /\ UNCHANGED <<sel, selectMu, treeCache, sizeCache, managerVars>>

ConnectFails(r) ==
    /\ In(r, {"select"}, "connect")
    /\ Unlock(r, "failed")
    /\ UNCHANGED <<sel, treeCache, sizeCache, hidVars>>

Install(r) ==
    /\ In(r, {"select"}, "install")
    /\ sel' = [dev |-> req[r].dev, gen |-> IF req[r].helper = 0 THEN 0 ELSE hid.gen]
    /\ Unlock(r, "ok")
    /\ UNCHANGED <<treeCache, sizeCache, hidVars>>

-----------------------------------------------------------------------------
Handle(r) ==
    \/ Require(r) \/ AskTree(r) \/ LookUpTree(r) \/ Capture(r) \/ Store(r) \/ Invalidate(r)
    \/ ScreenSize(r) \/ Measure(r) \/ KeepSize(r) \/ Attach(r) \/ Act(r) \/ CallFails(r)
    \/ Dispatch(r) \/ Dispatched(r)
    \/ LockSelect(r) \/ AlreadySelected(r) \/ DropDevice(r) \/ DisconnectDropped(r)
    \/ Deselected(r) \/ CreateDriver(r) \/ HelperResolved(r) \/ HelperAbandoned(r)
    \/ Connect(r) \/ ConnectFails(r) \/ Install(r)
=============================================================================
