------------------------------ MODULE Orchestra ------------------------------
(***************************************************************************)
(* The command layer of core/internal/orchestra: every action on an        *)
(* element is a sequence of driver calls with reads of the screen in       *)
(* between, and the screen moves on its own between any two of them.       *)
(* Calls run concurrently over one Orchestra per connected driver: its     *)
(* launched apps and its keyboard hint are shared.                         *)
(*                                                                         *)
(* The screen is a list of pages of which the tree shows the one in view   *)
(* and its neighbours; an element is a member of Elem on the page Page[e]. *)
(* Text, role and geometry of elements are not modelled beyond that.       *)
(***************************************************************************)
EXTENDS Integers, FiniteSets, FiniteSetsExt

CONSTANTS Calls,          \* tool calls, each made once
          Drivers,        \* the drivers a process may build, 1..n
          Elem, Apps, None,
          Page, LastPage, \* Page \in [Elem -> Nat]; pages 0..LastPage can be scrolled to
          Low,            \* the elements the on-screen keyboard covers
          Dialogs,        \* the elements that cover the screen when they appear
          Interval, FocusTimeout, SoftTimeout, HardTimeout,
          ThinBudget, SearchBudget, MaxIterations,
          Workloads       \* what the calls of a behaviour are, and its bounds

ASSUME TimesAssumption ==
  /\ {Interval, FocusTimeout, SoftTimeout, HardTimeout, ThinBudget, SearchBudget} \subseteq Nat \ {0}
  /\ {LastPage, MaxIterations} \subseteq Nat
  /\ Page \in [Elem -> Nat]

VARIABLES load,         \* the member of Workloads this behaviour runs
          now,          \* the clock
          screen,       \* what the device shows
          changes,      \* changes the app made on its own so far
          front,        \* the app in the foreground
          connected,    \* drivers whose control channel is open
          launched,     \* launched[d]: Orchestra.launchedApps
          keyboardHint, \* keyboardHint[d]: Orchestra.maybeKeyboardOpen
          call          \* the goroutine of each call

device == <<screen, front>>
shared == <<launched, keyboardHint>>
orchestraVars == <<load, now, screen, changes, front, connected, launched, keyboardHint, call>>

op(c) == load.ops[c]
drv(c) == call[c].drv

\* The elements of one hierarchy read, the ones in view, and the covered ones.
Tree(s) == {e \in s.here : Page[e] \in s.pos - 1 .. s.pos + 1}
InView(s, e) == Page[e] = s.pos
Obscured(s, e) == s.keyboard /\ e \in Low
\* DetectMotion: an element of both reads is somewhere else.
Moved(s, t) == s.pos # t.pos /\ Tree(s) \cap Tree(t) # {}

Screens == [here : SUBSET Elem, focus : Elem \cup {None}, keyboard : BOOLEAN,
            busy : BOOLEAN, pos : 0 .. LastPage]

\* A workload: what each call asks for, the first screen and how the app may change it,
\* whether a device is selected, a run stored and the tree thin, and the bounds.
ASSUME WorkloadShape ==
  \A w \in Workloads :
    /\ w.screen \in Screens
    /\ w.moves \in [here : SUBSET Elem, focus : SUBSET (Elem \cup {None}), keyboard : SUBSET BOOLEAN,
                    busy : SUBSET BOOLEAN, pos : SUBSET (0 .. LastPage)]
    /\ {w.changes, w.until, w.budget} \subseteq Nat
    /\ {w.selected, w.stored, w.thin} \subseteq BOOLEAN
    /\ \A c \in Calls : w.ops[c].tool = "launch" => w.ops[c].app \in Apps

IdleCall == [pc |-> "idle", drv |-> 0, budget |-> 0, kind |-> "none", deadline |-> 0, hard |-> 0,
             wake |-> 0, then |-> "idle", prev |-> None, pre |-> None,
             busy |-> FALSE, gone |-> TRUE, dir |-> "up", left |-> 0, iter |-> 0, at |-> None,
             began |-> 0, target |-> None, changed |-> FALSE, focused |-> FALSE, typed |-> FALSE,
             held |-> 0, bug |-> None, result |-> "none"]

OrchestraInit ==
  /\ load \in Workloads
  /\ now = 0
  /\ screen = load.screen
  /\ changes = 0
  /\ front = None
  /\ connected = IF load.selected THEN {1} ELSE {}
  /\ launched = [d \in Drivers |-> {}]
  /\ keyboardHint = [d \in Drivers |-> FALSE]
  /\ call = [c \in Calls |-> IdleCall]

------------------------------------------------------------------------------
(* How a call moves on. *)

Goto(c, pc) == call' = [call EXCEPT ![c].pc = pc]
\* The answer of a call; of its locals only what the properties ask for is kept.
Done(r, result) == [IdleCall EXCEPT !.pc = "done", !.result = result, !.drv = r.drv, !.budget = r.budget,
                                    !.began = r.began, !.focused = r.focused, !.typed = r.typed, !.bug = r.bug]
Finish(c, result) == call' = [call EXCEPT ![c] = Done(@, result)]
\* Clock.Sleep(ms), then pc.
Sleep(c, ms, pc) == [call[c] EXCEPT !.pc = "sleep", !.wake = now + ms, !.then = pc]

\* A read of the hierarchy by call c of the driver it holds: it needs an open
\* channel and an unexpired context, and the answer shows the screen of that instant.
Answers(c) == drv(c) \in connected /\ now < call[c].budget
Reads(c, pc) == call[c].pc = pc /\ Answers(c) /\ UNCHANGED <<load, now, changes, connected, device>>
Acts(c, pc) == call[c].pc = pc /\ Answers(c) /\ UNCHANGED <<load, now, changes, connected>>

\* The program counters at which a call waits for its driver.
DriverCalls == {"before", "state", "find", "probe", "swipe", "search", "toward", "refind", "tap", "hide",
                "poll", "pollAbsent", "pollAppear", "classify", "post", "lastAbsent", "lastAppear",
                "erase", "input", "list", "launch", "single", "screenshot"}

\* A driver call fails: a lost connection, an agent that reports an error.
\* LaunchApp gives its claim back; report_bug goes on without its screenshot.
Failed(r) == IF r.pc = "screenshot" THEN [r EXCEPT !.pc = "saveBug"] ELSE Done(r, "error")
DriverFailsInTime(c) ==
  /\ call[c].pc \in DriverCalls /\ now < call[c].budget
  /\ Finish(c, "error")
  /\ UNCHANGED <<load, now, changes, connected, device, shared>>
DriverFails(c) ==
  /\ call[c].pc \in DriverCalls
  /\ ~(call[c].pc = "erase" /\ op(c).tool = "typeAt")
  /\ call' = [call EXCEPT ![c] = Failed(@)]
  /\ launched' = IF call[c].pc \in {"list", "launch"} /\ ~op(c).fresh
                 THEN [launched EXCEPT ![drv(c)] = @ \ {op(c).app}] ELSE launched
  /\ UNCHANGED <<load, now, changes, connected, device, keyboardHint>>

\* The context ends during a sleep.
SleepEnds(c) ==
  /\ call[c].pc = "sleep"
  /\ now >= call[c].budget
  /\ Finish(c, "error")
  /\ UNCHANGED <<load, now, changes, connected, device, shared>>

Wakes(c) ==
  /\ call[c].pc = "sleep"
  /\ now = call[c].wake
  /\ call' = [call EXCEPT ![c].pc = call[c].then]
  /\ UNCHANGED <<load, now, changes, connected, device, shared>>

------------------------------------------------------------------------------
(* WaitUntil and Finder.WaitFor: read, test, sleep, until the deadline. *)

\* The record of a call that starts a wait of the given kind.
Waiting(r, kind, ms) ==
  [r EXCEPT !.pc = "poll", !.kind = kind, !.deadline = now + ms]

\* The next window of WaitForTransition.
Window(r) == Waiting(r, "transition", Min({SoftTimeout, r.hard - now}))

\* What a call does when its wait is satisfied, and when it times out.
Waited(r, pc) == [r EXCEPT !.pc = pc, !.kind = "none", !.deadline = 0, !.wake = 0, !.then = "idle"]
Satisfied(r) ==
  CASE r.kind = "focus"        -> Waited(r, "erase")
    [] r.kind = "ready"        -> Waited(r, "input")
    [] r.kind = "keyboardGone" -> Waited(r, "find")
    [] OTHER                   -> Done(r, "ok")
TimedOutTypes(r) == IF r.kind = "focus" THEN Waited(r, "erase") ELSE Done(r, "timeout")
TimedOut(r) ==
  CASE r.kind = "keyboardGone" -> Waited(r, "find")
    [] r.kind = "transition"   -> IF now >= r.hard \/ ~r.busy THEN Waited(r, "classify") ELSE Window(r)
    [] OTHER                   -> Done(r, "timeout")

\* One turn of the loop after a fetch; a deadline that is near shortens the sleep.
AfterFetchUnclamped(c, r, holds) ==
  IF holds THEN Satisfied(r)
  ELSE IF now >= r.deadline THEN TimedOut(r)
  ELSE [r EXCEPT !.pc = "sleep", !.wake = now + Interval + 1, !.then = "poll"]
AfterFetch(c, r, holds) ==
  IF holds THEN Satisfied(r)
  ELSE IF now >= r.deadline THEN TimedOut(r)
  ELSE [r EXCEPT !.pc = "sleep", !.wake = now + Min({Interval, r.deadline - now}), !.then = "poll"]

\* The predicates of the waits: the target holds the focus; the keyboard is down;
\* any field holds the focus, or none does and the keyboard is up.
FocusHeld(s, e) == s.focus = e /\ e \in Tree(s)
KeyboardGone(s) == ~s.keyboard
InputReady(s) == s.focus \in Tree(s) \/ s.keyboard
Holds(c, kind, s) ==
  \/ kind = "focus" /\ FocusHeld(s, op(c).elem)
  \/ kind = "keyboardGone" /\ KeyboardGone(s)
  \/ kind = "ready" /\ InputReady(s)
  \/ kind = "find" /\ op(c).elem \in Tree(s)

\* WaitForFocus, waitForKeyboard, WaitFor: one read decides.  When the keyboard
\* wait ends, either way, Tap clears the hint and starts again.
Poll(c) ==
  /\ Reads(c, "poll")
  /\ call[c].kind # "transition"
  /\ LET ok == Holds(c, call[c].kind, screen)
         r == [call[c] EXCEPT !.focused = @ \/ (call[c].kind = "focus" /\ ok)]
     IN /\ call' = [call EXCEPT ![c] = AfterFetch(c, r, ok)]
        /\ keyboardHint' = IF call[c].kind = "keyboardGone" /\ call'[c].pc = "find"
                           THEN [keyboardHint EXCEPT ![drv(c)] = FALSE] ELSE keyboardHint
  /\ UNCHANGED launched

\* A fetch of WaitForTransition is three reads: the tree, for loading and motion
\* against the previous tree, then one per condition of the caller.
PollTree(c) ==
  /\ Reads(c, "poll")
  /\ call[c].kind = "transition"
  /\ call' = [call EXCEPT ![c] = [call[c] EXCEPT
                !.pc = "pollAbsent", !.prev = screen, !.busy = screen.busy \/ Moved(call[c].prev, screen)]]
  /\ UNCHANGED shared
PollAbsent(c) ==
  /\ Reads(c, "pollAbsent")
  /\ call' = [call EXCEPT ![c] = [call[c] EXCEPT
                !.pc = "pollAppear", !.gone = op(c).absent \notin Tree(screen)]]
  /\ UNCHANGED shared
PollAppear(c) ==
  /\ Reads(c, "pollAppear")
  /\ LET came == op(c).appear = None \/ op(c).appear \in Tree(screen)
     IN call' = [call EXCEPT ![c] = AfterFetch(c, call[c], call[c].gone /\ came)]
  /\ UNCHANGED shared


\* The state of the tap target in one read: where it is, or that it is not there.
TargetState(c) == IF op(c).elem \in Tree(screen) THEN Page[op(c).elem] - screen.pos ELSE None
TargetChanged(before, after) == before # None /\ after # before

\* classifyTransitionTimeout compares a fresh tree with the one before the tap,
\* then reads the target and the conditions once more; ClassifyFailure takes the
\* first that applies.
Classify(c) ==
  /\ Reads(c, "classify")
  /\ call' = [call EXCEPT ![c].pc = "post", ![c].prev = screen]
  /\ UNCHANGED shared
ReadPost(c) ==
  /\ Reads(c, "post")
  /\ call' = [call EXCEPT ![c].pc = "lastAbsent", ![c].target = None,
                         ![c].changed = TargetChanged(call[c].target, TargetState(c))]
  /\ UNCHANGED shared
LastAbsent(c) ==
  /\ Reads(c, "lastAbsent")
  /\ call' = [call EXCEPT ![c].pc = "lastAppear", ![c].gone = op(c).absent \notin Tree(screen)]
  /\ UNCHANGED shared
OverlayAppeared(before, after) == Dialogs \cap (Tree(after) \ Tree(before)) # {}
Classification(before, after, targetChanged, absentOk, appearOk) ==
  CASE targetChanged                      -> "still_loading"
    [] OverlayAppeared(before, after)     -> "dialog_or_error_shown"
    [] after.busy \/ Moved(before, after) -> "still_loading"
    [] absentOk /\ ~appearOk              -> "partial_transition"
    [] OTHER                              -> "no_change_detected"
Verdict(c) ==
  /\ Reads(c, "lastAppear")
  /\ Finish(c, Classification(call[c].pre, call[c].prev, call[c].changed, call[c].gone,
                              op(c).appear \in Tree(screen)))
  /\ UNCHANGED shared

------------------------------------------------------------------------------
(* ScrollController.EnsureVisible and the selector pipeline. *)

\* Everything but focus is part of the signature that detects a list's end.
Signature(s) == <<Tree(s), s.pos, s.keyboard, s.busy>>
Budget == IF load.thin THEN ThinBudget ELSE SearchBudget

\* The resolved element is checked against the tree it was found in.  Tap, and
\* only Tap, puts a keyboard away that a type action may have left open.
Located(r, pc) == [r EXCEPT !.pc = pc, !.prev = None, !.left = 0, !.iter = 0, !.at = None, !.began = 0,
                            !.wake = 0, !.then = "idle"]
Prepared(c, r, s) ==
  IF ~Obscured(s, op(c).elem) THEN Located(r, "tap")
  ELSE IF keyboardHint[drv(c)] /\ op(c).tool # "type" THEN Located(r, "hide")
  ELSE Done(r, "obscured")

\* The head of the positioning loop, for an element found in s.
Position(c, r, s) ==
  IF r.iter = MaxIterations THEN Done(r, "unreachable")
  ELSE IF InView(s, op(c).elem) THEN Prepared(c, r, s)
  ELSE IF r.at = Page[op(c).elem] - s.pos THEN Done(r, "unreachable")
  ELSE [r EXCEPT !.pc = "toward", !.at = Page[op(c).elem] - s.pos]

FindTarget(c) ==
  /\ Reads(c, "find")
  /\ LET r == [call[c] EXCEPT !.began = screen.pos]
         there == op(c).elem \in Tree(screen)
     IN call' = [call EXCEPT ![c] =
          CASE op(c).scroll /\ there  -> Position(c, r, screen)
            [] op(c).scroll /\ ~there -> [r EXCEPT !.pc = "probe"]
            [] OTHER                  -> IF there THEN Prepared(c, r, screen) ELSE Done(r, "absent")]
  /\ UNCHANGED shared

\* scrollSearch's first read sizes the budget and is not tested against the filter.
Probe(c) ==
  /\ Reads(c, "probe")
  /\ call' = [call EXCEPT ![c].pc = "swipe", ![c].prev = screen, ![c].dir = "up", ![c].left = Budget]
  /\ UNCHANGED shared

ScrollTo(p) == [screen EXCEPT !.pos = IF p \in 0 .. LastPage THEN p ELSE @]

SearchSwipe(c) ==
  /\ Acts(c, "swipe")
  /\ screen' = ScrollTo(IF call[c].dir = "up" THEN screen.pos - 1 ELSE screen.pos + 1)
  /\ call' = [call EXCEPT ![c] = Sleep(c, Interval, "search")]
  /\ UNCHANGED <<front, shared>>

\* A direction ends when its budget is spent or a swipe changed nothing.
NextSwipeGivesUp(r, s) ==
  IF r.left > 1 /\ Signature(s) # Signature(r.prev)
  THEN [r EXCEPT !.pc = "swipe", !.left = @ - 1, !.prev = s]
  ELSE IF r.dir = "up" /\ r.left = 1 THEN [r EXCEPT !.pc = "swipe", !.dir = "down", !.left = Budget, !.prev = s]
  ELSE Done(r, "notfound")
NextSwipe(r, s) ==
  IF r.left > 1 /\ Signature(s) # Signature(r.prev)
  THEN [r EXCEPT !.pc = "swipe", !.left = @ - 1, !.prev = s]
  ELSE IF r.dir = "up" THEN [r EXCEPT !.pc = "swipe", !.dir = "down", !.left = Budget, !.prev = s]
  ELSE Done(r, "notfound")
Search(c) ==
  /\ Reads(c, "search")
  /\ call' = [call EXCEPT ![c] = IF op(c).elem \in Tree(screen) THEN Position(c, call[c], screen)
                                 ELSE NextSwipe(call[c], screen)]
  /\ UNCHANGED shared

Toward(c) ==
  /\ Acts(c, "toward")
  /\ screen' = ScrollTo(IF call[c].at > 0 THEN screen.pos + 1 ELSE screen.pos - 1)
  /\ call' = [call EXCEPT ![c] = Sleep(c, Interval, "refind")]
  /\ UNCHANGED <<front, shared>>
Refind(c) ==
  /\ Reads(c, "refind")
  /\ LET r == [call[c] EXCEPT !.iter = @ + 1]
     IN call' = [call EXCEPT ![c] = IF op(c).elem \in Tree(screen) THEN Position(c, r, screen)
                                    ELSE Done(r, "unreachable")]
  /\ UNCHANGED shared

------------------------------------------------------------------------------
(* The actions on the resolved element. *)

\* A call that acted on the device may still report an error.
Outcome(r, answered) == IF answered THEN r ELSE Done(r, "error")

HideKeyboard(c) ==
  /\ Acts(c, "hide")
  /\ \E up \in {FALSE, screen.keyboard} : screen' = [screen EXCEPT !.keyboard = up]
  /\ call' = [call EXCEPT ![c] = Waiting(@, "keyboardGone", FocusTimeout)]
  /\ UNCHANGED <<front, shared>>

\* The tap lands on the target if it is still where the read saw it; the focus
\* may follow at once, later, or never.
AfterTap(c, r) ==
  CASE op(c).tool = "type"       -> Waiting(r, "focus", FocusTimeout)
    [] op(c).tool = "transition" -> Window([r EXCEPT !.hard = now + HardTimeout, !.prev = r.pre])
    [] op(c).tool = "typeAt"     -> [r EXCEPT !.pc = "erase"]
    [] OTHER                     -> Done(r, "ok")
Tap(c) ==
  /\ Acts(c, "tap")
  /\ \E f \in {screen.focus, IF op(c).elem \in screen.here /\ InView(screen, op(c).elem)
                             THEN op(c).elem ELSE screen.focus} :
       screen' = [screen EXCEPT !.focus = f]
  /\ \E answered \in BOOLEAN : call' = [call EXCEPT ![c] = Outcome(AfterTap(c, @), answered)]
  /\ UNCHANGED <<front, shared>>

\* InputText erases, then types; input_text at a point erases first, whatever
\* comes of it, and waits for any field or keyboard before it types.
Erase(c) ==
  /\ call[c].pc = "erase"
  /\ Answers(c) \/ op(c).tool = "typeAt"
  /\ call' = [call EXCEPT ![c] = IF op(c).tool = "type" THEN [@ EXCEPT !.pc = "input"]
                                 ELSE Waiting(@, "ready", FocusTimeout)]
  /\ UNCHANGED <<load, now, changes, connected, device, shared>>
Input(c) ==
  /\ Acts(c, "input")
  /\ \E up \in {TRUE, screen.keyboard} : screen' = [screen EXCEPT !.keyboard = up]
  /\ \E answered \in BOOLEAN :
       /\ call' = [call EXCEPT ![c] = [Outcome(Done(@, "ok"), answered) EXCEPT !.typed = TRUE]]
       /\ keyboardHint' = [keyboardHint EXCEPT ![drv(c)] = @ \/ (answered /\ op(c).tool = "type")]
  /\ UNCHANGED <<front, launched>>

\* LaunchApp: ListApps, then the launch.  A default launch was claimed when the
\* call began; a fresh one is recorded when it has succeeded.
Release(c) == launched' = [launched EXCEPT ![drv(c)] = IF op(c).fresh THEN @ ELSE @ \ {op(c).app}]
ListApps(c) ==
  /\ Acts(c, "list")
  /\ IF op(c).app \in load.installed
     THEN Goto(c, "launch") /\ UNCHANGED launched
     ELSE Finish(c, "error") /\ Release(c)
  /\ UNCHANGED <<device, keyboardHint>>
LaunchOnDevice(c) ==
  /\ Acts(c, "launch")
  /\ front' = op(c).app
  /\ \E answered \in BOOLEAN :
       IF answered
       THEN /\ Finish(c, "ok")
            /\ keyboardHint' = [keyboardHint EXCEPT ![drv(c)] = FALSE]
            /\ launched' = [launched EXCEPT ![drv(c)] = @ \cup {op(c).app}]
       ELSE Finish(c, "error") /\ Release(c) /\ UNCHANGED keyboardHint
  /\ UNCHANGED screen

------------------------------------------------------------------------------
(* Where each tool enters the layer: c holds driver d and the context's deadline. *)

EnterLaunch(r, o) ==
  IF ~o.fresh /\ o.app \in launched[r.drv] THEN Done(r, "ok")
  ELSE [r EXCEPT !.pc = "list"]
Claimed(d, o) == IF o.fresh THEN launched[d] ELSE launched[d] \cup {o.app}

BeforeTree(c) ==
  /\ Reads(c, "before")
  /\ call' = [call EXCEPT ![c].pc = "state", ![c].pre = screen]
  /\ UNCHANGED shared
BeforeState(c) ==
  /\ Reads(c, "state")
  /\ call' = [call EXCEPT ![c].pc = "find", ![c].target = TargetState(c)]
  /\ UNCHANGED shared
\* The tools of one driver call, and what the call may do to the screen.
Effects(tool) ==
  CASE tool = "swipe"    -> {ScrollTo(screen.pos + 1)}
    [] tool = "pressKey" -> {screen, [screen EXCEPT !.keyboard = FALSE]}
    [] OTHER             -> {screen}
SingleCall(c) ==
  /\ Acts(c, "single")
  /\ screen' \in Effects(op(c).tool)
  /\ \E answered \in BOOLEAN : Finish(c, IF answered THEN "ok" ELSE "error")
  /\ UNCHANGED <<front, shared>>

OrchestraStep(c) ==
  \/ Wakes(c) \/ SleepEnds(c) \/ DriverFails(c)
  \/ Poll(c) \/ PollTree(c) \/ PollAbsent(c) \/ PollAppear(c)
  \/ Classify(c) \/ ReadPost(c) \/ LastAbsent(c) \/ Verdict(c)
  \/ FindTarget(c) \/ Probe(c) \/ SearchSwipe(c) \/ Search(c) \/ Toward(c) \/ Refind(c)
  \/ HideKeyboard(c) \/ Tap(c) \/ Erase(c) \/ Input(c) \/ ListApps(c) \/ LaunchOnDevice(c)
  \/ BeforeTree(c) \/ BeforeState(c) \/ SingleCall(c)

\* The app changes what it shows, in the ways the workload allows.
AppChanges ==
  /\ changes < load.changes
  /\ changes' = changes + 1
  /\ \E s \in {[screen EXCEPT !.here = (@ \ {e}) \cup ({e} \ @)] : e \in load.moves.here}
         \cup {[screen EXCEPT !.focus = f] : f \in load.moves.focus}
         \cup {[screen EXCEPT !.keyboard = b] : b \in load.moves.keyboard}
         \cup {[screen EXCEPT !.busy = b] : b \in load.moves.busy}
         \cup {[screen EXCEPT !.pos = p] : p \in load.moves.pos} :
       s # screen /\ screen' = s
  /\ UNCHANGED <<load, now, front, connected, shared, call>>

\* Time passes; a timer that is due fires first.
Tick ==
  /\ now < load.until
  /\ \A c \in Calls : ~(call[c].pc = "sleep" /\ call[c].wake = now)
  /\ now' = now + 1
  /\ UNCHANGED <<load, changes, device, connected, shared, call>>

------------------------------------------------------------------------------
(* Properties of the layer. *)

Positions == DriverCalls \cup {"idle", "sleep", "done", "answered", "drop", "build", "handshake", "info", "install",
  "saveRun", "record", "evidence", "saveShot", "saveBug", "updateRun", "deleteRun", "deleteBug", "deleteShot"}
Results == {"none", "ok", "error", "timeout", "obscured", "unreachable", "absent", "notfound", "overtime",
            "still_loading", "dialog_or_error_shown", "partial_transition", "no_change_detected"}
Kinds == {"none", "find", "focus", "ready", "keyboardGone", "transition"}
CallType ==
  [pc : Positions, drv : Drivers \cup {0}, budget : Nat, kind : Kinds, deadline : Nat, hard : Nat,
   wake : Nat, then : Positions, prev : Screens \cup {None}, pre : Screens \cup {None},
   busy : BOOLEAN, gone : BOOLEAN, dir : {"up", "down"}, left : 0 .. Max({SearchBudget, ThinBudget}),
   iter : 0 .. MaxIterations, at : Int \cup {None}, began : 0 .. LastPage, target : Int \cup {None},
   changed : BOOLEAN, focused : BOOLEAN, typed : BOOLEAN, held : Nat,
   bug : (Nat \X Nat) \cup {None}, result : Results]

OrchestraTypeOK ==
  /\ now \in 0 .. load.until
  /\ screen \in Screens
  /\ front \in Apps \cup {None}
  /\ connected \subseteq Drivers
  /\ launched \in [Drivers -> SUBSET Apps]
  /\ keyboardHint \in [Drivers -> BOOLEAN]
  /\ call \in [Calls -> CallType]

\* InputText dispatches its text only when, after its own tap, a read has shown
\* the target holding the focus: never into the field that held it before.
TypedIntoFocused == \A c \in Calls : call[c].typed /\ op(c).tool = "type" => call[c].focused

\* A wait asks no later than its deadline, no deadline passes the hard one, and
\* a wait gives up only on a screen it was shown at or after its deadline.
GivesUp(r, s) == r.pc \in {"poll", "pollAppear"} /\ (s.pc = "classify" \/ s.result = "timeout")
WaitsExact ==
  [][\A c \in Calls :
       LET r == call[c]  s == call'[c]
       IN /\ s.pc = "poll" /\ r.pc # "poll" => now <= s.deadline
          /\ s.kind = "transition" => s.deadline <= s.hard
          /\ GivesUp(r, s) => now >= r.deadline]_orchestraVars

\* On a list that only this call scrolls, an element is reported as not found
\* only if it lies above the pages the upward budget reaches, or below the pages
\* that the downward budget reaches from there.
Alone(c) == changes = 0 /\ \A d \in Calls \ {c} : op(d).tool \notin {"tap", "type", "transition", "swipe"}
SearchCovers ==
  \A c \in Calls :
    call[c].pc = "done" /\ call[c].result = "notfound" /\ Alone(c) =>
      LET top == Max({0, call[c].began - Budget})
      IN op(c).elem \in screen.here => Page[op(c).elem] \notin top - 1 .. Min({LastPage, top + Budget}) + 1

=============================================================================
