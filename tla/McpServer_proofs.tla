-------------------------- MODULE McpServer_proofs --------------------------
(***************************************************************************)
(* What McpServer guarantees for any tool calls, screens and workloads:    *)
(* type correctness, the invariants of its layers, and WaitsExact.         *)
(***************************************************************************)
EXTENDS McpServer, FiniteSetTheorems, TLAPS

-----------------------------------------------------------------------------
(* The inductive invariant: what holds of the record r of one call c.       *)

\* The position a call is at, or sleeps before.
Heading(r) == IF r.pc = "sleep" THEN r.then ELSE r.pc
Seeking == {"before", "state", "find", "probe", "swipe", "search", "toward", "refind", "hide"}
OnBug == {"evidence", "screenshot", "saveShot", "saveBug"}

\* A position belongs to the tools that reach it, and has what it works on.
Suits(c, r) ==
  /\ r.pc = "sleep" => r.then \in {"poll", "search", "refind"}
  /\ Heading(r) \in Seeking \/ r.kind = "keyboardGone" => op(c).tool \in {"tap", "type", "transition"}
  /\ Heading(r) \in {"toward", "refind"} => r.iter < MaxIterations
  /\ r.pc \in {"pollAbsent", "pollAppear"} => r.kind = "transition"
  /\ r.pc \in {"list", "launch"} => op(c).tool = "launch"
  /\ r.pc = "build" => op(c).tool = "select"
  /\ r.pc \in OnBug \cup {"record"} => op(c).tool = "bug"
  /\ r.pc \in {"deleteBug", "deleteShot"} => op(c).tool = "deleteBug"
  /\ r.pc \in OnBug \cup {"deleteBug", "deleteShot"} => r.bug \in Runs \X (Nat \ {0})
  /\ r.pc \in {"saveRun", "updateRun", "deleteRun"} => r.held \in Runs

\* A type action gets to its text only by way of a read that has shown the focus.
TypesSafely(c, r) ==
  op(c).tool = "type" =>
    /\ r.pc \in {"erase", "input"} \/ r.typed => r.focused
    /\ r.kind # "ready"

\* A sleep ends by the deadline, a soft deadline comes before the hard one, and
\* a call has no result before it is done.
Timed(r) ==
  /\ r.pc = "sleep" /\ r.then = "poll" => r.wake <= r.deadline
  /\ r.kind = "transition" => r.deadline <= r.hard
  /\ r.pc \notin {"done", "answered"} => r.result = "none"

Sound(c, r) == Suits(c, r) /\ TypesSafely(c, r) /\ Timed(r)

-----------------------------------------------------------------------------
(* What holds between calls.                                                *)

\* The driver that a session call is the only one to know, or 0.
Hand(r) == CASE r.pc = "drop"                             -> r.held
             [] r.pc \in {"handshake", "info", "install"} -> r.drv
             [] OTHER                                     -> 0
InHand(c) == Hand(call[c])

\* Every driver is in one place at most, and is connected there.
OnePlace ==
  /\ connected \subseteq 1 .. built
  /\ active \in connected \cup {0}
  /\ \A c \in Calls : /\ InHand(c) \in connected \cup {0}
                      /\ InHand(c) # 0 => InHand(c) # active
  /\ \A c, d \in Calls : InHand(c) # 0 /\ InHand(c) = InHand(d) => c = d

\* A session call that no other one overlaps is the only one, and finds the session empty.
InTurn ==
  \A c \in Calls : call[c].pc \in SessionPcs /\ c \notin overlapped =>
    active = 0 /\ \A d \in Calls : call[d].pc \in SessionPcs => d = c

\* A connected driver is the active one, in the hands of a call, or left behind by one
\* that is over: it failed, or another session call overlapped it.
Accounted ==
  /\ \A d \in connected : d = active \/ \E c \in Calls : InHand(c) = d \/ left[c] = d
  /\ \A c \in Calls : left[c] # 0 => FailedOrOverlapped(c)

\* Call c works on bug b, or has told its caller that it did not do all it should have.
Excuses(c, b) ==
  /\ call[c].bug = b
  /\ \/ call[c].pc \in {"saveBug", "deleteShot"}
     \/ /\ op(c).tool \in {"bug", "deleteBug"}
        /\ call[c].pc \in {"done", "answered"} /\ call[c].result # "ok"
EachExcused == \A b \in shotFiles \ bugFiles : \E c \in Calls : Excuses(c, b)

\* The builds and the runs still to come fit the bounds.
Selecting == {c \in Calls : op(c).tool = "select" /\ call[c].pc \in {"idle", "drop", "build"}}
BuildsFit == built + Cardinality(Selecting) <= Cardinality(Drivers)
Starting == {c \in Calls : op(c).tool = "start" /\ call[c].pc = "idle"}
StartsFit == started + Cardinality(Starting) <= Cardinality(Calls)

-----------------------------------------------------------------------------
(* How far a scroll search has come.                                        *)

\* Nothing of the target shows on the pages from lo to hi and next to them.
Unseen(c, lo, hi) == op(c).elem \in screen.here => Page[op(c).elem] \notin lo - 1 .. hi + 1
Top(r) == Max({0, r.began - Budget})

\* Before the next swipe of a search whose last read was at page p.
Progress(c, r, p) ==
  /\ r.prev \in Screens /\ r.left \in 1 .. Budget
  /\ r.dir = "up" => /\ Unseen(c, p, r.began)
                     /\ p <= r.began /\ r.began - p <= Budget - r.left
                     /\ p = 0 \/ r.began - p = Budget - r.left
  /\ r.dir = "down" => /\ Unseen(c, Top(r), p)
                       /\ Top(r) <= p
                       /\ p = LastPage \/ p - Top(r) = Budget - r.left

\* The page that a swipe in the direction of the search leads to.
Onward(r, p) ==
  IF r.dir = "up" THEN IF p = 0 THEN 0 ELSE p - 1
  ELSE IF p = LastPage THEN LastPage ELSE p + 1

\* With the list at page p.
Searched(c, r, p) ==
  Alone(c) =>
    /\ r.pc = "probe" => r.began = p /\ Unseen(c, p, p)
    /\ r.pc = "swipe" => Progress(c, r, p) /\ r.prev.pos = p
    /\ Heading(r) = "search" => Progress(c, r, r.prev.pos) /\ p = Onward(r, r.prev.pos)
    /\ r.pc = "done" /\ r.result = "notfound" => Unseen(c, Top(r), Min({LastPage, Top(r) + Budget}))

-----------------------------------------------------------------------------
Locals == \A c \in Calls : Sound(c, call[c])
Searches == \A c \in Calls : Searched(c, call[c], screen.pos)
LoadOK == load \in Workloads /\ changes \in Nat

IInv ==
  /\ TypeOK /\ LoadOK /\ Locals /\ Searches
  /\ OnePlace /\ InTurn /\ Accounted /\ BuildsFit /\ StartsFit
  /\ RunsKept /\ EachExcused

-----------------------------------------------------------------------------
(* Constants and helpers.                                                   *)

LEMMA MinOfTwo ==
    ASSUME NEW a \in Int, NEW b \in Int
    PROVE  Min({a, b}) = IF a <= b THEN a ELSE b
<1> DEFINE m == IF a <= b THEN a ELSE b
<1>1. m \in {a, b} /\ \A y \in {a, b} : m <= y
  OBVIOUS
<1>2. \A x \in {a, b} : (\A y \in {a, b} : x <= y) => x = m
  OBVIOUS
<1> QED BY <1>1, <1>2 DEF Min

LEMMA MaxOfTwo ==
    ASSUME NEW a \in Int, NEW b \in Int
    PROVE  Max({a, b}) = IF a >= b THEN a ELSE b
<1> DEFINE m == IF a >= b THEN a ELSE b
<1>1. m \in {a, b} /\ \A y \in {a, b} : m >= y
  OBVIOUS
<1>2. \A x \in {a, b} : (\A y \in {a, b} : x >= y) => x = m
  OBVIOUS
<1> QED BY <1>1, <1>2 DEF Max

\* What the assumptions say of the workload that a behaviour runs.
LEMMA LoadFacts ==
    ASSUME LoadOK
    PROVE  /\ load.screen \in Screens
           /\ load.moves \in [here : SUBSET Elem, focus : SUBSET (Elem \cup {None}),
                              keyboard : SUBSET BOOLEAN, busy : SUBSET BOOLEAN,
                              pos : SUBSET (0 .. LastPage)]
           /\ load.until \in Nat /\ load.budget \in Nat
           /\ load.selected \in BOOLEAN /\ load.stored \in BOOLEAN
           /\ \A c \in Calls : op(c).tool = "launch" => op(c).app \in Apps
  BY WorkloadShape DEF LoadOK, op

LEMMA Bounds ==
    /\ Interval \in Nat \ {0} /\ FocusTimeout \in Nat \ {0} /\ SoftTimeout \in Nat \ {0}
    /\ HardTimeout \in Nat \ {0} /\ ThinBudget \in Nat \ {0} /\ SearchBudget \in Nat \ {0}
    /\ LastPage \in Nat /\ MaxIterations \in Nat /\ Page \in [Elem -> Nat]
    /\ Max({SearchBudget, ThinBudget}) \in Nat
    /\ Budget \in 1 .. Max({SearchBudget, ThinBudget})
<1>1. /\ Interval \in Nat \ {0} /\ FocusTimeout \in Nat \ {0} /\ SoftTimeout \in Nat \ {0}
      /\ HardTimeout \in Nat \ {0} /\ ThinBudget \in Nat \ {0} /\ SearchBudget \in Nat \ {0}
      /\ LastPage \in Nat /\ MaxIterations \in Nat /\ Page \in [Elem -> Nat]
  BY TimesAssumption
<1>2. Max({SearchBudget, ThinBudget}) = IF SearchBudget >= ThinBudget THEN SearchBudget ELSE ThinBudget
  BY <1>1, MaxOfTwo
<1> QED BY <1>1, <1>2 DEF Budget

-----------------------------------------------------------------------------
(* A call's record keeps its type when one field gets a value of its own.   *)

LEMMA FieldTypes ==
    ASSUME NEW r \in CallType
    PROVE  /\ r.pc \in Positions
           /\ r.drv \in Drivers \cup {0}
           /\ r.budget \in Nat
           /\ r.kind \in Kinds
           /\ r.deadline \in Nat
           /\ r.hard \in Nat
           /\ r.wake \in Nat
           /\ r.then \in Positions
           /\ r.prev \in Screens \cup {None}
           /\ r.pre \in Screens \cup {None}
           /\ r.busy \in BOOLEAN
           /\ r.gone \in BOOLEAN
           /\ r.dir \in {"up", "down"}
           /\ r.left \in 0 .. Max({SearchBudget, ThinBudget})
           /\ r.iter \in 0 .. MaxIterations
           /\ r.at \in Int \cup {None}
           /\ r.began \in 0 .. LastPage
           /\ r.target \in Int \cup {None}
           /\ r.changed \in BOOLEAN
           /\ r.focused \in BOOLEAN
           /\ r.typed \in BOOLEAN
           /\ r.held \in Nat
           /\ r.bug \in (Nat \X Nat) \cup {None}
           /\ r.result \in Results
  BY DEF CallType

LEMMA SetPc ==
    ASSUME NEW r \in CallType, NEW x \in Positions
    PROVE  [r EXCEPT !.pc = x] \in CallType
  BY DEF CallType
LEMMA SetDrv ==
    ASSUME NEW r \in CallType, NEW x \in Drivers \cup {0}
    PROVE  [r EXCEPT !.drv = x] \in CallType
  BY DEF CallType
LEMMA SetBudget ==
    ASSUME NEW r \in CallType, NEW x \in Nat
    PROVE  [r EXCEPT !.budget = x] \in CallType
  BY DEF CallType
LEMMA SetKind ==
    ASSUME NEW r \in CallType, NEW x \in Kinds
    PROVE  [r EXCEPT !.kind = x] \in CallType
  BY DEF CallType
LEMMA SetDeadline ==
    ASSUME NEW r \in CallType, NEW x \in Nat
    PROVE  [r EXCEPT !.deadline = x] \in CallType
  BY DEF CallType
LEMMA SetHard ==
    ASSUME NEW r \in CallType, NEW x \in Nat
    PROVE  [r EXCEPT !.hard = x] \in CallType
  BY DEF CallType
LEMMA SetWake ==
    ASSUME NEW r \in CallType, NEW x \in Nat
    PROVE  [r EXCEPT !.wake = x] \in CallType
  BY DEF CallType
LEMMA SetThen ==
    ASSUME NEW r \in CallType, NEW x \in Positions
    PROVE  [r EXCEPT !.then = x] \in CallType
  BY DEF CallType
LEMMA SetPrev ==
    ASSUME NEW r \in CallType, NEW x \in Screens \cup {None}
    PROVE  [r EXCEPT !.prev = x] \in CallType
  BY DEF CallType
LEMMA SetPre ==
    ASSUME NEW r \in CallType, NEW x \in Screens \cup {None}
    PROVE  [r EXCEPT !.pre = x] \in CallType
  BY DEF CallType
LEMMA SetBusy ==
    ASSUME NEW r \in CallType, NEW x \in BOOLEAN
    PROVE  [r EXCEPT !.busy = x] \in CallType
  BY DEF CallType
LEMMA SetGone ==
    ASSUME NEW r \in CallType, NEW x \in BOOLEAN
    PROVE  [r EXCEPT !.gone = x] \in CallType
  BY DEF CallType
LEMMA SetDir ==
    ASSUME NEW r \in CallType, NEW x \in {"up", "down"}
    PROVE  [r EXCEPT !.dir = x] \in CallType
  BY DEF CallType
LEMMA SetLeft ==
    ASSUME NEW r \in CallType, NEW x \in 0 .. Max({SearchBudget, ThinBudget})
    PROVE  [r EXCEPT !.left = x] \in CallType
  BY DEF CallType
LEMMA SetIter ==
    ASSUME NEW r \in CallType, NEW x \in 0 .. MaxIterations
    PROVE  [r EXCEPT !.iter = x] \in CallType
  BY DEF CallType
LEMMA SetAt ==
    ASSUME NEW r \in CallType, NEW x \in Int \cup {None}
    PROVE  [r EXCEPT !.at = x] \in CallType
  BY DEF CallType
LEMMA SetBegan ==
    ASSUME NEW r \in CallType, NEW x \in 0 .. LastPage
    PROVE  [r EXCEPT !.began = x] \in CallType
  BY DEF CallType
LEMMA SetTarget ==
    ASSUME NEW r \in CallType, NEW x \in Int \cup {None}
    PROVE  [r EXCEPT !.target = x] \in CallType
  BY DEF CallType
LEMMA SetChanged ==
    ASSUME NEW r \in CallType, NEW x \in BOOLEAN
    PROVE  [r EXCEPT !.changed = x] \in CallType
  BY DEF CallType
LEMMA SetFocused ==
    ASSUME NEW r \in CallType, NEW x \in BOOLEAN
    PROVE  [r EXCEPT !.focused = x] \in CallType
  BY DEF CallType
LEMMA SetTyped ==
    ASSUME NEW r \in CallType, NEW x \in BOOLEAN
    PROVE  [r EXCEPT !.typed = x] \in CallType
  BY DEF CallType
LEMMA SetHeld ==
    ASSUME NEW r \in CallType, NEW x \in Nat
    PROVE  [r EXCEPT !.held = x] \in CallType
  BY DEF CallType
LEMMA SetBug ==
    ASSUME NEW r \in CallType, NEW x \in (Nat \X Nat) \cup {None}
    PROVE  [r EXCEPT !.bug = x] \in CallType
  BY DEF CallType
LEMMA SetResult ==
    ASSUME NEW r \in CallType, NEW x \in Results
    PROVE  [r EXCEPT !.result = x] \in CallType
  BY DEF CallType

-----------------------------------------------------------------------------
(* What the operators of Orchestra make of a call's record.                 *)

LEMMA Facts ==
    ASSUME TypeOK, LoadOK
    PROVE  /\ now \in Nat /\ load.until \in Nat /\ now <= load.until
           /\ screen \in Screens /\ front \in Apps \cup {None}
           /\ connected \subseteq Drivers
           /\ launched \in [Drivers -> SUBSET Apps] /\ keyboardHint \in [Drivers -> BOOLEAN]
           /\ call \in [Calls -> CallType]
           /\ \A c \in Calls : call[c] \in CallType
  BY LoadFacts DEF TypeOK, OrchestraTypeOK

LEMMA SmallFacts ==
    /\ 0 \in 0 .. MaxIterations /\ 0 \in 0 .. LastPage /\ 0 \in 0 .. Max({SearchBudget, ThinBudget})
    /\ 0 \in Nat /\ None \in Screens \cup {None} /\ None \in Int \cup {None}
    /\ None \in (Nat \X Nat) \cup {None}
  BY Bounds

LEMMA PositionFacts ==
    /\ DriverCalls \subseteq Positions
    /\ {"idle", "sleep", "done", "answered", "saveRun", "record", "saveBug", "updateRun", "deleteRun"}
         \subseteq Positions
    /\ {"drop", "build", "handshake", "info", "install", "evidence", "saveShot", "deleteBug", "deleteShot"}
         \subseteq Positions
  BY DEF Positions

LEMMA IdleTyped == IdleCall \in CallType
  BY Bounds DEF IdleCall, CallType, Positions, DriverCalls, Results, Kinds

LEMMA DoneTyped ==
    ASSUME NEW r \in CallType, NEW result \in Results
    PROVE  /\ Done(r, result) \in CallType
           /\ Done(r, result).pc = "done" /\ Done(r, result).result = result
           /\ Done(r, result).kind = "none" /\ Done(r, result).typed = r.typed
           /\ Done(r, result).focused = r.focused /\ Done(r, result).began = r.began
           /\ Done(r, result).bug = r.bug
<1>1. IdleCall \in CallType /\ IdleCall.kind = "none"
  BY IdleTyped DEF IdleCall
<1>2. "done" \in Positions
  BY DEF Positions
<1>3. /\ r.drv \in Drivers \cup {0} /\ r.budget \in Nat /\ r.began \in 0 .. LastPage
      /\ r.focused \in BOOLEAN /\ r.typed \in BOOLEAN /\ r.bug \in (Nat \X Nat) \cup {None}
  BY FieldTypes
<1>4. Done(r, result) \in CallType
  BY <1>1, <1>2, <1>3, SetPc, SetResult, SetDrv, SetBudget, SetBegan, SetFocused, SetTyped, SetBug, Zenon
  DEF Done
<1>5. /\ Done(r, result).pc = "done" /\ Done(r, result).result = result
      /\ Done(r, result).kind = "none" /\ Done(r, result).typed = r.typed
  BY <1>1 DEF Done, CallType
<1>6. /\ Done(r, result).focused = r.focused /\ Done(r, result).began = r.began
      /\ Done(r, result).bug = r.bug
  BY <1>1 DEF Done, CallType
<1> QED BY <1>4, <1>5, <1>6

LEMMA DoneSound ==
    ASSUME NEW c \in Calls, NEW r \in CallType, NEW result \in Results, TypesSafely(c, r)
    PROVE  /\ Done(r, result) \in CallType /\ Sound(c, Done(r, result))
           /\ Done(r, result).pc = "done" /\ Done(r, result).result = result
  BY DoneTyped DEF Sound, Suits, TypesSafely, Timed, Heading, Seeking, OnBug

LEMMA WaitingSound ==
    ASSUME TypeOK, LoadOK, NEW c \in Calls, NEW r \in CallType, NEW ms \in Nat,
           TypesSafely(c, r), r.result = "none",
           NEW kind \in {"find", "focus", "ready", "keyboardGone"},
           kind = "ready" => op(c).tool # "type",
           kind = "keyboardGone" => op(c).tool \in {"tap", "type", "transition"}
    PROVE  /\ Waiting(r, kind, ms) \in CallType /\ Sound(c, Waiting(r, kind, ms))
           /\ Waiting(r, kind, ms).pc = "poll" /\ Waiting(r, kind, ms).result = "none"
           /\ Waiting(r, kind, ms).kind = kind /\ now <= Waiting(r, kind, ms).deadline
<1>1. now \in Nat /\ now + ms \in Nat /\ "poll" \in Positions /\ kind \in Kinds
  BY Facts DEF Positions, DriverCalls, Kinds
<1>2. Waiting(r, kind, ms) \in CallType
  BY <1>1, SetPc, SetKind, SetDeadline, Zenon DEF Waiting
<1>3. /\ Waiting(r, kind, ms).pc = "poll" /\ Waiting(r, kind, ms).kind = kind
      /\ Waiting(r, kind, ms).deadline = now + ms /\ Waiting(r, kind, ms).result = "none"
      /\ Waiting(r, kind, ms).focused = r.focused /\ Waiting(r, kind, ms).typed = r.typed
  BY DEF Waiting, CallType
<1>4. Sound(c, Waiting(r, kind, ms))
  BY <1>3 DEF Sound, Suits, TypesSafely, Timed, Heading, Seeking, OnBug
<1> QED BY <1>1, <1>2, <1>3, <1>4

LEMMA WindowSound ==
    ASSUME TypeOK, LoadOK, NEW c \in Calls, NEW r \in CallType,
           TypesSafely(c, r), r.result = "none", now <= r.hard
    PROVE  /\ Window(r) \in CallType /\ Sound(c, Window(r))
           /\ Window(r).pc = "poll" /\ Window(r).result = "none"
           /\ Window(r).kind = "transition" /\ now <= Window(r).deadline
           /\ Window(r).deadline <= Window(r).hard
<1> DEFINE ms == Min({SoftTimeout, r.hard - now})
<1>1. now \in Nat /\ r.hard \in Nat /\ SoftTimeout \in Nat /\ "poll" \in Positions
      /\ "transition" \in Kinds
  BY Facts, Bounds, FieldTypes DEF Positions, DriverCalls, Kinds
<1>2. ms \in Nat /\ now + ms \in Nat /\ now + ms <= r.hard
  BY <1>1, MinOfTwo
<1>3. Window(r) = Waiting(r, "transition", ms)
  BY DEF Window
<1> HIDE DEF ms
<1>4. Window(r) \in CallType
  <2>1. Waiting(r, "transition", ms) \in CallType
    BY <1>1, <1>2, SetPc, SetKind, SetDeadline, Zenon DEF Waiting
  <2> QED BY <1>3, <2>1
<1>5. /\ Window(r).pc = "poll" /\ Window(r).kind = "transition"
      /\ Window(r).deadline = now + ms /\ Window(r).result = "none" /\ Window(r).hard = r.hard
      /\ Window(r).focused = r.focused /\ Window(r).typed = r.typed
  BY <1>3 DEF Waiting, CallType
<1>6. Sound(c, Window(r))
  BY <1>2, <1>5 DEF Sound, Suits, TypesSafely, Timed, Heading, Seeking, OnBug
<1> QED BY <1>1, <1>2, <1>4, <1>5, <1>6

LEMMA WaitedSound ==
    ASSUME NEW c \in Calls, NEW r \in CallType, NEW pc \in {"erase", "input", "find", "classify"},
           TypesSafely(c, r), r.result = "none",
           pc \in {"erase", "input"} /\ op(c).tool = "type" => r.focused,
           pc = "find" => op(c).tool \in {"tap", "type", "transition"}
    PROVE  /\ Waited(r, pc) \in CallType /\ Sound(c, Waited(r, pc))
           /\ Waited(r, pc).pc = pc /\ Waited(r, pc).result = "none" /\ Waited(r, pc).kind = "none"
<1>1. pc \in Positions /\ "none" \in Kinds /\ 0 \in Nat /\ "idle" \in Positions
  BY DEF Positions, DriverCalls, Kinds
<1>2. Waited(r, pc) \in CallType
  BY <1>1, SetPc, SetKind, SetDeadline, SetWake, SetThen, Zenon DEF Waited
<1>3. /\ Waited(r, pc).pc = pc /\ Waited(r, pc).kind = "none"
      /\ Waited(r, pc).result = "none" /\ Waited(r, pc).focused = r.focused
      /\ Waited(r, pc).typed = r.typed
  BY DEF Waited, CallType
<1>4. Sound(c, Waited(r, pc))
  BY <1>3 DEF Sound, Suits, TypesSafely, Timed, Heading, Seeking, OnBug
<1> QED BY <1>2, <1>3, <1>4

\* A wait that is satisfied never ends as a time-out.
LEMMA SatisfiedSound ==
    ASSUME NEW c \in Calls, NEW r \in CallType, Sound(c, r), r.pc \in {"poll", "pollAppear"},
           r.kind = "focus" => r.focused
    PROVE  /\ Satisfied(r) \in CallType /\ Sound(c, Satisfied(r))
           /\ Satisfied(r).pc \in {"erase", "input", "find", "done"}
           /\ Satisfied(r).result \in {"none", "ok"}
           /\ Satisfied(r).kind = "none"
<1>1. /\ TypesSafely(c, r) /\ r.result = "none"
      /\ r.kind = "keyboardGone" => op(c).tool \in {"tap", "type", "transition"}
      /\ r.kind = "ready" => op(c).tool # "type"
  BY DEF Sound, Suits, Timed, TypesSafely
<1>2. CASE r.kind = "focus"
  BY <1>1, <1>2, WaitedSound DEF Satisfied
<1>3. CASE r.kind = "ready"
  BY <1>1, <1>3, WaitedSound DEF Satisfied
<1>4. CASE r.kind = "keyboardGone"
  BY <1>1, <1>4, WaitedSound DEF Satisfied
<1>5. CASE r.kind \notin {"focus", "ready", "keyboardGone"}
  <2>1. Satisfied(r) = Done(r, "ok") /\ "ok" \in Results
    BY <1>5 DEF Satisfied, Results
  <2> QED BY <1>1, <2>1, DoneSound, DoneTyped
<1> QED BY <1>2, <1>3, <1>4, <1>5

LEMMA TimedOutSound ==
    ASSUME TypeOK, LoadOK, NEW c \in Calls, NEW r \in CallType, Sound(c, r),
           r.pc \in {"poll", "pollAppear"}, now >= r.deadline
    PROVE  /\ TimedOut(r) \in CallType /\ Sound(c, TimedOut(r))
           /\ TimedOut(r).pc \in {"poll", "find", "classify", "done"}
           /\ TimedOut(r).result \in {"none", "timeout"}
           /\ TimedOut(r).pc = "poll" => now <= TimedOut(r).deadline
<1>1. /\ TypesSafely(c, r) /\ r.result = "none" /\ now \in Nat /\ r.hard \in Nat
      /\ r.kind = "keyboardGone" => op(c).tool \in {"tap", "type", "transition"}
  BY Facts, FieldTypes DEF Sound, Suits, Timed, TypesSafely
<1>2. CASE r.kind = "keyboardGone"
  BY <1>1, <1>2, WaitedSound DEF TimedOut
<1>3. CASE r.kind = "transition" /\ (now >= r.hard \/ ~r.busy)
  BY <1>1, <1>3, WaitedSound DEF TimedOut
<1>4. CASE r.kind = "transition" /\ ~(now >= r.hard \/ ~r.busy)
  <2>1. TimedOut(r) = Window(r) /\ now <= r.hard
    BY <1>1, <1>4 DEF TimedOut
  <2> QED BY <1>1, <2>1, WindowSound
<1>5. CASE r.kind \notin {"keyboardGone", "transition"}
  <2>1. TimedOut(r) = Done(r, "timeout") /\ "timeout" \in Results
    BY <1>5 DEF TimedOut, Results
  <2> QED BY <1>1, <2>1, DoneSound
<1> QED BY <1>2, <1>3, <1>4, <1>5

LEMMA AfterFetchSound ==
    ASSUME TypeOK, LoadOK, NEW c \in Calls, NEW r \in CallType, Sound(c, r),
           r.pc \in {"poll", "pollAppear"}, NEW holds \in BOOLEAN, holds /\ r.kind = "focus" => r.focused
    PROVE  LET e == AfterFetch(c, r, holds)
           IN  /\ e \in CallType /\ Sound(c, e)
               /\ e.pc \in {"sleep", "poll", "erase", "input", "find", "classify", "done"}
               /\ e.result \in {"none", "ok", "timeout"}
               /\ e.pc = "sleep" => e.then = "poll"
               /\ e.pc = "poll" => now <= e.deadline
               /\ e.pc = "classify" \/ e.result = "timeout" => now >= r.deadline
<1> DEFINE e == AfterFetch(c, r, holds)
<1>1. CASE holds
  <2>1. e = Satisfied(r)
    BY <1>1 DEF AfterFetch
  <2> QED BY <1>1, <2>1, SatisfiedSound
<1>2. CASE ~holds /\ now >= r.deadline
  <2>1. e = TimedOut(r)
    BY <1>2 DEF AfterFetch
  <2> QED BY <1>2, <2>1, TimedOutSound
<1>3. CASE ~holds /\ ~(now >= r.deadline)
  <2> DEFINE ms == Min({Interval, r.deadline - now})
  <2>1. now \in Nat /\ r.deadline \in Nat /\ Interval \in Nat /\ "poll" \in Positions /\ "sleep" \in Positions
    BY Facts, Bounds, FieldTypes DEF Positions, DriverCalls
  <2>2. now + ms \in Nat /\ now + ms <= r.deadline
    BY <1>3, <2>1, MinOfTwo
  <2>3. e = [r EXCEPT !.pc = "sleep", !.wake = now + ms, !.then = "poll"]
    BY <1>3 DEF AfterFetch
  <2> HIDE DEF ms, e
  <2>4. [r EXCEPT !.pc = "sleep", !.wake = now + ms, !.then = "poll"] \in CallType
    BY <2>1, <2>2, SetPc, SetWake, SetThen, Zenon
  <2>5. /\ e.pc = "sleep" /\ e.then = "poll" /\ e.wake = now + ms /\ e.deadline = r.deadline
        /\ e.kind = r.kind /\ e.hard = r.hard /\ e.result = r.result /\ e.focused = r.focused
        /\ e.typed = r.typed
    BY <2>3 DEF CallType
  <2>6. Sound(c, e) /\ e.result = "none"
    BY <2>2, <2>5 DEF Sound, Suits, TypesSafely, Timed, Heading, Seeking, OnBug
  <2>7. e \in CallType
    BY <2>3, <2>4
  <2> QED BY <2>5, <2>6, <2>7 DEF e
<1> QED BY <1>1, <1>2, <1>3

-----------------------------------------------------------------------------
(* Scroll searches and positioning.                                         *)

\* A call on its way to its target.
Seeks(c, r) ==
  /\ TypesSafely(c, r) /\ r.result = "none" /\ op(c).tool \in {"tap", "type", "transition"}
  /\ r.kind = "transition" => r.deadline <= r.hard

LEMMA LocatedSound ==
    ASSUME NEW c \in Calls, NEW r \in CallType, NEW pc \in {"tap", "hide"}, Seeks(c, r)
    PROVE  /\ Located(r, pc) \in CallType /\ Sound(c, Located(r, pc))
           /\ Located(r, pc).pc = pc /\ Located(r, pc).result = "none"
<1>1. pc \in Positions /\ "idle" \in Positions
  BY DEF Positions, DriverCalls
<1>2. Located(r, pc) \in CallType
  BY <1>1, SmallFacts, SetPc, SetPrev, SetLeft, SetIter, SetAt, SetBegan, SetWake, SetThen, Zenon
  DEF Located
<1>3. /\ Located(r, pc).pc = pc /\ Located(r, pc).kind = r.kind /\ Located(r, pc).deadline = r.deadline
      /\ Located(r, pc).hard = r.hard
      /\ Located(r, pc).result = "none" /\ Located(r, pc).focused = r.focused
      /\ Located(r, pc).typed = r.typed
  BY DEF Located, CallType, Seeks
<1>4. Sound(c, Located(r, pc))
  BY <1>3 DEF Seeks, Sound, Suits, TypesSafely, Timed, Heading, Seeking, OnBug
<1> QED BY <1>2, <1>3, <1>4

LEMMA PreparedSound ==
    ASSUME NEW c \in Calls, NEW r \in CallType, NEW s, Seeks(c, r)
    PROVE  LET e == Prepared(c, r, s)
           IN  /\ e \in CallType /\ Sound(c, e) /\ e.pc \in {"tap", "hide", "done"}
               /\ e.result \in {"none", "obscured"}
<1>1. TypesSafely(c, r) /\ "obscured" \in Results
  BY DEF Seeks, Results
<1> QED BY <1>1, LocatedSound, DoneSound DEF Prepared

\* A call that has found its target takes hold of it, moves towards it or gives up.
LEMMA PositionSound ==
    ASSUME NEW c \in Calls, NEW r \in CallType, NEW s \in Screens, Seeks(c, r),
           op(c).elem \in Tree(s)
    PROVE  LET e == Position(c, r, s)
           IN  /\ e \in CallType /\ Sound(c, e) /\ e.pc \in {"tap", "hide", "done", "toward"}
               /\ e.result \in {"none", "obscured", "unreachable"}
<1> DEFINE e == Position(c, r, s)
           offset == Page[op(c).elem] - s.pos
           moves == [r EXCEPT !.pc = "toward", !.at = offset]
<1>2. "unreachable" \in Results /\ "toward" \in Positions
  BY DEF Results, Positions, DriverCalls
<1>3. offset \in Int \cup {None}
  <2>1. op(c).elem \in Elem
    BY DEF Tree, Screens
  <2> QED BY <2>1, Bounds DEF Screens
<1>4. moves \in CallType
  BY <1>2, <1>3, SetPc, SetAt, Zenon
<1>5. ASSUME r.iter # MaxIterations
      PROVE  moves.pc = "toward" /\ moves.result = "none" /\ Sound(c, moves)
  <2>1. /\ moves.pc = "toward" /\ moves.kind = r.kind /\ moves.deadline = r.deadline
        /\ moves.hard = r.hard /\ moves.result = "none" /\ moves.focused = r.focused
        /\ moves.typed = r.typed /\ moves.iter = r.iter
    BY DEF CallType, Seeks
  <2>2. moves.iter < MaxIterations
    BY <1>5, <2>1, FieldTypes, Bounds
  <2> HIDE DEF moves
  <2> QED BY <2>1, <2>2 DEF Seeks, Sound, Suits, TypesSafely, Timed, Heading, Seeking, OnBug
<1>6. \/ e \in {Done(r, "unreachable"), Prepared(c, r, s)}
      \/ e = moves /\ r.iter # MaxIterations
  BY DEF Position
<1>7. TypesSafely(c, r)
  BY DEF Seeks
<1> HIDE DEF moves, e, offset
<1> QED BY <1>2, <1>4, <1>5, <1>6, <1>7, PreparedSound, DoneSound DEF e

-----------------------------------------------------------------------------
(* A step of one call on the device.                                        *)

\* What WaitsExact asks of a call that goes from r to e, beyond what Timed says.
Exact(r, e) ==
  /\ e.pc = "poll" /\ r.pc # "poll" => now <= e.deadline
  /\ GivesUp(r, e) => now >= r.deadline

\* Call c moves on to e, as a call within the layer may.
Moves(c, e) ==
  /\ call' = [call EXCEPT ![c] = e]
  /\ e \in CallType /\ Sound(c, e) /\ Exact(call[c], e)
  /\ e.pc \notin SessionPcs \cup {"idle"}

\* A record that is neither in a search nor the answer of one.
Aside(e) == /\ Heading(e) \notin {"probe", "swipe", "search"}
            /\ ~(e.pc = "done" /\ e.result = "notfound")

MovesAside(c) == \E e : Moves(c, e) /\ Aside(e)

\* What a step may do to what the calls share.
Shared(c) ==
  /\ UNCHANGED <<load, now, changes, connected>>
  /\ screen' \in Screens /\ screen'.here = screen.here
  /\ screen'.pos # screen.pos => op(c).tool \in {"tap", "type", "transition", "swipe"}
  /\ front' \in Apps \cup {None}
  /\ launched' \in [Drivers -> SUBSET Apps] /\ keyboardHint' \in [Drivers -> BOOLEAN]

Context == TypeOK /\ LoadOK /\ Locals

\* The call before its step.
LEMMA Before ==
    ASSUME Context, NEW c \in Calls
    PROVE  /\ call \in [Calls -> CallType] /\ call[c] \in CallType /\ Sound(c, call[c])
           /\ TypesSafely(c, call[c])
           /\ call[c].pc \notin {"done", "answered"} => call[c].result = "none"
           /\ call[c].kind = "transition" => call[c].deadline <= call[c].hard
  BY Facts DEF Context, Locals, Sound, Timed

LEMMA UntouchedShared ==
    ASSUME Context, NEW c \in Calls, UNCHANGED <<load, now, changes, connected, screen, front>>,
           launched' \in [Drivers -> SUBSET Apps], keyboardHint' \in [Drivers -> BOOLEAN]
    PROVE  Shared(c)
  BY Facts DEF Context, Shared

SameWait(r, e) ==
  /\ e.kind = r.kind /\ e.deadline = r.deadline /\ e.hard = r.hard /\ e.result = r.result
  /\ e.focused = r.focused /\ e.typed = r.typed

\* A call that goes from one driver call of its tool to another.
LEMMA StaysSound ==
    ASSUME NEW c \in Calls, NEW r, NEW e, Sound(c, r), SameWait(r, e), r.pc \in DriverCalls,
           e.pc \in DriverCalls \ {"erase", "input", "list", "launch", "screenshot", "toward", "refind"},
           e.pc \in Seeking => r.pc \in Seeking,
           e.pc \in {"pollAbsent", "pollAppear"} => r.kind = "transition"
    PROVE  Sound(c, e)
  BY DEF Sound, SameWait, Suits, TypesSafely, Timed, Heading, Seeking, OnBug, DriverCalls

LEMMA FinishMoves ==
    ASSUME Context, NEW c \in Calls, NEW result \in Results \ {"timeout", "notfound"}, Finish(c, result)
    PROVE  MovesAside(c)
<1> DEFINE e == Done(call[c], result)
<1>1. e \in CallType /\ Sound(c, e) /\ e.pc = "done" /\ e.result = result
  BY Before, DoneSound
<1>2. call' = [call EXCEPT ![c] = e]
  BY DEF Finish
<1> HIDE DEF e
<1>3. Moves(c, e) /\ Aside(e)
  BY <1>1, <1>2 DEF Moves, Exact, Aside, Heading, GivesUp, SessionPcs
<1> QED BY <1>3 DEF MovesAside

LEMMA DriverFailsMoves ==
    ASSUME Context, NEW c \in Calls, DriverFails(c)
    PROVE  MovesAside(c) /\ Shared(c)
<1>1. launched' \in [Drivers -> SUBSET Apps]
  BY Facts DEF Context, DriverFails
<1>2. Shared(c)
  BY <1>1, UntouchedShared, Facts DEF DriverFails, device, Context
<1>3. CASE call[c].pc # "screenshot"
  <2>1. Finish(c, "error") /\ "error" \in Results
    BY <1>3 DEF DriverFails, Failed, Finish, Results
  <2> QED BY <1>2, <2>1, FinishMoves
<1>4. CASE call[c].pc = "screenshot"
  <2> DEFINE e == [call[c] EXCEPT !.pc = "saveBug"]
  <2>1. call' = [call EXCEPT ![c] = e]
    BY <1>4 DEF DriverFails, Failed
  <2>2. e \in CallType
    BY Before, PositionFacts, SetPc
  <2>3. e.pc = "saveBug" /\ SameWait(call[c], e) /\ e.bug = call[c].bug
    BY Before DEF CallType, SameWait
  <2> HIDE DEF e
  <2>4. Sound(c, e)
    BY <1>4, <2>3, Before DEF Sound, SameWait, Suits, TypesSafely, Timed, Heading, Seeking, OnBug
  <2>5. Moves(c, e) /\ Aside(e)
    BY <1>4, <2>1, <2>2, <2>3, <2>4 DEF Moves, Exact, Aside, Heading, GivesUp, SessionPcs
  <2> QED BY <1>2, <2>5 DEF MovesAside
<1> QED BY <1>3, <1>4

LEMMA SleepEndsMoves ==
    ASSUME Context, NEW c \in Calls, SleepEnds(c)
    PROVE  MovesAside(c) /\ Shared(c)
<1>1. "error" \in Results
  BY DEF Results
<1>2. MovesAside(c)
  BY <1>1, FinishMoves DEF SleepEnds
<1> QED BY <1>2, UntouchedShared, Facts DEF SleepEnds, device, shared, Context

-----------------------------------------------------------------------------
(* Waits and transitions.                                                   *)

\* A call moves between driver calls of one tool: its own record is all there is to it.
LEMMA StaysMoves ==
    ASSUME Context, NEW c \in Calls, NEW e \in CallType, call' = [call EXCEPT ![c] = e],
           SameWait(call[c], e), call[c].pc \in DriverCalls,
           e.pc \in DriverCalls \ {"erase", "input", "list", "launch", "screenshot", "poll", "toward", "refind"},
           e.pc \in Seeking => call[c].pc \in Seeking,
           e.pc \in {"pollAbsent", "pollAppear"} => call[c].kind = "transition",
           e.pc = "classify" => call[c].pc \notin {"poll", "pollAppear"}
    PROVE  Moves(c, e) /\ e.result = "none"
<1>1. Sound(c, e)
  BY Before, StaysSound
<1>2. call[c].result = "none"
  BY Before DEF DriverCalls
<1> QED BY <1>1, <1>2 DEF Moves, Exact, GivesUp, SessionPcs, DriverCalls, SameWait

LEMMA PollMoves ==
    ASSUME Context, NEW c \in Calls, Poll(c)
    PROVE  MovesAside(c) /\ Shared(c)
<1> DEFINE ok == Holds(c, call[c].kind, screen)
           r == [call[c] EXCEPT !.focused = @ \/ (call[c].kind = "focus" /\ ok)]
           e == AfterFetch(c, r, ok)
<1>1. ok \in BOOLEAN
  BY DEF Holds
<1>2. r \in CallType
  <2>1. (call[c].focused \/ (call[c].kind = "focus" /\ ok)) \in BOOLEAN
    OBVIOUS
  <2> QED BY <2>1, Before, SetFocused
<1>3. /\ r.pc = "poll" /\ r.kind = call[c].kind /\ r.deadline = call[c].deadline /\ r.hard = call[c].hard
      /\ r.result = call[c].result /\ r.typed = call[c].typed
      /\ call[c].focused => r.focused
      /\ ok /\ r.kind = "focus" => r.focused
  <2> HIDE DEF ok
  <2>1. call[c] \in CallType /\ call[c].pc = "poll" /\ call[c].focused \in BOOLEAN
    BY Before, FieldTypes DEF Poll, Reads
  <2>2. /\ r.pc = "poll" /\ r.kind = call[c].kind /\ r.deadline = call[c].deadline
        /\ r.hard = call[c].hard /\ r.result = call[c].result /\ r.typed = call[c].typed
    BY <2>1 DEF CallType
  <2>3. r.focused = (call[c].focused \/ (call[c].kind = "focus" /\ ok))
    BY <2>1 DEF CallType
  <2> QED BY <2>2, <2>3
<1> HIDE DEF ok, r
<1>4. Sound(c, r)
  <2>1. call[c].pc = "poll"
    BY DEF Poll, Reads
  <2>2. Suits(c, r) /\ Timed(r)
    BY <1>3, <2>1, Before DEF Sound, Suits, Timed, Heading, Seeking, OnBug
  <2>3. TypesSafely(c, r)
    BY <1>3, Before DEF TypesSafely
  <2> QED BY <2>2, <2>3 DEF Sound
<1>5. /\ e \in CallType /\ Sound(c, e)
      /\ e.pc \in {"sleep", "poll", "erase", "input", "find", "classify", "done"}
      /\ e.result \in {"none", "ok", "timeout"}
      /\ e.pc = "sleep" => e.then = "poll"
      /\ e.pc = "poll" => now <= e.deadline
      /\ e.pc = "classify" \/ e.result = "timeout" => now >= r.deadline
  BY <1>1, <1>2, <1>3, <1>4, AfterFetchSound DEF Context
<1>6. call' = [call EXCEPT ![c] = e] /\ call[c].pc = "poll"
  BY DEF Poll, Reads, ok, r
<1> HIDE DEF e
<1>7. Moves(c, e) /\ Aside(e)
  BY <1>3, <1>5, <1>6 DEF Moves, Exact, Aside, Heading, GivesUp, SessionPcs
<1>8. Shared(c)
  BY UntouchedShared, Facts DEF Poll, Reads, device, Context
<1> QED BY <1>7, <1>8 DEF MovesAside

LEMMA PollTreeMoves ==
    ASSUME Context, NEW c \in Calls, PollTree(c)
    PROVE  MovesAside(c) /\ Shared(c)
<1> DEFINE busy == screen.busy \/ Moved(call[c].prev, screen)
           e == [call[c] EXCEPT !.pc = "pollAbsent", !.prev = screen, !.busy = busy]
<1>1. busy \in BOOLEAN /\ screen \in Screens \cup {None} /\ "pollAbsent" \in Positions
  BY Facts DEF Context, Positions, DriverCalls
<1>2. call' = [call EXCEPT ![c] = e] /\ call[c].pc = "poll" /\ call[c].kind = "transition"
  BY DEF PollTree, Reads
<1> HIDE DEF busy
<1>3. e \in CallType
  BY <1>1, Before, SetPc, SetPrev, SetBusy, Zenon
<1>4. e.pc = "pollAbsent" /\ SameWait(call[c], e)
  BY Before DEF CallType, SameWait
<1> HIDE DEF e
<1>5. Moves(c, e) /\ Aside(e)
  BY <1>2, <1>3, <1>4, StaysMoves DEF Aside, Heading, DriverCalls, Seeking
<1>6. Shared(c)
  BY UntouchedShared, Facts DEF PollTree, Reads, device, shared, Context
<1> QED BY <1>5, <1>6 DEF MovesAside

LEMMA PollAbsentMoves ==
    ASSUME Context, NEW c \in Calls, PollAbsent(c)
    PROVE  MovesAside(c) /\ Shared(c)
<1> DEFINE gone == op(c).absent \notin Tree(screen)
           e == [call[c] EXCEPT !.pc = "pollAppear", !.gone = gone]
<1>1. gone \in BOOLEAN /\ "pollAppear" \in Positions
  BY DEF Positions, DriverCalls
<1>2. call' = [call EXCEPT ![c] = e] /\ call[c].pc = "pollAbsent" /\ call[c].kind = "transition"
  BY Before DEF PollAbsent, Reads, Sound, Suits
<1> HIDE DEF gone
<1>3. e \in CallType
  BY <1>1, Before, SetPc, SetGone, Zenon
<1>4. e.pc = "pollAppear" /\ SameWait(call[c], e)
  BY Before DEF CallType, SameWait
<1> HIDE DEF e
<1>5. Moves(c, e) /\ Aside(e)
  BY <1>2, <1>3, <1>4, StaysMoves DEF Aside, Heading, DriverCalls, Seeking
<1>6. Shared(c)
  BY UntouchedShared, Facts DEF PollAbsent, Reads, device, shared, Context
<1> QED BY <1>5, <1>6 DEF MovesAside

LEMMA PollAppearMoves ==
    ASSUME Context, NEW c \in Calls, PollAppear(c)
    PROVE  MovesAside(c) /\ Shared(c)
<1> DEFINE came == op(c).appear = None \/ op(c).appear \in Tree(screen)
           holds == call[c].gone /\ came
           e == AfterFetch(c, call[c], holds)
<1>1. holds \in BOOLEAN
  OBVIOUS
<1>2. call' = [call EXCEPT ![c] = e] /\ call[c].pc = "pollAppear" /\ call[c].kind = "transition"
  BY Before DEF PollAppear, Reads, Sound, Suits
<1> HIDE DEF holds
<1>3. /\ e \in CallType /\ Sound(c, e)
      /\ e.pc \in {"sleep", "poll", "erase", "input", "find", "classify", "done"}
      /\ e.result \in {"none", "ok", "timeout"}
      /\ e.pc = "sleep" => e.then = "poll"
      /\ e.pc = "poll" => now <= e.deadline
      /\ e.pc = "classify" \/ e.result = "timeout" => now >= call[c].deadline
  BY <1>1, <1>2, Before, AfterFetchSound DEF Context
<1> HIDE DEF e
<1>4. Moves(c, e) /\ Aside(e)
  BY <1>2, <1>3 DEF Moves, Exact, Aside, Heading, GivesUp, SessionPcs
<1>5. Shared(c)
  BY UntouchedShared, Facts DEF PollAppear, Reads, device, shared, Context
<1> QED BY <1>4, <1>5 DEF MovesAside

LEMMA ClassifyMoves ==
    ASSUME Context, NEW c \in Calls, Classify(c)
    PROVE  MovesAside(c) /\ Shared(c)
<1> DEFINE e == [call[c] EXCEPT !.pc = "post", !.prev = screen]
<1>1. screen \in Screens \cup {None} /\ "post" \in Positions
  BY Facts DEF Context, Positions, DriverCalls
<1>2. call' = [call EXCEPT ![c] = e] /\ call[c].pc = "classify"
  BY Before DEF Classify, Reads
<1>3. e \in CallType
  BY <1>1, Before, SetPc, SetPrev, Zenon
<1>4. e.pc = "post" /\ SameWait(call[c], e)
  BY Before DEF CallType, SameWait
<1> HIDE DEF e
<1>5. Moves(c, e) /\ Aside(e)
  BY <1>2, <1>3, <1>4, StaysMoves DEF Aside, Heading, DriverCalls, Seeking
<1>6. Shared(c)
  BY UntouchedShared, Facts DEF Classify, Reads, device, shared, Context
<1> QED BY <1>5, <1>6 DEF MovesAside

LEMMA ReadPostMoves ==
    ASSUME Context, NEW c \in Calls, ReadPost(c)
    PROVE  MovesAside(c) /\ Shared(c)
<1> DEFINE moved == TargetChanged(call[c].target, TargetState(c))
           e == [call[c] EXCEPT !.pc = "lastAbsent", !.target = None, !.changed = moved]
<1>1. moved \in BOOLEAN /\ "lastAbsent" \in Positions
  BY DEF TargetChanged, Positions, DriverCalls
<1>2. call' = [call EXCEPT ![c] = e] /\ call[c].pc = "post"
  <2> HIDE DEF moved
  <2> QED BY Before DEF ReadPost, Reads, moved
<1> HIDE DEF moved
<1>3. e \in CallType
  BY <1>1, Before, SmallFacts, SetPc, SetTarget, SetChanged, Zenon
<1>4. e.pc = "lastAbsent" /\ SameWait(call[c], e)
  BY Before DEF CallType, SameWait
<1> HIDE DEF e
<1>5. Moves(c, e) /\ Aside(e)
  BY <1>2, <1>3, <1>4, StaysMoves DEF Aside, Heading, DriverCalls, Seeking
<1>6. Shared(c)
  BY UntouchedShared, Facts DEF ReadPost, Reads, device, shared, Context
<1> QED BY <1>5, <1>6 DEF MovesAside

LEMMA LastAbsentMoves ==
    ASSUME Context, NEW c \in Calls, LastAbsent(c)
    PROVE  MovesAside(c) /\ Shared(c)
<1> DEFINE gone == op(c).absent \notin Tree(screen)
           e == [call[c] EXCEPT !.pc = "lastAppear", !.gone = gone]
<1>1. gone \in BOOLEAN /\ "lastAppear" \in Positions
  BY DEF Positions, DriverCalls
<1>2. call' = [call EXCEPT ![c] = e] /\ call[c].pc = "lastAbsent"
  BY Before DEF LastAbsent, Reads
<1> HIDE DEF gone
<1>3. e \in CallType
  BY <1>1, Before, SetPc, SetGone, Zenon
<1>4. e.pc = "lastAppear" /\ SameWait(call[c], e)
  BY Before DEF CallType, SameWait
<1> HIDE DEF e
<1>5. Moves(c, e) /\ Aside(e)
  BY <1>2, <1>3, <1>4, StaysMoves DEF Aside, Heading, DriverCalls, Seeking
<1>6. Shared(c)
  BY UntouchedShared, Facts DEF LastAbsent, Reads, device, shared, Context
<1> QED BY <1>5, <1>6 DEF MovesAside

LEMMA VerdictMoves ==
    ASSUME Context, NEW c \in Calls, Verdict(c)
    PROVE  MovesAside(c) /\ Shared(c)
<1> DEFINE result == Classification(call[c].pre, call[c].prev, call[c].changed, call[c].gone,
                                    op(c).appear \in Tree(screen))
<1>1. result \in Results \ {"timeout", "notfound"}
  BY DEF Classification, Results
<1>2. Finish(c, result)
  BY DEF Verdict
<1> HIDE DEF result
<1>3. MovesAside(c)
  BY <1>1, <1>2, FinishMoves
<1> QED BY <1>3, UntouchedShared, Facts DEF Verdict, Reads, device, shared, Context

LEMMA BeforeTreeMoves ==
    ASSUME Context, NEW c \in Calls, BeforeTree(c)
    PROVE  MovesAside(c) /\ Shared(c)
<1> DEFINE e == [call[c] EXCEPT !.pc = "state", !.pre = screen]
<1>1. screen \in Screens \cup {None} /\ "state" \in Positions
  BY Facts DEF Context, Positions, DriverCalls
<1>2. call' = [call EXCEPT ![c] = e] /\ call[c].pc = "before"
  BY Before DEF BeforeTree, Reads
<1>3. e \in CallType
  BY <1>1, Before, SetPc, SetPre, Zenon
<1>4. e.pc = "state" /\ SameWait(call[c], e)
  BY Before DEF CallType, SameWait
<1> HIDE DEF e
<1>5. Moves(c, e) /\ Aside(e)
  BY <1>2, <1>3, <1>4, StaysMoves DEF Aside, Heading, DriverCalls, Seeking
<1>6. Shared(c)
  BY UntouchedShared, Facts DEF BeforeTree, Reads, device, shared, Context
<1> QED BY <1>5, <1>6 DEF MovesAside

LEMMA BeforeStateMoves ==
    ASSUME Context, NEW c \in Calls, BeforeState(c)
    PROVE  MovesAside(c) /\ Shared(c)
<1> DEFINE e == [call[c] EXCEPT !.pc = "find", !.target = TargetState(c)]
<1>1. TargetState(c) \in Int \cup {None} /\ "find" \in Positions
  <2>1. op(c).elem \in Tree(screen) => op(c).elem \in Elem
    BY Facts DEF Context, Tree, Screens
  <2> QED BY <2>1, Bounds, Facts DEF Context, Screens, TargetState, Positions, DriverCalls
<1>2. call' = [call EXCEPT ![c] = e] /\ call[c].pc = "state"
  BY Before DEF BeforeState, Reads
<1>3. e \in CallType
  BY <1>1, Before, SetPc, SetTarget, Zenon
<1>4. e.pc = "find" /\ SameWait(call[c], e)
  BY Before DEF CallType, SameWait
<1> HIDE DEF e
<1>5. Moves(c, e) /\ Aside(e)
  BY <1>2, <1>3, <1>4, StaysMoves DEF Aside, Heading, DriverCalls, Seeking
<1>6. Shared(c)
  BY UntouchedShared, Facts DEF BeforeState, Reads, device, shared, Context
<1> QED BY <1>5, <1>6 DEF MovesAside

-----------------------------------------------------------------------------
(* Positioning and the actions on the target.                               *)

LEMMA ScrollFacts ==
    ASSUME screen \in Screens, NEW p \in Int
    PROVE  /\ ScrollTo(p) \in Screens /\ ScrollTo(p).here = screen.here
           /\ ScrollTo(p).pos = IF p \in 0 .. LastPage THEN p ELSE screen.pos
           /\ ScrollTo(p).focus = screen.focus
  BY DEF ScrollTo, Screens

\* A call at one of the positions on the way to its target.
LEMMA OnTheWay ==
    ASSUME Context, NEW c \in Calls, call[c].pc \in Seeking
    PROVE  Seeks(c, call[c])
  BY Before DEF Seeks, Sound, Suits, Heading, Seeking

LEMMA SleepSound ==
    ASSUME Context, NEW c \in Calls, NEW then \in {"search", "refind"}, Seeks(c, call[c]),
           then = "refind" => call[c].iter < MaxIterations
    PROVE  LET e == Sleep(c, Interval, then)
           IN  /\ e \in CallType /\ Sound(c, e) /\ e.pc = "sleep" /\ e.then = then
               /\ e.result = "none"
               /\ e.prev = call[c].prev /\ e.left = call[c].left /\ e.dir = call[c].dir
               /\ e.began = call[c].began
<1> DEFINE e == Sleep(c, Interval, then)
<1>1. then \in Positions /\ "sleep" \in Positions /\ now + Interval \in Nat
  BY Facts, Bounds DEF Context, Positions, DriverCalls
<1>2. e \in CallType
  BY <1>1, Before, SetPc, SetWake, SetThen, Zenon DEF Sleep
<1>3. /\ e.pc = "sleep" /\ e.then = then /\ SameWait(call[c], e) /\ e.iter = call[c].iter
  BY Before DEF Sleep, CallType, SameWait
<1>4. /\ e.prev = call[c].prev /\ e.left = call[c].left /\ e.dir = call[c].dir
      /\ e.began = call[c].began
  BY Before DEF Sleep, CallType
<1> HIDE DEF e
<1>5. Sound(c, e)
  BY <1>3 DEF SameWait, Seeks, Sound, Suits, TypesSafely, Timed, Heading, Seeking, OnBug
<1> QED BY <1>2, <1>3, <1>4, <1>5 DEF e, SameWait, Seeks

LEMMA TowardMoves ==
    ASSUME Context, NEW c \in Calls, Toward(c)
    PROVE  MovesAside(c) /\ Shared(c)
<1> DEFINE e == Sleep(c, Interval, "refind")
<1>1. call[c].pc = "toward" /\ call' = [call EXCEPT ![c] = e]
  BY DEF Toward, Acts
<1>2. Seeks(c, call[c]) /\ call[c].iter < MaxIterations
  BY <1>1, OnTheWay, Before DEF Seeking, Sound, Suits, Heading
<1>3. e \in CallType /\ Sound(c, e) /\ e.pc = "sleep" /\ e.then = "refind" /\ e.result = "none"
  BY <1>2, SleepSound
<1> HIDE DEF e
<1>4. Moves(c, e) /\ Aside(e)
  BY <1>1, <1>3 DEF Moves, Exact, Aside, Heading, GivesUp, SessionPcs
<1>5. Shared(c)
  <2>1. screen.pos \in Int
    BY Facts DEF Context, Screens
  <2>2. screen' \in Screens /\ screen'.here = screen.here
    BY <2>1, ScrollFacts, Facts DEF Toward, Context
  <2> QED BY <1>2, <2>2, Facts DEF Toward, Acts, Shared, shared, Seeks, Context
<1> QED BY <1>4, <1>5 DEF MovesAside

LEMMA RefindMoves ==
    ASSUME Context, NEW c \in Calls, Refind(c)
    PROVE  MovesAside(c) /\ Shared(c)
<1> DEFINE r == [call[c] EXCEPT !.iter = @ + 1]
           e == IF op(c).elem \in Tree(screen) THEN Position(c, r, screen) ELSE Done(r, "unreachable")
<1>1. call[c].pc = "refind" /\ call' = [call EXCEPT ![c] = e]
  BY DEF Refind, Reads
<1>2. Seeks(c, call[c]) /\ call[c].iter < MaxIterations
  BY <1>1, OnTheWay, Before DEF Seeking, Sound, Suits, Heading
<1>3. r \in CallType
  <2>1. call[c].iter + 1 \in 0 .. MaxIterations
    BY <1>2, Before, FieldTypes, Bounds
  <2> QED BY <2>1, Before, SetIter
<1>4. Seeks(c, r)
  <2>1. SameWait(call[c], r) /\ r.pc = call[c].pc
    BY Before DEF CallType, SameWait
  <2> HIDE DEF r
  <2> QED BY <1>1, <1>2, <2>1 DEF Seeks, SameWait, TypesSafely
<1> HIDE DEF r
<1>5. /\ e \in CallType /\ Sound(c, e) /\ e.pc \in {"tap", "hide", "done", "toward"}
      /\ e.result \in {"none", "obscured", "unreachable"}
  <2>1. screen \in Screens /\ "unreachable" \in Results /\ TypesSafely(c, r)
    BY <1>4, Facts DEF Context, Results, Seeks
  <2>2. CASE op(c).elem \in Tree(screen)
    BY <1>3, <1>4, <2>1, <2>2, PositionSound
  <2>3. CASE op(c).elem \notin Tree(screen)
    BY <1>3, <2>1, <2>3, DoneSound
  <2> QED BY <2>2, <2>3
<1> HIDE DEF e
<1>6. Moves(c, e) /\ Aside(e)
  BY <1>1, <1>5 DEF Moves, Exact, Aside, Heading, GivesUp, SessionPcs
<1>7. Shared(c)
  BY UntouchedShared, Facts DEF Refind, Reads, device, shared, Context
<1> QED BY <1>6, <1>7 DEF MovesAside

LEMMA HideKeyboardMoves ==
    ASSUME Context, NEW c \in Calls, HideKeyboard(c)
    PROVE  MovesAside(c) /\ Shared(c)
<1> DEFINE e == Waiting(call[c], "keyboardGone", FocusTimeout)
<1>1. call[c].pc = "hide" /\ call' = [call EXCEPT ![c] = e]
  BY DEF HideKeyboard, Acts
<1>2. Seeks(c, call[c])
  BY <1>1, OnTheWay DEF Seeking
<1>3. /\ e \in CallType /\ Sound(c, e) /\ e.pc = "poll" /\ e.result = "none" /\ now <= e.deadline
  BY <1>2, Before, Bounds, WaitingSound DEF Context, Seeks
<1> HIDE DEF e
<1>4. Moves(c, e) /\ Aside(e)
  BY <1>1, <1>3 DEF Moves, Exact, Aside, Heading, GivesUp, SessionPcs
<1>5. Shared(c)
  <2>1. \A up \in BOOLEAN : LET s == [screen EXCEPT !.keyboard = up]
                           IN  s \in Screens /\ s.here = screen.here /\ s.pos = screen.pos
    BY Facts DEF Context, Screens
  <2>2. screen.keyboard \in BOOLEAN
    BY Facts DEF Context, Screens
  <2> QED BY <2>1, <2>2, Facts DEF HideKeyboard, Acts, Shared, shared, Context
<1> QED BY <1>4, <1>5 DEF MovesAside

\* What the tools do once their tap is made.
LEMMA AfterTapSound ==
    ASSUME Context, NEW c \in Calls, call[c].pc = "tap"
    PROVE  LET e == AfterTap(c, call[c])
           IN  /\ e \in CallType /\ Sound(c, e) /\ e.pc \in {"poll", "erase", "done"}
               /\ e.result \in {"none", "ok"}
               /\ e.pc = "poll" => now <= e.deadline
<1> DEFINE e == AfterTap(c, call[c])
<1>1. TypesSafely(c, call[c]) /\ call[c].result = "none" /\ call[c] \in CallType
  BY Before
<1>2. CASE op(c).tool = "type"
  <2>1. e = Waiting(call[c], "focus", FocusTimeout)
    BY <1>2 DEF AfterTap
  <2> QED BY <1>1, <2>1, Bounds, WaitingSound DEF Context
<1>3. CASE op(c).tool = "transition"
  <2> DEFINE r == [call[c] EXCEPT !.hard = now + HardTimeout, !.prev = call[c].pre]
  <2>1. e = Window(r)
    BY <1>3 DEF AfterTap
  <2>2. now + HardTimeout \in Nat /\ now \in Nat /\ HardTimeout \in Nat
        /\ call[c].pre \in Screens \cup {None}
    BY <1>1, Facts, Bounds, FieldTypes DEF Context
  <2>3. r \in CallType
    BY <1>1, <2>2, SetHard, SetPrev, Zenon
  <2>4. r.hard = now + HardTimeout /\ r.result = "none"
    BY <1>1, <2>2 DEF CallType
  <2>5. TypesSafely(c, r) /\ now <= r.hard
    BY <1>3, <2>2, <2>4 DEF TypesSafely
  <2> HIDE DEF r
  <2> QED BY <2>1, <2>3, <2>4, <2>5, WindowSound DEF Context
<1>4. CASE op(c).tool = "typeAt"
  <2>1. e = [call[c] EXCEPT !.pc = "erase"]
    BY <1>4 DEF AfterTap
  <2>2. e \in CallType
    BY <1>1, <2>1, PositionFacts, SetPc DEF DriverCalls
  <2>3. e.pc = "erase" /\ SameWait(call[c], e)
    BY <1>1, <2>1 DEF CallType, SameWait
  <2> HIDE DEF e
  <2>4. Sound(c, e)
    BY <1>1, <1>4, <2>3, Before DEF SameWait, Sound, Suits, TypesSafely, Timed, Heading, Seeking, OnBug
  <2> QED BY <1>1, <2>2, <2>3, <2>4 DEF SameWait, e
<1>5. CASE op(c).tool \notin {"type", "transition", "typeAt"}
  <2>1. e = Done(call[c], "ok") /\ "ok" \in Results
    BY <1>5 DEF AfterTap, Results
  <2> QED BY <1>1, <2>1, DoneSound
<1> QED BY <1>2, <1>3, <1>4, <1>5

LEMMA TapMoves ==
    ASSUME Context, NEW c \in Calls, Tap(c)
    PROVE  MovesAside(c) /\ Shared(c)
<1>1. PICK answered \in BOOLEAN : call' = [call EXCEPT ![c] = Outcome(AfterTap(c, @), answered)]
  BY DEF Tap
<1>2. call[c].pc = "tap"
  BY DEF Tap, Acts
<1> DEFINE e == Outcome(AfterTap(c, call[c]), answered)
<1>3. /\ e \in CallType /\ Sound(c, e) /\ e.pc \in {"poll", "erase", "done"}
      /\ e.result \in {"none", "ok", "error"}
      /\ e.pc = "poll" => now <= e.deadline
  <2>1. CASE answered
    <3>1. e = AfterTap(c, call[c])
      BY <2>1 DEF Outcome
    <3> QED BY <1>2, <3>1, AfterTapSound
  <2>2. CASE ~answered
    <3>1. e = Done(AfterTap(c, call[c]), "error") /\ "error" \in Results
      BY <2>2 DEF Outcome, Results
    <3>2. AfterTap(c, call[c]) \in CallType /\ TypesSafely(c, AfterTap(c, call[c]))
      BY <1>2, AfterTapSound DEF Sound
    <3> QED BY <3>1, <3>2, DoneSound
  <2> QED BY <2>1, <2>2
<1>4. call' = [call EXCEPT ![c] = e]
  BY <1>1
<1> HIDE DEF e
<1>5. Moves(c, e) /\ Aside(e)
  BY <1>2, <1>3, <1>4 DEF Moves, Exact, Aside, Heading, GivesUp, SessionPcs
<1>6. Shared(c)
  <2>1. \A f \in Elem \cup {None} : LET s == [screen EXCEPT !.focus = f]
                                  IN  s \in Screens /\ s.here = screen.here /\ s.pos = screen.pos
    BY Facts DEF Context, Screens
  <2>2. screen.focus \in Elem \cup {None} /\ (op(c).elem \in screen.here => op(c).elem \in Elem)
    BY Facts DEF Context, Screens
  <2>3. screen' \in Screens /\ screen'.here = screen.here /\ screen'.pos = screen.pos
    BY <2>1, <2>2 DEF Tap
  <2> QED BY <2>3, Facts DEF Tap, Acts, Shared, shared, Context
<1> QED BY <1>5, <1>6 DEF MovesAside

LEMMA EraseMoves ==
    ASSUME Context, NEW c \in Calls, Erase(c)
    PROVE  MovesAside(c) /\ Shared(c)
<1> DEFINE types == [call[c] EXCEPT !.pc = "input"]
           waits == Waiting(call[c], "ready", FocusTimeout)
           e == IF op(c).tool = "type" THEN types ELSE waits
<1>1. call[c].pc = "erase" /\ call' = [call EXCEPT ![c] = e]
  BY DEF Erase
<1>2. TypesSafely(c, call[c]) /\ call[c].result = "none" /\ call[c] \in CallType
  BY <1>1, Before
<1>3. CASE op(c).tool = "type"
  <2>1. types \in CallType
    BY <1>2, PositionFacts, SetPc DEF DriverCalls
  <2>2. types.pc = "input" /\ SameWait(call[c], types)
    BY <1>2 DEF CallType, SameWait
  <2>3. e = types
    BY <1>3
  <2> HIDE DEF types
  <2>4. Sound(c, types)
    BY <1>1, <1>2, <2>2, Before
    DEF SameWait, Sound, Suits, TypesSafely, Timed, Heading, Seeking, OnBug
  <2> HIDE DEF e
  <2>5. Moves(c, e) /\ Aside(e)
    BY <1>1, <1>2, <2>1, <2>2, <2>3, <2>4
    DEF Moves, Exact, Aside, Heading, GivesUp, SessionPcs, SameWait
  <2> QED BY <2>5, UntouchedShared, Facts DEF Erase, device, shared, Context, MovesAside
<1>4. CASE op(c).tool # "type"
  <2>1. /\ waits \in CallType /\ Sound(c, waits) /\ waits.pc = "poll" /\ waits.result = "none"
        /\ now <= waits.deadline
    BY <1>2, <1>4, Bounds, WaitingSound DEF Context
  <2>2. e = waits
    BY <1>4
  <2> HIDE DEF e, waits
  <2>3. Moves(c, e) /\ Aside(e)
    BY <1>1, <2>1, <2>2 DEF Moves, Exact, Aside, Heading, GivesUp, SessionPcs
  <2> QED BY <2>3, UntouchedShared, Facts DEF Erase, device, shared, Context, MovesAside
<1> QED BY <1>3, <1>4

LEMMA InputMoves ==
    ASSUME Context, NEW c \in Calls, Input(c)
    PROVE  MovesAside(c) /\ Shared(c)
<1>1. PICK answered \in BOOLEAN :
        /\ call' = [call EXCEPT ![c] = [Outcome(Done(@, "ok"), answered) EXCEPT !.typed = TRUE]]
        /\ keyboardHint' = [keyboardHint EXCEPT ![drv(c)] = @ \/ (answered /\ op(c).tool = "type")]
  BY DEF Input
<1> DEFINE r == Outcome(Done(call[c], "ok"), answered)
           e == [r EXCEPT !.typed = TRUE]
<1>2. call[c].pc = "input" /\ TypesSafely(c, call[c]) /\ call[c] \in CallType
  BY Before DEF Input, Acts
<1>3. /\ r \in CallType /\ r.pc = "done" /\ r.result \in {"ok", "error"} /\ r.kind = "none"
      /\ r.focused = call[c].focused
  <2>1. "ok" \in Results /\ "error" \in Results
    BY DEF Results
  <2>2. /\ Done(call[c], "ok") \in CallType /\ Done(call[c], "ok").pc = "done"
        /\ Done(call[c], "ok").result = "ok" /\ Done(call[c], "ok").kind = "none"
        /\ Done(call[c], "ok").focused = call[c].focused
    BY <1>2, <2>1, DoneTyped
  <2>3. CASE answered
    <3>1. r = Done(call[c], "ok")
      BY <2>3 DEF Outcome
    <3> QED BY <2>2, <3>1
  <2>4. CASE ~answered
    <3>1. r = Done(Done(call[c], "ok"), "error")
      BY <2>4 DEF Outcome
    <3> QED BY <2>1, <2>2, <3>1, DoneTyped
  <2> QED BY <2>3, <2>4
<1> HIDE DEF r
<1>4. e \in CallType
  BY <1>3, SetTyped
<1>5. /\ e.pc = "done" /\ e.result = r.result /\ e.kind = "none" /\ e.focused = call[c].focused
  BY <1>3 DEF CallType
<1>6. call' = [call EXCEPT ![c] = e]
  BY <1>1 DEF r
<1> HIDE DEF e
<1>7. Sound(c, e)
  BY <1>2, <1>5 DEF Sound, Suits, TypesSafely, Timed, Heading, Seeking, OnBug
<1>8. Moves(c, e) /\ Aside(e)
  BY <1>2, <1>3, <1>4, <1>5, <1>6, <1>7 DEF Moves, Exact, Aside, Heading, GivesUp, SessionPcs
<1>9. Shared(c)
  <2>1. \A up \in BOOLEAN : LET s == [screen EXCEPT !.keyboard = up]
                           IN  s \in Screens /\ s.here = screen.here /\ s.pos = screen.pos
    BY Facts DEF Context, Screens
  <2>2. screen.keyboard \in BOOLEAN
    BY Facts DEF Context, Screens
  <2>3. screen' \in Screens /\ screen'.here = screen.here /\ screen'.pos = screen.pos
    BY <2>1, <2>2 DEF Input
  <2>4. keyboardHint' \in [Drivers -> BOOLEAN]
    BY <1>1, Facts DEF Context
  <2> QED BY <2>3, <2>4, Facts DEF Input, Acts, Shared, Context
<1> QED BY <1>8, <1>9 DEF MovesAside

LEMMA SingleCallMoves ==
    ASSUME Context, NEW c \in Calls, SingleCall(c)
    PROVE  MovesAside(c) /\ Shared(c)
<1>1. PICK answered \in BOOLEAN : Finish(c, IF answered THEN "ok" ELSE "error")
  BY DEF SingleCall
<1>2. (IF answered THEN "ok" ELSE "error") \in Results \ {"timeout", "notfound"}
  BY DEF Results
<1>3. MovesAside(c)
  BY <1>1, <1>2, FinishMoves
<1>4. /\ screen' \in Screens /\ screen'.here = screen.here
      /\ screen'.pos # screen.pos => op(c).tool = "swipe"
  <2>1. screen \in Screens /\ screen.pos \in Int
    BY Facts DEF Context, Screens
  <2>2. CASE op(c).tool = "swipe"
    BY <2>1, <2>2, ScrollFacts DEF SingleCall, Effects
  <2>3. CASE op(c).tool # "swipe"
    <3>1. screen' \in {screen, [screen EXCEPT !.keyboard = FALSE]}
      BY <2>3 DEF SingleCall, Effects
    <3>2. LET s == [screen EXCEPT !.keyboard = FALSE]
          IN  s \in Screens /\ s.here = screen.here /\ s.pos = screen.pos
      BY <2>1 DEF Screens
    <3> QED BY <2>1, <3>1, <3>2
  <2> QED BY <2>2, <2>3
<1> QED BY <1>3, <1>4, Facts DEF SingleCall, Acts, Shared, shared, Context

-----------------------------------------------------------------------------
(* LaunchApp.                                                               *)

LEMMA ReleaseTyped ==
    ASSUME Context, NEW c \in Calls, Release(c)
    PROVE  launched' \in [Drivers -> SUBSET Apps]
  BY Facts DEF Context, Release

LEMMA ListAppsMoves ==
    ASSUME Context, NEW c \in Calls, ListApps(c)
    PROVE  MovesAside(c) /\ Shared(c)
<1>1. call[c].pc = "list" /\ op(c).tool = "launch"
  BY Before DEF ListApps, Acts, Sound, Suits
<1>2. CASE op(c).app \in load.installed
  <2> DEFINE e == [call[c] EXCEPT !.pc = "launch"]
  <2>1. call' = [call EXCEPT ![c] = e]
    BY <1>2, Before DEF ListApps, Goto
  <2>2. e \in CallType
    BY Before, PositionFacts, SetPc DEF DriverCalls
  <2>3. e.pc = "launch" /\ SameWait(call[c], e)
    BY Before DEF CallType, SameWait
  <2> HIDE DEF e
  <2>4. Sound(c, e)
    BY <1>1, <2>3, Before DEF SameWait, Sound, Suits, TypesSafely, Timed, Heading, Seeking, OnBug
  <2>5. Moves(c, e) /\ Aside(e)
    BY <1>1, <2>1, <2>2, <2>3, <2>4, Before
    DEF Moves, Exact, Aside, Heading, GivesUp, SessionPcs, SameWait
  <2> QED BY <1>2, <2>5, UntouchedShared, Facts DEF ListApps, Acts, device, Context, MovesAside
<1>3. CASE op(c).app \notin load.installed
  <2>1. "error" \in Results
    BY DEF Results
  <2>2. MovesAside(c)
    BY <1>3, <2>1, FinishMoves DEF ListApps
  <2>3. launched' \in [Drivers -> SUBSET Apps]
    BY <1>3, ReleaseTyped DEF ListApps
  <2> QED BY <2>2, <2>3, UntouchedShared, Facts DEF ListApps, Acts, device, Context
<1> QED BY <1>2, <1>3

LEMMA LaunchOnDeviceMoves ==
    ASSUME Context, NEW c \in Calls, LaunchOnDevice(c)
    PROVE  MovesAside(c) /\ Shared(c)
<1>1. op(c).app \in Apps
  BY Before, LoadFacts DEF LaunchOnDevice, Acts, Sound, Suits, Context
<1>2. "ok" \in Results /\ "error" \in Results
  BY DEF Results
<1>3. MovesAside(c)
  BY <1>2, FinishMoves DEF LaunchOnDevice
<1>4. launched' \in [Drivers -> SUBSET Apps] /\ keyboardHint' \in [Drivers -> BOOLEAN]
  <2>1. CASE /\ keyboardHint' = [keyboardHint EXCEPT ![drv(c)] = FALSE]
             /\ launched' = [launched EXCEPT ![drv(c)] = @ \cup {op(c).app}]
    BY <1>1, <2>1, Facts DEF Context
  <2>2. CASE Release(c) /\ UNCHANGED keyboardHint
    BY <2>2, ReleaseTyped, Facts DEF Context
  <2> QED BY <2>1, <2>2 DEF LaunchOnDevice
<1> QED BY <1>1, <1>3, <1>4, Facts DEF LaunchOnDevice, Acts, Shared, Context

-----------------------------------------------------------------------------
(* Scroll searches.                                                         *)

\* A step of call c within the layer, which keeps count of where it has looked.
MovesOn(c) == \E e : Moves(c, e) /\ Searched(c, e, screen'.pos)

\* A call that is in no search has nothing to keep count of.
LEMMA AsideMovesOn ==
    ASSUME NEW c \in Calls, MovesAside(c)
    PROVE  MovesOn(c)
<1>1. PICK e : Moves(c, e) /\ Aside(e)
  BY DEF MovesAside
<1>2. Searched(c, e, screen'.pos)
  BY <1>1 DEF Searched, Aside, Heading
<1> QED BY <1>1, <1>2 DEF MovesOn

LEMMA WakesMoves ==
    ASSUME Context, Searches, NEW c \in Calls, Wakes(c)
    PROVE  MovesOn(c) /\ Shared(c)
<1> DEFINE e == [call[c] EXCEPT !.pc = call[c].then]
<1>1. call[c].pc = "sleep" /\ now = call[c].wake /\ call' = [call EXCEPT ![c] = e]
  BY Before DEF Wakes
<1>2. e \in CallType
  BY Before, FieldTypes, SetPc
<1>3. /\ e.pc = call[c].then /\ SameWait(call[c], e) /\ e.then = call[c].then /\ e.iter = call[c].iter
  BY Before DEF CallType, SameWait
<1>4. /\ e.prev = call[c].prev /\ e.left = call[c].left /\ e.dir = call[c].dir
      /\ e.began = call[c].began
  BY Before DEF CallType
<1> HIDE DEF e
<1>5. call[c].then \in {"poll", "search", "refind"} /\ Heading(e) = Heading(call[c])
  BY <1>1, <1>3, Before DEF Sound, Suits, Heading
<1>6. Sound(c, e)
  <2>1. Suits(c, e)
    BY <1>1, <1>3, <1>5, Before DEF SameWait, Sound, Suits, OnBug
  <2>2. TypesSafely(c, e)
    BY <1>3, <1>5, Before DEF SameWait, TypesSafely
  <2>3. Timed(e)
    BY <1>1, <1>3, <1>5, Before DEF SameWait, Timed
  <2> QED BY <2>1, <2>2, <2>3 DEF Sound
<1>7. Moves(c, e)
  <2>1. call[c].then = "poll" => now <= e.deadline
    BY <1>1, <1>3, Before DEF Sound, Timed, SameWait
  <2>2. call[c].result = "none"
    BY <1>1, Before
  <2> QED BY <1>1, <1>2, <1>3, <1>5, <1>6, <2>1, <2>2 DEF Moves, Exact, GivesUp, SessionPcs, SameWait
<1>8. Shared(c)
  BY UntouchedShared, Facts DEF Wakes, device, shared, Context
<1>9. Searched(c, e, screen'.pos)
  <2>1. screen'.pos = screen.pos /\ Searched(c, call[c], screen.pos)
    BY DEF Wakes, device, Searches
  <2>2. e.pc \in {"poll", "search", "refind"}
    BY <1>3, <1>5
  <2>3. \A q : Progress(c, call[c], q) => Progress(c, e, q)
    BY <1>4 DEF Progress, Top
  <2>4. \A q : Onward(e, q) = Onward(call[c], q)
    BY <1>4 DEF Onward
  <2> QED BY <1>4, <1>5, <2>1, <2>2, <2>3, <2>4 DEF Searched
<1> QED BY <1>7, <1>8, <1>9 DEF MovesOn

\* Nothing of the target shows in a tree that does not hold it.
LEMMA UnseenHere ==
    ASSUME Context, NEW c \in Calls, op(c).elem \notin Tree(screen)
    PROVE  Unseen(c, screen.pos, screen.pos)
<1>1. op(c).elem \in screen.here => op(c).elem \in Elem
  BY Facts DEF Context, Screens
<1> QED BY <1>1 DEF Unseen, Tree

LEMMA FindTargetMoves ==
    ASSUME Context, NEW c \in Calls, FindTarget(c)
    PROVE  MovesOn(c) /\ Shared(c)
<1> DEFINE r == [call[c] EXCEPT !.began = screen.pos]
           probes == [r EXCEPT !.pc = "probe"]
           there == op(c).elem \in Tree(screen)
           e == CASE op(c).scroll /\ there  -> Position(c, r, screen)
                  [] op(c).scroll /\ ~there -> probes
                  [] OTHER                  -> IF there THEN Prepared(c, r, screen) ELSE Done(r, "absent")
<1>1. call[c].pc = "find" /\ call' = [call EXCEPT ![c] = e]
  BY DEF FindTarget, Reads
<1>2. Seeks(c, call[c]) /\ call[c] \in CallType
  BY <1>1, OnTheWay, Before DEF Seeking
<1>3. screen \in Screens /\ screen.pos \in 0 .. LastPage /\ "absent" \in Results /\ "probe" \in Positions
  BY Facts DEF Context, Screens, Results, Positions, DriverCalls
<1>4. r \in CallType
  BY <1>2, <1>3, SetBegan
<1>5. SameWait(call[c], r) /\ r.pc = "find" /\ r.began = screen.pos
  BY <1>1, <1>2 DEF CallType, SameWait
<1> HIDE DEF r
<1>6. Seeks(c, r) /\ TypesSafely(c, r)
  BY <1>1, <1>2, <1>5 DEF Seeks, SameWait, TypesSafely
<1>7. /\ probes \in CallType /\ probes.pc = "probe" /\ SameWait(call[c], probes)
      /\ probes.began = screen.pos
  <2>1. probes \in CallType
    BY <1>3, <1>4, SetPc
  <2>2. probes.pc = "probe" /\ SameWait(r, probes) /\ probes.began = screen.pos
    BY <1>4, <1>5 DEF CallType, SameWait
  <2> QED BY <1>5, <2>1, <2>2 DEF SameWait
<1> HIDE DEF probes
<1>8. Shared(c)
  BY UntouchedShared, Facts DEF FindTarget, Reads, device, shared, Context
<1>9. screen'.pos = screen.pos
  BY DEF FindTarget, Reads, device
<1>10. CASE op(c).scroll /\ ~there
  <2>1. e = probes
    BY <1>10
  <2> HIDE DEF e
  <2>2. Moves(c, e)
    BY <1>1, <1>7, <2>1, StaysMoves DEF DriverCalls, Seeking
  <2>3. Searched(c, e, screen'.pos)
    BY <1>7, <1>9, <1>10, <2>1, UnseenHere DEF Searched, Heading
  <2> QED BY <1>8, <2>2, <2>3 DEF MovesOn
<1>11. CASE ~(op(c).scroll /\ ~there)
  <2>1. /\ e \in CallType /\ Sound(c, e) /\ e.pc \in {"tap", "hide", "done", "toward"}
        /\ e.result \in {"none", "obscured", "unreachable", "absent"}
    <3>1. CASE op(c).scroll /\ there
      BY <1>3, <1>4, <1>6, <3>1, PositionSound
    <3>2. CASE ~op(c).scroll /\ there
      BY <1>4, <1>6, <3>2, PreparedSound
    <3>3. CASE ~op(c).scroll /\ ~there
      BY <1>3, <1>4, <1>6, <3>3, DoneSound
    <3> QED BY <1>11, <3>1, <3>2, <3>3
  <2> HIDE DEF e
  <2>2. Moves(c, e) /\ Aside(e)
    BY <1>1, <2>1 DEF Moves, Exact, Aside, Heading, GivesUp, SessionPcs
  <2> QED BY <1>8, <2>2, AsideMovesOn DEF MovesAside
<1> QED BY <1>10, <1>11

LEMMA ProbeMoves ==
    ASSUME Context, Searches, NEW c \in Calls, Probe(c)
    PROVE  MovesOn(c) /\ Shared(c)
<1> DEFINE e == [call[c] EXCEPT !.pc = "swipe", !.prev = screen, !.dir = "up", !.left = Budget]
<1>1. call[c].pc = "probe" /\ call' = [call EXCEPT ![c] = e]
  BY Before DEF Probe, Reads
<1>2. screen \in Screens /\ screen.pos \in 0 .. LastPage /\ "swipe" \in Positions
      /\ "up" \in {"up", "down"} /\ Budget \in 0 .. Max({SearchBudget, ThinBudget})
  BY Facts, Bounds DEF Context, Screens, Positions, DriverCalls
<1>3. e \in CallType
  <2>1. screen \in Screens \cup {None}
    BY <1>2
  <2> QED BY <1>2, <2>1, Before, SetPc, SetPrev, SetDir, SetLeft, Zenon
<1>4. e.pc = "swipe" /\ SameWait(call[c], e)
  BY Before DEF CallType, SameWait
<1>5. e.prev = screen /\ e.dir = "up" /\ e.left = Budget /\ e.began = call[c].began
  BY Before DEF CallType
<1> HIDE DEF e
<1>6. Moves(c, e)
  BY <1>1, <1>3, <1>4, StaysMoves DEF DriverCalls, Seeking
<1>7. Searched(c, e, screen'.pos)
  <2>1. screen'.pos = screen.pos
    BY DEF Probe, Reads, device
  <2>2. Alone(c) => call[c].began = screen.pos /\ Unseen(c, screen.pos, screen.pos)
    BY <1>1 DEF Searches, Searched
  <2>3. Alone(c) => Progress(c, e, screen.pos)
    BY <1>2, <1>5, <2>2, Bounds DEF Progress
  <2> QED BY <1>4, <1>5, <2>1, <2>3 DEF Searched, Heading
<1>8. Shared(c)
  BY UntouchedShared, Facts DEF Probe, Reads, device, shared, Context
<1> QED BY <1>6, <1>7, <1>8 DEF MovesOn

LEMMA SearchSwipeMoves ==
    ASSUME Context, Searches, NEW c \in Calls, SearchSwipe(c)
    PROVE  MovesOn(c) /\ Shared(c)
<1> DEFINE e == Sleep(c, Interval, "search")
<1>1. call[c].pc = "swipe" /\ call' = [call EXCEPT ![c] = e]
  BY DEF SearchSwipe, Acts
<1>2. Seeks(c, call[c])
  BY <1>1, OnTheWay DEF Seeking
<1>3. /\ e \in CallType /\ Sound(c, e) /\ e.pc = "sleep" /\ e.then = "search" /\ e.result = "none"
      /\ e.prev = call[c].prev /\ e.left = call[c].left /\ e.dir = call[c].dir
      /\ e.began = call[c].began
  BY <1>2, SleepSound
<1> HIDE DEF e
<1>4. Moves(c, e)
  BY <1>1, <1>3 DEF Moves, Exact, GivesUp, SessionPcs
<1>5. screen \in Screens /\ screen.pos \in 0 .. LastPage /\ LastPage \in Nat
  BY Facts, Bounds DEF Context, Screens
<1>6. /\ screen' \in Screens /\ screen'.here = screen.here
      /\ screen'.pos = Onward(call[c], screen.pos)
  BY <1>5, ScrollFacts DEF SearchSwipe, Onward
<1>7. Shared(c)
  BY <1>2, <1>6, Facts DEF SearchSwipe, Acts, Shared, shared, Seeks, Context
<1>8. Searched(c, e, screen'.pos)
  <2>1. Alone(c) => Progress(c, call[c], screen.pos) /\ call[c].prev.pos = screen.pos
    BY <1>1 DEF Searches, Searched
  <2>2. \A q : Progress(c, call[c], q) => Progress(c, e, q)
    BY <1>3 DEF Progress, Top
  <2>3. \A q : Onward(e, q) = Onward(call[c], q)
    BY <1>3 DEF Onward
  <2> QED BY <1>3, <1>6, <2>1, <2>2, <2>3 DEF Searched, Heading
<1> QED BY <1>4, <1>7, <1>8 DEF MovesOn

\* One read of a search that has come to page q from page p without a find.
LEMMA FurtherUp ==
    ASSUME NEW c \in Calls, NEW r, NEW p \in 0 .. LastPage, NEW q \in 0 .. LastPage,
           r.began \in 0 .. LastPage, Page \in [Elem -> Nat], op(c).elem \in screen.here => op(c).elem \in Elem,
           Budget \in Nat \ {0}, LastPage \in Nat,
           Progress(c, r, p), r.dir = "up", q = Onward(r, p), Unseen(c, q, q)
    PROVE  /\ Unseen(c, q, r.began) /\ q <= r.began /\ Top(r) \in Nat
           /\ r.left > 1 => /\ r.began - q <= Budget - (r.left - 1)
                            /\ q = 0 \/ r.began - q = Budget - (r.left - 1)
           /\ r.left = 1 \/ q = p => q = Top(r)
<1>1. /\ r.left \in 1 .. Budget /\ Unseen(c, p, r.began)
      /\ p <= r.began /\ r.began - p <= Budget - r.left
      /\ p = 0 \/ r.began - p = Budget - r.left
  BY DEF Progress
<1>2. q = IF p = 0 THEN 0 ELSE p - 1
  BY DEF Onward
<1>3. Unseen(c, q, r.began)
  BY <1>1, <1>2 DEF Unseen
<1>4. Top(r) = IF 0 >= r.began - Budget THEN 0 ELSE r.began - Budget
  <2>1. 0 \in Int /\ r.began - Budget \in Int
    OBVIOUS
  <2> QED BY <2>1, MaxOfTwo DEF Top
<1> QED BY <1>1, <1>2, <1>3, <1>4

LEMMA FurtherDown ==
    ASSUME NEW c \in Calls, NEW r, NEW p \in 0 .. LastPage, NEW q \in 0 .. LastPage,
           Top(r) \in Nat, Page \in [Elem -> Nat], op(c).elem \in screen.here => op(c).elem \in Elem,
           Budget \in Nat \ {0}, LastPage \in Nat,
           Progress(c, r, p), r.dir = "down", q = Onward(r, p), Unseen(c, q, q)
    PROVE  /\ Unseen(c, Top(r), q) /\ Top(r) <= q
           /\ r.left > 1 => q = LastPage \/ q - Top(r) = Budget - (r.left - 1)
           /\ r.left = 1 \/ q = p => Unseen(c, Top(r), Min({LastPage, Top(r) + Budget}))
<1> DEFINE top == Top(r)
<1>1. /\ r.left \in 1 .. Budget /\ Unseen(c, top, p) /\ top <= p
      /\ p = LastPage \/ p - top = Budget - r.left
  BY DEF Progress
<1>2. q = IF p = LastPage THEN LastPage ELSE p + 1
  BY DEF Onward
<1>3. top \in Nat
  OBVIOUS
<1> HIDE DEF top
<1>4. Unseen(c, top, q) /\ top <= q
  BY <1>1, <1>2, <1>3 DEF Unseen
<1>5. r.left > 1 => q = LastPage \/ q - top = Budget - (r.left - 1)
  BY <1>1, <1>2, <1>3
<1>6. Min({LastPage, top + Budget}) = IF LastPage <= top + Budget THEN LastPage ELSE top + Budget
  BY <1>3, MinOfTwo
<1>7. r.left = 1 \/ q = p => Min({LastPage, top + Budget}) <= q
  BY <1>1, <1>2, <1>3, <1>6
<1>8. r.left = 1 \/ q = p => Unseen(c, top, Min({LastPage, top + Budget}))
  BY <1>3, <1>4, <1>6, <1>7 DEF Unseen
<1> QED BY <1>4, <1>5, <1>8 DEF top

\* The two ways a search goes on, and what they leave of the call's record.
Again(r, s) == [r EXCEPT !.pc = "swipe", !.left = @ - 1, !.prev = s]
Turn(r, s) == [r EXCEPT !.pc = "swipe", !.dir = "down", !.left = Budget, !.prev = s]

LEMMA NextSwipeFacts ==
    ASSUME NEW r \in CallType, NEW s \in Screens
    PROVE  /\ r.left > 1 =>
                /\ Again(r, s) \in CallType /\ Again(r, s).pc = "swipe" /\ SameWait(r, Again(r, s))
                /\ Again(r, s).prev = s /\ Again(r, s).left = r.left - 1 /\ Again(r, s).dir = r.dir
                /\ Again(r, s).began = r.began
           /\ Turn(r, s) \in CallType /\ Turn(r, s).pc = "swipe" /\ SameWait(r, Turn(r, s))
           /\ Turn(r, s).prev = s /\ Turn(r, s).left = Budget /\ Turn(r, s).dir = "down"
           /\ Turn(r, s).began = r.began
           /\ NextSwipe(r, s) \in {Again(r, s), Turn(r, s), Done(r, "notfound")}
<1>1. /\ "swipe" \in Positions /\ Budget \in 0 .. Max({SearchBudget, ThinBudget})
      /\ s \in Screens \cup {None} /\ "down" \in {"up", "down"}
  BY Bounds DEF Positions, DriverCalls
<1>2. ASSUME r.left > 1 PROVE Again(r, s) \in CallType
  <2> DEFINE m == Max({SearchBudget, ThinBudget})
  <2>0. m \in Nat /\ r.left \in 0 .. m
    BY FieldTypes, Bounds
  <2> HIDE DEF m
  <2>1. r.left - 1 \in 0 .. m
    BY <1>2, <2>0
  <2> USE DEF m
  <2> QED BY <1>1, <2>1, SetPc, SetLeft, SetPrev, Zenon DEF Again
<1>3. /\ Again(r, s).pc = "swipe" /\ SameWait(r, Again(r, s))
      /\ Again(r, s).prev = s /\ Again(r, s).left = r.left - 1 /\ Again(r, s).dir = r.dir
      /\ Again(r, s).began = r.began
  BY DEF Again, CallType, SameWait
<1>4. Turn(r, s) \in CallType
  BY <1>1, SetPc, SetDir, SetLeft, SetPrev, Zenon DEF Turn
<1>5. /\ Turn(r, s).pc = "swipe" /\ SameWait(r, Turn(r, s))
      /\ Turn(r, s).prev = s /\ Turn(r, s).left = Budget /\ Turn(r, s).dir = "down"
      /\ Turn(r, s).began = r.began
  BY DEF Turn, CallType, SameWait
<1>6. NextSwipe(r, s) \in {Again(r, s), Turn(r, s), Done(r, "notfound")}
  BY DEF NextSwipe, Again, Turn
<1> QED BY <1>2, <1>3, <1>4, <1>5, <1>6

\* A read of a search that shows no target: it knows as much as it should of what lies behind.
LEMMA NextSwipeSearched ==
    ASSUME Context, NEW c \in Calls, NEW r \in CallType, op(c).elem \notin Tree(screen),
           Progress(c, r, r.prev.pos), screen.pos = Onward(r, r.prev.pos)
    PROVE  LET e == NextSwipe(r, screen)
           IN  /\ e.pc = "swipe" => Progress(c, e, screen.pos) /\ e.prev.pos = screen.pos
               /\ e.pc = "done" => Unseen(c, Top(e), Min({LastPage, Top(e) + Budget}))
<1> DEFINE p == r.prev.pos
           q == screen.pos
           e == NextSwipe(r, screen)
           goes == r.left > 1 /\ Signature(screen) # Signature(r.prev)
<1>1. /\ screen \in Screens /\ q \in 0 .. LastPage /\ LastPage \in Nat
      /\ op(c).elem \in screen.here => op(c).elem \in Elem
      /\ Budget \in Nat \ {0} /\ Page \in [Elem -> Nat]
  BY Facts, Bounds DEF Context, Screens
<1>2. /\ r.prev \in Screens /\ p \in 0 .. LastPage /\ r.left \in 1 .. Budget /\ r.began \in 0 .. LastPage
      /\ r.dir \in {"up", "down"}
  BY FieldTypes DEF Progress, Screens
<1>3. Unseen(c, q, q)
  BY UnseenHere
<1>4. ~goes => r.left = 1 \/ q = p
  BY <1>1, <1>2 DEF Signature
<1>5. /\ goes => e = Again(r, screen)
      /\ ~goes /\ r.dir = "up" => e = Turn(r, screen)
      /\ ~goes /\ r.dir = "down" => e = Done(r, "notfound")
  BY <1>2 DEF NextSwipe, Again, Turn
<1> HIDE DEF p, q, e, goes
<1>6. CASE r.dir = "up"
  <2>1. /\ Unseen(c, q, r.began) /\ q <= r.began /\ Top(r) \in Nat
        /\ r.left > 1 => /\ r.began - q <= Budget - (r.left - 1)
                         /\ q = 0 \/ r.began - q = Budget - (r.left - 1)
        /\ r.left = 1 \/ q = p => q = Top(r)
    BY <1>1, <1>2, <1>3, <1>6, FurtherUp DEF p, q
  <2>2. CASE goes
    <3>1. /\ r.left > 1 /\ e.pc = "swipe" /\ e.prev = screen /\ e.left = r.left - 1 /\ e.dir = "up"
          /\ e.began = r.began
      BY <1>1, <1>5, <1>6, <2>2, NextSwipeFacts DEF goes
    <3>2. Progress(c, e, q)
      BY <1>1, <1>2, <2>1, <3>1 DEF Progress
    <3> QED BY <3>1, <3>2 DEF e, q
  <2>3. CASE ~goes
    <3>1. /\ e.pc = "swipe" /\ e.prev = screen /\ e.left = Budget /\ e.dir = "down"
          /\ e.began = r.began
      BY <1>1, <1>5, <1>6, <2>3, NextSwipeFacts
    <3>2. Top(e) = Top(r) /\ Top(r) = q
      BY <1>4, <2>1, <2>3, <3>1 DEF Top
    <3>3. Unseen(c, q, q)
      BY <1>3
    <3>4. Progress(c, e, q)
      BY <1>1, <3>1, <3>2, <3>3 DEF Progress
    <3> QED BY <3>1, <3>4 DEF e, q
  <2> QED BY <2>2, <2>3
<1>7. CASE r.dir = "down"
  <2>0. Top(r) \in Nat
    <3>1. 0 \in Int /\ r.began - Budget \in Int
      BY <1>1, <1>2
    <3> QED BY <1>1, <1>2, <3>1, MaxOfTwo DEF Top
  <2>1. /\ Unseen(c, Top(r), q) /\ Top(r) <= q
        /\ r.left > 1 => q = LastPage \/ q - Top(r) = Budget - (r.left - 1)
        /\ r.left = 1 \/ q = p => Unseen(c, Top(r), Min({LastPage, Top(r) + Budget}))
    BY <1>1, <1>2, <1>3, <1>7, <2>0, FurtherDown DEF p, q
  <2>2. CASE goes
    <3>1. /\ r.left > 1 /\ e.pc = "swipe" /\ e.prev = screen /\ e.left = r.left - 1 /\ e.dir = "down"
          /\ e.began = r.began
      BY <1>1, <1>5, <1>7, <2>2, NextSwipeFacts DEF goes
    <3>2. Top(e) = Top(r)
      BY <3>1 DEF Top
    <3>3. Progress(c, e, q)
      BY <1>1, <1>2, <2>1, <3>1, <3>2 DEF Progress
    <3> QED BY <3>1, <3>3 DEF e, q
  <2>3. CASE ~goes
    <3>1. e.pc = "done" /\ e.began = r.began
      <4>1. "notfound" \in Results
        BY DEF Results
      <4> QED BY <1>5, <1>7, <2>3, <4>1, DoneTyped
    <3>2. Top(e) = Top(r)
      BY <3>1 DEF Top
    <3> QED BY <1>4, <2>1, <2>3, <3>1, <3>2 DEF e
  <2> QED BY <2>2, <2>3
<1> QED BY <1>2, <1>6, <1>7

LEMMA SearchMoves ==
    ASSUME Context, Searches, NEW c \in Calls, Search(c)
    PROVE  MovesOn(c) /\ Shared(c)
<1> DEFINE r == call[c]
<1>1. call[c].pc = "search"
  BY DEF Search, Reads
<1>2. Seeks(c, r) /\ r \in CallType /\ screen \in Screens
  BY <1>1, OnTheWay, Before, Facts DEF Seeking, Context
<1>3. Shared(c)
  BY UntouchedShared, Facts DEF Search, Reads, device, shared, Context
<1>4. screen'.pos = screen.pos
  BY DEF Search, Reads, device
<1>5. CASE op(c).elem \in Tree(screen)
  <2> DEFINE e == Position(c, r, screen)
  <2>1. call' = [call EXCEPT ![c] = e]
    BY <1>5 DEF Search
  <2>2. /\ e \in CallType /\ Sound(c, e) /\ e.pc \in {"tap", "hide", "done", "toward"}
        /\ e.result \in {"none", "obscured", "unreachable"}
    BY <1>2, <1>5, PositionSound
  <2> HIDE DEF e
  <2>3. Moves(c, e) /\ Aside(e)
    BY <1>1, <2>1, <2>2 DEF Moves, Exact, Aside, Heading, GivesUp, SessionPcs
  <2> QED BY <1>3, <2>3, AsideMovesOn DEF MovesAside
<1>6. CASE op(c).elem \notin Tree(screen)
  <2> DEFINE e == NextSwipe(r, screen)
  <2>1. call' = [call EXCEPT ![c] = e]
    BY <1>6 DEF Search
  <2>2. Alone(c) => Progress(c, r, r.prev.pos) /\ screen.pos = Onward(r, r.prev.pos)
    BY <1>1 DEF Searches, Searched, Heading
  <2>3. Alone(c) => /\ e.pc = "swipe" => Progress(c, e, screen.pos) /\ e.prev.pos = screen.pos
                    /\ e.pc = "done" => Unseen(c, Top(e), Min({LastPage, Top(e) + Budget}))
    BY <1>2, <1>6, <2>2, NextSwipeSearched
  <2>4. CASE e = Done(r, "notfound")
    <3>1. /\ e \in CallType /\ Sound(c, e) /\ e.pc = "done" /\ e.result = "notfound"
      <4>1. "notfound" \in Results /\ TypesSafely(c, r)
        BY <1>2 DEF Results, Seeks
      <4> QED BY <1>2, <2>4, <4>1, DoneSound
    <3> HIDE DEF e
    <3>2. Moves(c, e)
      BY <1>1, <2>1, <3>1 DEF Moves, Exact, GivesUp, SessionPcs
    <3>3. Searched(c, e, screen'.pos)
      BY <2>3, <3>1 DEF Searched, Heading
    <3> QED BY <1>3, <3>2, <3>3 DEF MovesOn
  <2>5. CASE e \in {Again(r, screen), Turn(r, screen)} /\ e # Done(r, "notfound")
    <3>1. e \in CallType /\ e.pc = "swipe" /\ SameWait(r, e)
      <4>1. e = Again(r, screen) => r.left > 1 \/ e = Turn(r, screen)
        BY <2>5 DEF NextSwipe, Again, Turn
      <4> QED BY <1>2, <2>5, <4>1, NextSwipeFacts
    <3> HIDE DEF e
    <3>2. Moves(c, e)
      BY <1>1, <2>1, <3>1, StaysMoves DEF DriverCalls, Seeking
    <3>3. Searched(c, e, screen'.pos)
      BY <1>4, <2>3, <3>1 DEF Searched, Heading
    <3> QED BY <1>3, <3>2, <3>3 DEF MovesOn
  <2> QED BY <1>2, <2>4, <2>5, NextSwipeFacts
<1> QED BY <1>5, <1>6

-----------------------------------------------------------------------------
(* What a step of one call leaves of the invariant.                         *)

LEMMA OrchestraStepMoves ==
    ASSUME Context, Searches, NEW c \in Calls, OrchestraStep(c)
    PROVE  MovesOn(c) /\ Shared(c)
<1>1. CASE Wakes(c)
  BY <1>1, WakesMoves
<1>2. CASE SleepEnds(c) \/ DriverFails(c)
  BY <1>2, SleepEndsMoves, DriverFailsMoves, AsideMovesOn
<1>3. CASE Poll(c) \/ PollTree(c) \/ PollAbsent(c) \/ PollAppear(c)
  BY <1>3, PollMoves, PollTreeMoves, PollAbsentMoves, PollAppearMoves, AsideMovesOn
<1>4. CASE Classify(c) \/ ReadPost(c) \/ LastAbsent(c) \/ Verdict(c)
  BY <1>4, ClassifyMoves, ReadPostMoves, LastAbsentMoves, VerdictMoves, AsideMovesOn
<1>5. CASE FindTarget(c) \/ Probe(c) \/ SearchSwipe(c) \/ Search(c)
  BY <1>5, FindTargetMoves, ProbeMoves, SearchSwipeMoves, SearchMoves
<1>6. CASE Toward(c) \/ Refind(c) \/ HideKeyboard(c) \/ Tap(c) \/ Erase(c) \/ Input(c)
  BY <1>6, TowardMoves, RefindMoves, HideKeyboardMoves, TapMoves, EraseMoves, InputMoves, AsideMovesOn
<1>7. CASE ListApps(c) \/ LaunchOnDevice(c)
  BY <1>7, ListAppsMoves, LaunchOnDeviceMoves, AsideMovesOn
<1>8. CASE BeforeTree(c) \/ BeforeState(c) \/ SingleCall(c)
  BY <1>8, BeforeTreeMoves, BeforeStateMoves, SingleCallMoves, AsideMovesOn
<1> QED BY <1>1, <1>2, <1>3, <1>4, <1>5, <1>6, <1>7, <1>8 DEF OrchestraStep

\* Call c is at e and the others are where they were.
LEMMA AtMost ==
    ASSUME Context, NEW c \in Calls, NEW e \in CallType, call' = [call EXCEPT ![c] = e]
    PROVE  /\ call'[c] = e /\ \A d \in Calls \ {c} : call'[d] = call[d]
           /\ call' \in [Calls -> CallType]
  BY Before

LEMMA LocalsKept ==
    ASSUME Context, NEW c \in Calls, NEW e \in CallType, call' = [call EXCEPT ![c] = e],
           Sound(c, e), UNCHANGED load
    PROVE  Locals'
<1> SUFFICES ASSUME NEW d \in Calls
             PROVE  Sound(d, call[d])'
  BY DEF Locals
<1>1. CASE d = c
  <2>1. call'[d] = e
    BY <1>1, AtMost
  <2> QED BY <1>1, <2>1 DEF Sound, Suits, TypesSafely, Timed, Heading, op
<1>2. CASE d # c
  <2>1. call'[d] = call[d] /\ Sound(d, call[d])
    BY <1>2, AtMost DEF Context, Locals
  <2> QED BY <2>1 DEF Sound, Suits, TypesSafely, Timed, Heading, op
<1> QED BY <1>1, <1>2

LEMMA SearchesKept ==
    ASSUME Context, Searches, NEW c \in Calls, NEW e \in CallType, call' = [call EXCEPT ![c] = e],
           Searched(c, e, screen'.pos), UNCHANGED <<load, changes>>, screen'.here = screen.here,
           screen'.pos # screen.pos => op(c).tool \in {"tap", "type", "transition", "swipe"}
    PROVE  Searches'
<1> SUFFICES ASSUME NEW d \in Calls
             PROVE  Searched(d, call[d], screen.pos)'
  BY DEF Searches
<1>1. Alone(d)' <=> Alone(d)
  BY DEF Alone, op
<1>2. CASE d = c
  <2>1. call'[d] = e
    BY <1>2, AtMost
  <2> QED BY <1>1, <1>2, <2>1 DEF Searched, Progress, Onward, Unseen, Top, Budget, Heading, op
<1>3. CASE d # c /\ Alone(d)
  <2>1. call'[d] = call[d] /\ Searched(d, call[d], screen.pos)
    BY <1>3, AtMost DEF Searches
  <2>2. screen'.pos = screen.pos
    BY <1>3 DEF Alone
  <2> QED BY <1>1, <2>1, <2>2 DEF Searched, Progress, Onward, Unseen, Top, Budget, Heading, op
<1>4. CASE ~Alone(d)
  BY <1>1, <1>4 DEF Searched
<1> QED BY <1>2, <1>3, <1>4

\* Call c is not over, or stays so, and does not turn a failure into a success.
StaysTold(c) ==
  call[c].pc \in {"done", "answered"} =>
    call'[c].pc \in {"done", "answered"} /\ (call'[c].result = "ok" => call[c].result = "ok")

LEMMA SessionKept ==
    ASSUME Context, OnePlace, InTurn, Accounted, BuildsFit, NEW c \in Calls, NEW e \in CallType,
           StaysTold(c),
           call' = [call EXCEPT ![c] = e], call[c].pc \notin SessionPcs,
           e.pc \notin SessionPcs \cup {"idle"}, UNCHANGED <<load, connected, session>>
    PROVE  OnePlace' /\ InTurn' /\ Accounted' /\ BuildsFit' /\ SessionTypeOK'
<1>1. \A d \in Calls : InHand(d)' = InHand(d) /\ (call'[d].pc \in SessionPcs <=> call[d].pc \in SessionPcs)
  <2> SUFFICES ASSUME NEW d \in Calls
               PROVE  InHand(d)' = InHand(d) /\ (call'[d].pc \in SessionPcs <=> call[d].pc \in SessionPcs)
    OBVIOUS
  <2>1. CASE d = c
    <3>1. call'[d] = e
      BY <2>1, AtMost
    <3> QED BY <2>1, <3>1 DEF InHand, Hand, SessionPcs
  <2>2. CASE d # c
    <3>1. call'[d] = call[d]
      BY <2>2, AtMost
    <3> QED BY <3>1 DEF InHand, Hand
  <2> QED BY <2>1, <2>2
<1>2. OnePlace'
  BY <1>1 DEF OnePlace, session
<1>3. InTurn'
  BY <1>1 DEF InTurn, session
<1>4. BuildsFit'
  <2>1. Selecting' \subseteq Selecting /\ IsFiniteSet(Selecting)
    <3>1. Selecting' \subseteq Selecting
      BY AtMost DEF Selecting, op, SessionPcs
    <3> QED BY <3>1, DriversAssumption, FS_Subset DEF Selecting
  <2>2. /\ Cardinality(Selecting') <= Cardinality(Selecting)
        /\ Cardinality(Selecting') \in Nat /\ Cardinality(Selecting) \in Nat
    BY <2>1, FS_Subset, FS_CardinalityType
  <2>3. built' = built /\ built \in Nat /\ Cardinality(Drivers) \in Nat
    BY DriversAssumption, FS_CardinalityType DEF session, Context, TypeOK, SessionTypeOK
  <2> QED BY <2>2, <2>3 DEF BuildsFit
<1>5. SessionTypeOK'
  BY DEF session, SessionTypeOK, Context, TypeOK
<1>6. Accounted'
  <2>1. ASSUME NEW d \in Calls, left'[d] # 0
        PROVE  FailedOrOverlapped(d)'
    <3>1. FailedOrOverlapped(d) /\ overlapped' = overlapped
      BY <2>1 DEF Accounted, session
    <3>2. d # c => call'[d] = call[d]
      BY AtMost
    <3> QED BY <3>1, <3>2 DEF FailedOrOverlapped, StaysTold
  <2> QED BY <1>1, <2>1 DEF Accounted, session
<1> QED BY <1>2, <1>3, <1>4, <1>5, <1>6

LEMMA StartsKept ==
    ASSUME Context, StartsFit, NEW c \in Calls, NEW e \in CallType, call' = [call EXCEPT ![c] = e],
           e.pc # "idle", UNCHANGED <<load, started>>
    PROVE  StartsFit'
<1>1. Starting' \subseteq Starting /\ IsFiniteSet(Starting)
  <2>1. Starting' \subseteq Starting
    BY AtMost DEF Starting, op
  <2> QED BY <2>1, DriversAssumption, FS_Subset DEF Starting
<1>2. /\ Cardinality(Starting') <= Cardinality(Starting)
      /\ Cardinality(Starting') \in Nat /\ Cardinality(Starting) \in Nat
  BY <1>1, FS_Subset, FS_CardinalityType
<1>3. Cardinality(Calls) \in Nat /\ started \in Nat
  <2>1. Cardinality(Calls) \in Nat
    BY DriversAssumption, FS_CardinalityType
  <2> QED BY <2>1 DEF Context, TypeOK, StoreTypeOK, Runs, Earlier
<1> QED BY <1>2, <1>3 DEF StartsFit

\* The positions at which a call stands for a record, and a step of it matters to storage.
Keeping == {"saveRun", "saveBug", "deleteShot", "done", "answered"}

LEMMA StoreKept ==
    ASSUME Context, RunsKept, EachExcused, NEW c \in Calls, NEW e \in CallType,
           call' = [call EXCEPT ![c] = e], call[c].pc \notin Keeping, UNCHANGED <<load, store>>
    PROVE  RunsKept' /\ EachExcused' /\ StoreTypeOK'
<1>1. \A d \in Calls : call[d].pc \in Keeping => call'[d] = call[d]
  BY AtMost
<1>2. RunsKept'
  BY <1>1 DEF RunsKept, store, Keeping
<1>3. EachExcused'
  <2>1. op(c)' = op(c) /\ \A d \in Calls : op(d)' = op(d)
    BY DEF op
  <2> QED BY <1>1, <2>1 DEF EachExcused, Excuses, store, Keeping
<1>4. StoreTypeOK'
  BY DEF store, StoreTypeOK, Context, TypeOK
<1> QED BY <1>2, <1>3, <1>4

\* A step of call c to e that touches neither the session nor the records.
PlainStep(c, e) ==
  /\ Moves(c, e) /\ Searched(c, e, screen'.pos) /\ Shared(c)
  /\ call[c].pc \notin SessionPcs \cup Keeping
  /\ UNCHANGED <<session, store>>

LEMMA PlainKeeps ==
    ASSUME IInv, NEW c \in Calls, NEW e, PlainStep(c, e)
    PROVE  IInv' /\ Exact(call[c], e) /\ call' = [call EXCEPT ![c] = e]
<1>1. Context
  BY DEF IInv, Context
<1>2. /\ call' = [call EXCEPT ![c] = e] /\ e \in CallType /\ Sound(c, e) /\ Exact(call[c], e)
      /\ e.pc \notin SessionPcs \cup {"idle"}
  BY DEF PlainStep, Moves
<1>3. LoadOK'
  BY DEF IInv, LoadOK, PlainStep, Shared
<1>4. OrchestraTypeOK'
  <2>1. call' \in [Calls -> CallType]
    BY <1>1, <1>2, AtMost
  <2> QED BY <2>1, <1>1, Facts DEF Context, PlainStep, Shared, OrchestraTypeOK
<1>5. Locals'
  BY <1>1, <1>2, LocalsKept DEF PlainStep, Shared
<1>6. Searches'
  BY <1>1, <1>2, SearchesKept DEF IInv, PlainStep, Shared
<1>7. OnePlace' /\ InTurn' /\ Accounted' /\ BuildsFit' /\ SessionTypeOK'
  <2>1. StaysTold(c)
    BY DEF PlainStep, Keeping, StaysTold
  <2> QED BY <1>1, <1>2, <2>1, SessionKept DEF IInv, PlainStep, Shared
<1>8. StartsFit'
  BY <1>1, <1>2, StartsKept DEF IInv, PlainStep, Shared, store
<1>9. RunsKept' /\ EachExcused' /\ StoreTypeOK'
  BY <1>1, <1>2, StoreKept DEF IInv, PlainStep, Shared
<1> QED BY <1>2, <1>3, <1>4, <1>5, <1>6, <1>7, <1>8, <1>9 DEF IInv, TypeOK

\* A step of one call: the invariant holds after it, and it waits as it should.
Preserves(c) == IInv' /\ \E e : Exact(call[c], e) /\ call' = [call EXCEPT ![c] = e]

LEMMA OrchestraKeeps ==
    ASSUME IInv, NEW c \in Calls, OrchestraOnly(c)
    PROVE  Preserves(c)
<1>1. PICK e : Moves(c, e) /\ Searched(c, e, screen'.pos) /\ Shared(c)
  BY OrchestraStepMoves DEF OrchestraOnly, MovesOn, IInv, Context
<1>2. call[c].pc \in DriverCalls \cup {"sleep"}
  BY DEF OrchestraOnly, OrchestraStep, Wakes, SleepEnds, DriverFails, Poll, PollTree, PollAbsent,
     PollAppear, Classify, ReadPost, LastAbsent, Verdict, FindTarget, Probe, SearchSwipe, Search, Toward,
     Refind, HideKeyboard, Tap, Erase, Input, ListApps, LaunchOnDevice, BeforeTree, BeforeState,
     SingleCall, Reads, Acts, DriverCalls
<1>3. PlainStep(c, e)
  BY <1>1, <1>2 DEF PlainStep, OrchestraOnly, DriverCalls, SessionPcs, Keeping
<1> QED BY <1>3, PlainKeeps DEF Preserves

-----------------------------------------------------------------------------
(* A call arrives.                                                          *)

LEMMA ArrivingFacts ==
    ASSUME IInv, NEW c \in Calls, call[c].pc = "idle"
    PROVE  /\ Arriving(c) \in CallType /\ SameWait(call[c], Arriving(c))
           /\ call[c].result = "none" /\ TypesSafely(c, call[c]) /\ call[c] \in CallType
           /\ call[c].typed => op(c).tool # "type" \/ call[c].focused
           /\ Arriving(c).drv = active
<1>1. Context
  BY DEF IInv, Context
<1>2. now + load.budget \in Nat /\ active \in Drivers \cup {0}
  BY <1>1, Facts, LoadFacts DEF Context, IInv, TypeOK, SessionTypeOK
<1>3. call[c] \in CallType /\ call[c].result = "none" /\ TypesSafely(c, call[c])
  BY <1>1, Before
<1>4. Arriving(c) \in CallType
  BY <1>2, <1>3, SetBudget, SetDrv, Zenon DEF Arriving
<1>5. SameWait(call[c], Arriving(c)) /\ Arriving(c).drv = active
  BY <1>3 DEF Arriving, CallType, SameWait
<1> QED BY <1>3, <1>4, <1>5 DEF TypesSafely

\* The first position of a call that has its driver.
LEMMA BeginSound ==
    ASSUME IInv, NEW c \in Calls, call[c].pc = "idle", NEW pc \in Positions \ {"sleep", "done", "answered"},
           pc \in Seeking => op(c).tool \in {"tap", "type", "transition"},
           pc \in {"list", "launch"} => op(c).tool = "launch",
           pc = "record" => op(c).tool = "bug",
           pc = "build" => op(c).tool = "select",
           pc \notin OnBug \cup {"toward", "refind", "pollAbsent", "pollAppear", "deleteBug", "deleteShot",
                             "saveRun", "updateRun", "deleteRun", "erase", "input"}
    PROVE  LET e == [Arriving(c) EXCEPT !.pc = pc]
           IN  e \in CallType /\ Sound(c, e) /\ e.pc = pc /\ e.result = "none"
<1> DEFINE e == [Arriving(c) EXCEPT !.pc = pc]
<1>1. /\ Arriving(c) \in CallType /\ SameWait(call[c], Arriving(c))
      /\ call[c].result = "none" /\ TypesSafely(c, call[c]) /\ call[c] \in CallType
  BY ArrivingFacts
<1>2. e \in CallType
  BY <1>1, SetPc
<1>3. e.pc = pc /\ SameWait(call[c], e)
  BY <1>1 DEF CallType, SameWait
<1>4. Sound(c, call[c])
  BY DEF IInv, Locals
<1> HIDE DEF e
<1>5. Sound(c, e)
  BY <1>1, <1>3, <1>4 DEF SameWait, Sound, Suits, TypesSafely, Timed, Heading, Seeking, OnBug
<1> QED BY <1>1, <1>2, <1>3, <1>5 DEF SameWait, e

LEMMA ArrivalSafe ==
    ASSUME IInv, NEW c \in Calls, call[c].pc = "idle"
    PROVE  /\ Arriving(c) \in CallType /\ TypesSafely(c, Arriving(c)) /\ Arriving(c).result = "none"
           /\ Done(Arriving(c), "error") \in CallType /\ Sound(c, Done(Arriving(c), "error"))
           /\ Done(Arriving(c), "ok") \in CallType /\ Sound(c, Done(Arriving(c), "ok"))
           /\ Done(Arriving(c), "error").pc = "done" /\ Done(Arriving(c), "error").result = "error"
           /\ Done(Arriving(c), "ok").pc = "done" /\ Done(Arriving(c), "ok").result = "ok"
<1>1. /\ Arriving(c) \in CallType /\ SameWait(call[c], Arriving(c))
      /\ call[c].result = "none" /\ TypesSafely(c, call[c]) /\ call[c] \in CallType
  BY ArrivingFacts
<1>2. Arriving(c).pc = "idle"
  BY <1>1 DEF Arriving, CallType
<1>3. TypesSafely(c, Arriving(c)) /\ Arriving(c).result = "none"
  BY <1>1, <1>2 DEF SameWait, TypesSafely
<1>4. "ok" \in Results /\ "error" \in Results
  BY DEF Results
<1> QED BY <1>1, <1>3, <1>4, DoneSound

\* Where the tools that act on the device take an arriving call.
LEMMA DeviceToolArrives ==
    ASSUME IInv, NEW c \in Calls, DeviceTool(c)
    PROVE  MovesAside(c) /\ Shared(c) /\ call[c].pc = "idle" /\ UNCHANGED <<session, store>>
<1>1. Context /\ call[c].pc = "idle" /\ UNCHANGED <<session, store>>
  BY DEF IInv, Context, DeviceTool, TapTool, InputTextTool, InputTextAtTool, SingleCallTool,
     TapAndWaitTransitionTool, WaitForElementTool, LaunchAppTool, Arrives
<1>2. ASSUME NEW e \in CallType, Sound(c, e), call' = [call EXCEPT ![c] = e],
             e.pc \in {"find", "tap", "single", "before", "list", "done"}, e.result \in {"none", "ok", "error"}
      PROVE  MovesAside(c)
  <2>1. Moves(c, e) /\ Aside(e)
    BY <1>1, <1>2 DEF Moves, Exact, Aside, Heading, GivesUp, SessionPcs
  <2> QED BY <2>1 DEF MovesAside
<1>3. ASSUME NoDevice(c)
      PROVE  MovesAside(c)
  BY <1>1, <1>2, <1>3, ArrivalSafe DEF NoDevice
<1>4. ASSUME NEW pc \in {"find", "tap", "single", "before"}, OnDevice(c, pc),
             pc \in Seeking => op(c).tool \in {"tap", "type", "transition"}
      PROVE  MovesAside(c)
  <2>1. CASE NoDevice(c)
    BY <2>1, <1>3
  <2>2. CASE Begin(c, pc)
    <3> DEFINE e == [Arriving(c) EXCEPT !.pc = pc]
    <3>1. e \in CallType /\ Sound(c, e) /\ e.pc = pc /\ e.result = "none"
      BY <1>1, <1>4, BeginSound DEF Positions, DriverCalls, OnBug
    <3>2. call' = [call EXCEPT ![c] = e]
      BY <2>2 DEF Begin
    <3> HIDE DEF e
    <3> QED BY <1>2, <3>1, <3>2
  <2> QED BY <1>4, <2>1, <2>2 DEF OnDevice
<1>5. ASSUME LayerUnchanged
      PROVE  Shared(c)
  BY <1>1, <1>5, UntouchedShared, Facts DEF LayerUnchanged, Context
<1>6. CASE TapTool(c) \/ InputTextTool(c)
  BY <1>1, <1>4, <1>5, <1>6 DEF TapTool, InputTextTool, Arrives
<1>7. CASE InputTextAtTool(c) \/ SingleCallTool(c)
  BY <1>1, <1>4, <1>5, <1>7 DEF InputTextAtTool, SingleCallTool, Seeking
<1>8. CASE TapAndWaitTransitionTool(c)
  BY <1>1, <1>4, <1>5, <1>8 DEF TapAndWaitTransitionTool, Arrives
<1>9. CASE WaitForElementTool(c)
  <2>1. CASE NoDevice(c)
    BY <1>1, <1>3, <1>5, <1>9, <2>1 DEF WaitForElementTool
  <2>2. CASE ~NoDevice(c)
    <3> DEFINE e == Waiting(Arriving(c), "find", SoftTimeout)
    <3>1. /\ e \in CallType /\ Sound(c, e) /\ e.pc = "poll" /\ e.result = "none"
          /\ now <= e.deadline
      BY <1>1, ArrivalSafe, Bounds, WaitingSound DEF Context
    <3>2. call' = [call EXCEPT ![c] = e]
      BY <1>9, <2>2 DEF WaitForElementTool
    <3> HIDE DEF e
    <3>3. Moves(c, e) /\ Aside(e)
      BY <1>1, <3>1, <3>2 DEF Moves, Exact, Aside, Heading, GivesUp, SessionPcs
    <3> QED BY <1>1, <1>5, <1>9, <3>3 DEF WaitForElementTool, MovesAside
  <2> QED BY <2>1, <2>2
<1>10. CASE LaunchAppTool(c)
  <2>1. op(c).tool = "launch" /\ op(c).app \in Apps
    BY <1>1, <1>10, LoadFacts DEF LaunchAppTool, Arrives, Context
  <2>2. launched' \in [Drivers -> SUBSET Apps]
    <3>1. launched' \in {launched, [launched EXCEPT ![active] = Claimed(active, op(c))]}
      BY <1>10 DEF LaunchAppTool
    <3>2. launched \in [Drivers -> SUBSET Apps] /\ active \in Drivers \cup {0}
      BY Facts DEF IInv, TypeOK, SessionTypeOK
    <3>3. active \in Drivers => Claimed(active, op(c)) \in SUBSET Apps
      BY <2>1, <3>2 DEF Claimed
    <3> QED BY <3>1, <3>2, <3>3
  <2>3. Shared(c)
    BY <1>1, <1>10, <2>2, UntouchedShared, Facts DEF LaunchAppTool, device, Context
  <2>4. CASE NoDevice(c)
    BY <1>1, <1>3, <2>3, <2>4
  <2>5. CASE ~NoDevice(c)
    <3> DEFINE listing == [Arriving(c) EXCEPT !.pc = "list"]
    <3>1. call' = [call EXCEPT ![c] = EnterLaunch(Arriving(c), op(c))]
      BY <1>10, <2>5 DEF LaunchAppTool
    <3>2. EnterLaunch(Arriving(c), op(c)) \in {Done(Arriving(c), "ok"), listing}
      BY DEF EnterLaunch
    <3>3. listing \in CallType /\ Sound(c, listing) /\ listing.pc = "list" /\ listing.result = "none"
      BY <1>1, <2>1, BeginSound DEF Positions, DriverCalls, OnBug, Seeking
    <3> HIDE DEF listing
    <3> QED BY <1>1, <1>2, <2>3, <3>1, <3>2, <3>3, ArrivalSafe
  <2> QED BY <2>4, <2>5
<1> QED BY <1>1, <1>6, <1>7, <1>8, <1>9, <1>10 DEF DeviceTool

LEMMA DeviceToolKeeps ==
    ASSUME IInv, NEW c \in Calls, DeviceTool(c)
    PROVE  Preserves(c)
<1>1. MovesOn(c) /\ Shared(c) /\ call[c].pc = "idle" /\ UNCHANGED <<session, store>>
  BY DeviceToolArrives, AsideMovesOn
<1>2. PICK e : Moves(c, e) /\ Searched(c, e, screen'.pos)
  BY <1>1 DEF MovesOn
<1>3. PlainStep(c, e)
  BY <1>1, <1>2 DEF PlainStep, SessionPcs, Keeping
<1> QED BY <1>3, PlainKeeps DEF Preserves

-----------------------------------------------------------------------------
(* The records of the test session.                                         *)

\* A step on the records leaves the layer and the session as they were.
LEMMA RecordStepKeeps ==
    ASSUME IInv, NEW c \in Calls, MovesAside(c), StaysTold(c), call[c].pc \notin SessionPcs, LayerUnchanged,
           UNCHANGED session, StartsFit', RunsKept', EachExcused', StoreTypeOK'
    PROVE  Preserves(c)
<1>1. Context
  BY DEF IInv, Context
<1>2. PICK e : Moves(c, e) /\ Aside(e)
  BY DEF MovesAside
<1>3. /\ call' = [call EXCEPT ![c] = e] /\ e \in CallType /\ Sound(c, e) /\ Exact(call[c], e)
      /\ e.pc \notin SessionPcs \cup {"idle"}
  BY <1>2 DEF Moves
<1>4. LoadOK'
  BY DEF IInv, LoadOK, LayerUnchanged
<1>5. OrchestraTypeOK'
  <2>1. call' \in [Calls -> CallType]
    BY <1>1, <1>3, AtMost
  <2> QED BY <2>1, <1>1 DEF Context, TypeOK, LayerUnchanged, OrchestraTypeOK
<1>6. Locals'
  BY <1>1, <1>3, LocalsKept DEF LayerUnchanged
<1>7. Searches'
  <2>1. Searched(c, e, screen'.pos)
    BY <1>2 DEF Searched, Aside, Heading
  <2> QED BY <1>1, <1>3, <2>1, SearchesKept DEF IInv, LayerUnchanged
<1>8. OnePlace' /\ InTurn' /\ Accounted' /\ BuildsFit' /\ SessionTypeOK'
  BY <1>1, <1>3, SessionKept DEF IInv, LayerUnchanged
<1> QED BY <1>3, <1>4, <1>5, <1>6, <1>7, <1>8 DEF IInv, TypeOK, Preserves

\* Such a step of a call that moves on with its wait as it was.
LEMMA GoesOn ==
    ASSUME Context, NEW c \in Calls, NEW e \in CallType, call' = [call EXCEPT ![c] = e],
           SameWait(call[c], e), Suits(c, e), call[c].result = "none",
           e.pc \in OnBug \cup {"record", "saveRun", "updateRun", "deleteRun", "deleteBug", "deleteShot"}
    PROVE  MovesAside(c)
<1>1. TypesSafely(c, e) /\ Timed(e)
  BY Before DEF SameWait, Sound, TypesSafely, Timed, OnBug
<1>2. Moves(c, e) /\ Aside(e)
  BY <1>1 DEF Moves, Exact, Aside, Heading, GivesUp, SessionPcs, Sound, OnBug, SameWait
<1> QED BY <1>2 DEF MovesAside

\* A call arrives at a tool on records that goes on with e.
LEMMA ArrivesOnRecords ==
    ASSUME IInv, NEW c \in Calls, NEW e, call[c].pc = "idle", call' = [call EXCEPT ![c] = e],
           \/ e \in {Done(Arriving(c), "ok"), Done(Arriving(c), "error")}
           \/ e \in CallType /\ SameWait(call[c], e) /\ Suits(c, e)
              /\ e.pc \in {"record", "saveRun", "updateRun", "deleteRun", "deleteBug"}
    PROVE  MovesAside(c)
<1>1. Context /\ call[c].result = "none"
  BY ArrivingFacts DEF IInv, Context
<1>2. CASE e \in {Done(Arriving(c), "ok"), Done(Arriving(c), "error")}
  <2>1. e \in CallType /\ Sound(c, e) /\ e.pc = "done" /\ e.result \in {"ok", "error"}
    BY <1>2, ArrivalSafe
  <2>2. Moves(c, e) /\ Aside(e)
    BY <2>1 DEF Moves, Exact, Aside, Heading, GivesUp, SessionPcs
  <2> QED BY <2>2 DEF MovesAside
<1>3. CASE e \notin {Done(Arriving(c), "ok"), Done(Arriving(c), "error")}
  BY <1>1, <1>3, GoesOn
<1> QED BY <1>2, <1>3

LEMMA OrphansKept ==
    ASSUME Context, EachExcused, NEW c \in Calls, NEW e \in CallType, call' = [call EXCEPT ![c] = e],
           call[c].pc \notin {"saveBug", "deleteShot", "done", "answered"}, UNCHANGED <<load, bugFiles, shotFiles>>
    PROVE  EachExcused'
<1>1. \A d \in Calls : call[d].pc \in {"saveBug", "deleteShot", "done", "answered"} => call'[d] = call[d]
  BY AtMost
<1>2. \A d \in Calls : op(d)' = op(d)
  BY DEF op
<1> QED BY <1>1, <1>2 DEF EachExcused, Excuses

\* What a call that arrives to save a run works on.
LEMMA SavingArrives ==
    ASSUME IInv, NEW c \in Calls, call[c].pc = "idle", run # 0
    PROVE  LET e == [Arriving(c) EXCEPT !.pc = "saveRun", !.held = run]
           IN  /\ e \in CallType /\ SameWait(call[c], e) /\ Suits(c, e) /\ e.pc = "saveRun" /\ e.held = run
<1> DEFINE e == [Arriving(c) EXCEPT !.pc = "saveRun", !.held = run]
<1>1. Arriving(c) \in CallType /\ SameWait(call[c], Arriving(c))
  BY ArrivingFacts
<1>2. run \in Runs /\ run \in Nat
  BY DEF IInv, TypeOK, StoreTypeOK, Runs
<1>3. e \in CallType
  BY <1>1, <1>2, PositionFacts, SetPc, SetHeld, Zenon
<1>4. SameWait(call[c], e) /\ e.pc = "saveRun" /\ e.held = run
  BY <1>1 DEF CallType, SameWait
<1>5. Sound(c, call[c])
  BY DEF IInv, Locals
<1> HIDE DEF e
<1>6. Suits(c, e)
  BY <1>2, <1>4, <1>5 DEF SameWait, Sound, Suits, Heading, Seeking, OnBug
<1> QED BY <1>3, <1>4, <1>6 DEF e

LEMMA StartRunKeeps ==
    ASSUME IInv, NEW c \in Calls, StartRun(c), LayerUnchanged, UNCHANGED session
    PROVE  Preserves(c)
<1> DEFINE e == IF run = 0 THEN Done(Arriving(c), "ok")
                ELSE [Arriving(c) EXCEPT !.pc = "saveRun", !.held = run]
<1>1. /\ call[c].pc = "idle" /\ op(c).tool = "start" /\ call' = [call EXCEPT ![c] = e]
      /\ started' = started + 1 /\ run' = started + 1 /\ UNCHANGED <<findings, files>>
  BY DEF StartRun, Arrives
<1>2. /\ run = 0 => e = Done(Arriving(c), "ok")
      /\ run # 0 => e \in CallType /\ SameWait(call[c], e) /\ Suits(c, e) /\ e.pc = "saveRun" /\ e.held = run
  BY <1>1, SavingArrives
<1>3. Context /\ e \in CallType /\ e.pc \in {"saveRun", "done"}
  BY <1>1, <1>2, ArrivalSafe DEF IInv, Context
<1> HIDE DEF e
<1>4. MovesAside(c)
  BY <1>1, <1>2, ArrivesOnRecords
<1>5. StartsFit' /\ started + 1 <= Cardinality(Calls)
  <2>1. c \in Starting /\ IsFiniteSet(Starting)
    <3>1. Starting \subseteq Calls
      BY DEF Starting
    <3> QED BY <1>1, <3>1, DriversAssumption, FS_Subset DEF Starting
  <2>2. Starting' \subseteq Starting \ {c}
    BY <1>1, <1>3, AtMost DEF Starting, op, LayerUnchanged
  <2>3. /\ IsFiniteSet(Starting \ {c}) /\ Cardinality(Starting \ {c}) = Cardinality(Starting) - 1
    BY <2>1, FS_RemoveElement
  <2>4. /\ Cardinality(Starting') <= Cardinality(Starting \ {c})
        /\ Cardinality(Starting') \in Nat /\ Cardinality(Starting) \in Nat
    BY <2>1, <2>2, <2>3, FS_Subset, FS_CardinalityType
  <2>5. Cardinality(Calls) \in Nat /\ started \in Nat
    <3>1. Cardinality(Calls) \in Nat
      BY DriversAssumption, FS_CardinalityType
    <3> QED BY <3>1 DEF IInv, TypeOK, StoreTypeOK, Runs, Earlier
  <2>6. Cardinality(Starting \ {c}) \in Nat
    BY <2>3, FS_CardinalityType
  <2> QED BY <1>1, <2>3, <2>4, <2>5, <2>6 DEF StartsFit, IInv
<1>6. started \in Nat /\ Cardinality(Calls) \in Nat
  <2>1. Cardinality(Calls) \in Nat
    BY DriversAssumption, FS_CardinalityType
  <2> QED BY <2>1 DEF IInv, TypeOK, StoreTypeOK, Runs, Earlier
<1>7. StoreTypeOK'
  <2>1. started + 1 \in Runs
    BY <1>5, <1>6 DEF Runs, Earlier
  <2> QED BY <1>1, <2>1 DEF IInv, TypeOK, StoreTypeOK, files
<1>8. RunsKept'
  <2> SUFFICES ASSUME NEW r \in 1 .. started', r # run', r \notin (runFiles \cup lostRuns)'
               PROVE  \E d \in Calls : call'[d].pc = "saveRun" /\ call'[d].held = r
    BY DEF RunsKept
  <2>1. r \in 1 .. started /\ r \notin runFiles \cup lostRuns
    BY <1>1, <1>6 DEF files
  <2>2. CASE r = run
    <3>1. call'[c] = e
      BY <1>1, <1>3, AtMost
    <3>2. run # 0
      BY <1>6, <2>1, <2>2
    <3> QED BY <1>2, <3>1, <3>2, <2>2
  <2>3. CASE r # run
    <3>1. PICK d \in Calls : call[d].pc = "saveRun" /\ call[d].held = r
      BY <2>1, <2>3 DEF IInv, RunsKept
    <3> QED BY <1>1, <1>3, <3>1, AtMost
  <2> QED BY <2>2, <2>3
<1>9. EachExcused'
  BY <1>1, <1>3, OrphansKept DEF IInv, files, LayerUnchanged
<1> QED BY <1>1, <1>4, <1>5, <1>7, <1>8, <1>9, RecordStepKeeps DEF SessionPcs, StaysTold

LEMMA FinishRunKeeps ==
    ASSUME IInv, NEW c \in Calls, FinishRun(c), LayerUnchanged, UNCHANGED session
    PROVE  Preserves(c)
<1> DEFINE e == IF run = 0 THEN Done(Arriving(c), "error")
                ELSE [Arriving(c) EXCEPT !.pc = "saveRun", !.held = run]
<1>1. /\ call[c].pc = "idle" /\ call' = [call EXCEPT ![c] = e]
      /\ run' = 0 /\ UNCHANGED <<started, findings, files>>
  BY DEF FinishRun, Arrives
<1>2. /\ run = 0 => e = Done(Arriving(c), "error")
      /\ run # 0 => e \in CallType /\ SameWait(call[c], e) /\ Suits(c, e) /\ e.pc = "saveRun" /\ e.held = run
  BY <1>1, SavingArrives
<1>3. Context /\ e \in CallType /\ e.pc \in {"saveRun", "done"}
  BY <1>1, <1>2, ArrivalSafe DEF IInv, Context
<1> HIDE DEF e
<1>4. MovesAside(c)
  BY <1>1, <1>2, ArrivesOnRecords
<1>5. StartsFit'
  BY <1>1, <1>3, StartsKept DEF IInv, LayerUnchanged
<1>6. StoreTypeOK'
  BY <1>1 DEF IInv, TypeOK, StoreTypeOK, files
<1>7. RunsKept'
  <2> SUFFICES ASSUME NEW r \in 1 .. started, r \notin runFiles \cup lostRuns
               PROVE  \E d \in Calls : call'[d].pc = "saveRun" /\ call'[d].held = r
    BY <1>1 DEF RunsKept, files
  <2>1. CASE r = run
    <3>1. call'[c] = e
      BY <1>1, <1>3, AtMost
    <3>2. started \in Nat
      BY DEF IInv, TypeOK, StoreTypeOK, Runs
    <3>3. run # 0
      BY <2>1, <3>2
    <3> QED BY <1>2, <2>1, <3>1, <3>3
  <2>2. CASE r # run
    <3>1. PICK d \in Calls : call[d].pc = "saveRun" /\ call[d].held = r
      BY <2>2 DEF IInv, RunsKept
    <3> QED BY <1>1, <1>3, <3>1, AtMost
  <2> QED BY <2>1, <2>2
<1>8. EachExcused'
  BY <1>1, <1>3, OrphansKept DEF IInv, files, LayerUnchanged
<1> QED BY <1>1, <1>4, <1>5, <1>6, <1>7, <1>8, RecordStepKeeps DEF SessionPcs, StaysTold

\* A call on records that ends, well or badly.
LEMMA RepliesFacts ==
    ASSUME IInv, NEW c \in Calls, NEW ok \in BOOLEAN, Replies(c, ok)
    PROVE  /\ MovesAside(c) /\ Context
           /\ \E e \in CallType :
                /\ call' = [call EXCEPT ![c] = e] /\ e.pc = "done" /\ e.bug = call[c].bug
                /\ ~ok => e.result = "error"
<1> DEFINE result == IF ok THEN "ok" ELSE "error"
           e == Done(call[c], result)
<1>1. result \in Results \ {"timeout", "notfound"} /\ (~ok => result = "error")
  BY DEF Results
<1>2. Context
  BY DEF IInv, Context
<1>3. Finish(c, result) /\ call' = [call EXCEPT ![c] = e]
  BY DEF Replies, Finish
<1>4. MovesAside(c)
  BY <1>1, <1>2, <1>3, FinishMoves
<1>5. e \in CallType /\ e.pc = "done" /\ e.result = result /\ e.bug = call[c].bug
  BY <1>1, <1>2, Before, DoneTyped
<1> HIDE DEF e, result
<1> QED BY <1>1, <1>2, <1>3, <1>4, <1>5

\* A step that ends a call on a run, whose record is then in storage or given up.
LEMMA RunWorkKeeps ==
    ASSUME IInv, NEW c \in Calls, SaveRun(c) \/ UpdateRunSummary(c) \/ DeleteRun(c),
           LayerUnchanged, UNCHANGED session
    PROVE  Preserves(c)
<1>1. PICK ok \in BOOLEAN : Replies(c, ok)
  BY DEF SaveRun, UpdateRunSummary, DeleteRun
<1>2. Context /\ MovesAside(c)
  BY <1>1, RepliesFacts
<1>3. PICK e \in CallType : /\ call' = [call EXCEPT ![c] = e] /\ e.pc = "done"
                            /\ ~ok => e.result = "error"
  BY <1>1, RepliesFacts, Zenon
<1>4. /\ call[c].pc \in {"saveRun", "updateRun", "deleteRun"}
      /\ UNCHANGED <<run, started, findings, bugFiles, shotFiles>>
  BY DEF SaveRun, UpdateRunSummary, DeleteRun, StoreCall
<1>5. call[c].held \in Runs
  BY <1>2, <1>4, Before DEF Sound, Suits
<1>6. /\ runFiles' \cup lostRuns' \subseteq runFiles \cup lostRuns \cup {call[c].held}
      /\ runFiles \cup lostRuns \subseteq runFiles' \cup lostRuns'
      /\ call[c].pc = "saveRun" => call[c].held \in runFiles' \cup lostRuns'
  BY DEF SaveRun, UpdateRunSummary, DeleteRun, StoreCall
<1>7. StartsFit'
  BY <1>2, <1>3, <1>4, StartsKept DEF IInv, LayerUnchanged
<1>8. StoreTypeOK'
  BY <1>4, <1>5, <1>6 DEF IInv, TypeOK, StoreTypeOK
<1>9. RunsKept'
  <2> SUFFICES ASSUME NEW r \in 1 .. started, r # run, r \notin runFiles' \cup lostRuns'
               PROVE  \E d \in Calls : call'[d].pc = "saveRun" /\ call'[d].held = r
    BY <1>4 DEF RunsKept
  <2>1. PICK d \in Calls : call[d].pc = "saveRun" /\ call[d].held = r
    BY <1>6 DEF IInv, RunsKept
  <2>2. d # c
    BY <1>4, <1>6, <2>1
  <2> QED BY <1>2, <1>3, <2>1, <2>2, AtMost
<1>10. EachExcused'
  BY <1>2, <1>3, <1>4, OrphansKept DEF IInv, LayerUnchanged
<1> QED BY <1>2, <1>4, <1>7, <1>8, <1>9, <1>10, RecordStepKeeps DEF SessionPcs, StaysTold

\* A step that changes the record of the call only.
LEMMA SameStoreKeeps ==
    ASSUME IInv, NEW c \in Calls, NEW e \in CallType, call' = [call EXCEPT ![c] = e], e.pc # "idle",
           MovesAside(c), call[c].pc \notin SessionPcs \cup Keeping, LayerUnchanged, UNCHANGED <<session, store>>
    PROVE  Preserves(c)
<1>1. Context
  BY DEF IInv, Context
<1>2. StartsFit'
  BY <1>1, StartsKept DEF IInv, LayerUnchanged, store
<1>3. RunsKept' /\ EachExcused' /\ StoreTypeOK'
  BY <1>1, StoreKept DEF IInv, LayerUnchanged
<1> QED BY <1>2, <1>3, RecordStepKeeps DEF Keeping, StaysTold

LEMMA ReadCurrentKeeps ==
    ASSUME IInv, NEW c \in Calls, ReadCurrent(c), LayerUnchanged, UNCHANGED session
    PROVE  Preserves(c)
<1> DEFINE goes == [Arriving(c) EXCEPT !.pc = "record"]
           e == IF run = 0 THEN Done(Arriving(c), "error") ELSE goes
<1>1. call[c].pc = "idle" /\ op(c).tool = "bug" /\ call' = [call EXCEPT ![c] = e] /\ UNCHANGED store
  BY DEF ReadCurrent, Arrives
<1>2. goes \in CallType /\ Sound(c, goes) /\ goes.pc = "record"
  BY <1>1, BeginSound DEF Positions, DriverCalls, OnBug, Seeking
<1>3. SameWait(call[c], goes)
  <2>1. Arriving(c) \in CallType /\ SameWait(call[c], Arriving(c))
    BY <1>1, ArrivingFacts
  <2> QED BY <2>1 DEF CallType, SameWait
<1> HIDE DEF goes
<1>4. e \in {Done(Arriving(c), "error"), goes}
  OBVIOUS
<1> HIDE DEF e
<1>5. e \in CallType /\ e.pc # "idle"
  BY <1>1, <1>2, <1>4, ArrivalSafe
<1>6. MovesAside(c)
  BY <1>1, <1>2, <1>3, <1>4, ArrivesOnRecords DEF Sound
<1> QED BY <1>1, <1>5, <1>6, SameStoreKeeps DEF SessionPcs, Keeping

LEMMA ReadRecordsKeeps ==
    ASSUME IInv, NEW c \in Calls, ReadRecords(c), LayerUnchanged, UNCHANGED session
    PROVE  Preserves(c)
<1>1. PICK ok \in BOOLEAN : call' = [call EXCEPT ![c] = Done(Arriving(c), IF ok THEN "ok" ELSE "error")]
  BY DEF ReadRecords
<1> DEFINE e == Done(Arriving(c), IF ok THEN "ok" ELSE "error")
<1>2. call[c].pc = "idle" /\ call' = [call EXCEPT ![c] = e] /\ UNCHANGED store
  BY <1>1 DEF ReadRecords, Arrives
<1>3. e \in {Done(Arriving(c), "ok"), Done(Arriving(c), "error")}
  OBVIOUS
<1> HIDE DEF e
<1>4. e \in CallType /\ e.pc # "idle"
  BY <1>2, <1>3, ArrivalSafe
<1>5. MovesAside(c)
  BY <1>2, <1>3, ArrivesOnRecords
<1> QED BY <1>2, <1>4, <1>5, SameStoreKeeps DEF SessionPcs, Keeping

LEMMA LoadRecordKeeps ==
    ASSUME IInv, NEW c \in Calls, LoadRecord(c), LayerUnchanged, UNCHANGED session
    PROVE  Preserves(c)
<1> DEFINE bug == [Arriving(c) EXCEPT !.pc = "deleteBug", !.bug = op(c).record]
           stored == [Arriving(c) EXCEPT !.pc = op(c).tool, !.held = op(c).record]
<1>1. /\ call[c].pc = "idle" /\ UNCHANGED store
      /\ op(c).tool \in {"updateRun", "deleteRun", "deleteBug"}
  BY DEF LoadRecord, Arrives
<1>2. /\ Arriving(c) \in CallType /\ SameWait(call[c], Arriving(c)) /\ Sound(c, call[c])
      /\ runFiles \subseteq Runs /\ bugFiles \subseteq Runs \X (Nat \ {0}) /\ Runs \subseteq Nat
  BY <1>1, ArrivingFacts DEF IInv, Locals, TypeOK, StoreTypeOK, Runs
<1>3. ASSUME NEW e \in CallType, call' = [call EXCEPT ![c] = e], SameWait(call[c], e), Suits(c, e),
             e.pc \in {"updateRun", "deleteRun", "deleteBug"}
      PROVE  Preserves(c)
  <2>1. MovesAside(c)
    BY <1>1, <1>3, ArrivesOnRecords
  <2> QED BY <1>1, <1>3, <2>1, SameStoreKeeps DEF SessionPcs, Keeping
<1>4. CASE op(c).tool = "deleteBug" /\ op(c).record \in bugFiles
  <2>1. call' = [call EXCEPT ![c] = bug]
    BY <1>4 DEF LoadRecord
  <2>2. op(c).record \in (Nat \X Nat) \cup {None} /\ op(c).record \in Runs \X (Nat \ {0})
    BY <1>2, <1>4
  <2>3. bug \in CallType
    BY <1>2, <2>2, PositionFacts, SetPc, SetBug, Zenon
  <2>4. bug.pc = "deleteBug" /\ SameWait(call[c], bug) /\ bug.bug = op(c).record
    BY <1>2 DEF CallType, SameWait
  <2> HIDE DEF bug
  <2>5. Suits(c, bug)
    BY <1>2, <1>4, <2>2, <2>4 DEF SameWait, Sound, Suits, Heading, Seeking, OnBug
  <2> QED BY <1>3, <2>1, <2>3, <2>4, <2>5
<1>5. CASE op(c).tool # "deleteBug" /\ op(c).record \in runFiles
  <2>1. call' = [call EXCEPT ![c] = stored]
    BY <1>5 DEF LoadRecord
  <2>2. op(c).record \in Nat /\ op(c).record \in Runs /\ op(c).tool \in Positions
    BY <1>1, <1>2, <1>5 DEF Positions
  <2>3. stored \in CallType
    BY <1>2, <2>2, SetPc, SetHeld, Zenon
  <2>4. stored.pc = op(c).tool /\ SameWait(call[c], stored) /\ stored.held = op(c).record
    BY <1>2 DEF CallType, SameWait
  <2> HIDE DEF stored
  <2>5. Suits(c, stored)
    BY <1>1, <1>2, <1>5, <2>2, <2>4 DEF SameWait, Sound, Suits, Heading, Seeking, OnBug
  <2> QED BY <1>1, <1>3, <1>5, <2>1, <2>3, <2>4, <2>5
<1>6. CASE call' = [call EXCEPT ![c] = Done(Arriving(c), "error")]
  <2>1. MovesAside(c)
    BY <1>1, <1>6, ArrivesOnRecords
  <2>2. Done(Arriving(c), "error") \in CallType /\ Done(Arriving(c), "error").pc # "idle"
    BY <1>1, ArrivalSafe
  <2> QED BY <1>1, <1>6, <2>1, <2>2, SameStoreKeeps DEF SessionPcs, Keeping
<1> QED BY <1>4, <1>5, <1>6 DEF LoadRecord

\* report_bug: the bug is recorded under whatever run is active now.
LEMMA RecordBugKeeps ==
    ASSUME IInv, NEW c \in Calls, RecordBug(c), LayerUnchanged, UNCHANGED session
    PROVE  Preserves(c)
<1>1. Context /\ call[c].pc = "record" /\ UNCHANGED <<run, started, files>>
  BY DEF IInv, Context, RecordBug
<1>2. /\ Sound(c, call[c]) /\ call[c] \in CallType /\ call[c].result = "none" /\ op(c).tool = "bug"
      /\ findings \in [Runs -> Nat] /\ run \in Runs \cup {0} /\ Runs \subseteq Nat
  BY <1>1, Before DEF Sound, Suits, OnBug, IInv, TypeOK, StoreTypeOK, Runs
<1>3. CASE run = 0
  <2> DEFINE e == Done(call[c], "error")
  <2>1. Finish(c, "error") /\ "error" \in Results /\ UNCHANGED findings
    BY <1>3 DEF RecordBug, Results
  <2>2. MovesAside(c)
    BY <1>1, <2>1, FinishMoves
  <2>3. e \in CallType /\ e.pc = "done" /\ call' = [call EXCEPT ![c] = e]
    BY <1>2, <2>1, DoneTyped DEF Finish
  <2> HIDE DEF e
  <2> QED BY <1>1, <2>1, <2>2, <2>3, SameStoreKeeps DEF SessionPcs, Keeping, store, files
<1>4. CASE run # 0
  <2> DEFINE n == findings[run] + 1
             e == [call[c] EXCEPT !.pc = "evidence", !.bug = <<run, n>>]
  <2>1. /\ findings' = [findings EXCEPT ![run] = n] /\ run \in Runs /\ run \in Nat
        /\ n \in Nat \ {0} /\ <<run, n>> \in (Nat \X Nat) \cup {None} /\ <<run, n>> \in Runs \X (Nat \ {0})
    BY <1>2, <1>4 DEF RecordBug
  <2>2. call' = [call EXCEPT ![c] = e]
    <3>1. findings'[run] = n
      BY <1>2, <2>1
    <3>2. call' = [call EXCEPT ![c].pc = "evidence", ![c].bug = <<run, findings'[run]>>]
      BY <1>4 DEF RecordBug
    <3> HIDE DEF n
    <3> QED BY <1>1, <3>1, <3>2, Before
  <2> HIDE DEF n
  <2>3. e \in CallType
    BY <1>2, <2>1, PositionFacts, SetPc, SetBug, Zenon
  <2>4. e.pc = "evidence" /\ SameWait(call[c], e) /\ e.bug = <<run, n>>
    BY <1>2 DEF CallType, SameWait
  <2> HIDE DEF e
  <2>5. Suits(c, e)
    BY <1>1, <1>2, <2>1, <2>4 DEF SameWait, Sound, Suits, Heading, Seeking, OnBug
  <2>6. MovesAside(c)
    BY <1>1, <1>2, <2>2, <2>3, <2>4, <2>5, GoesOn DEF OnBug
  <2>7. StartsFit'
    BY <1>1, <2>2, <2>3, <2>4, StartsKept DEF IInv, LayerUnchanged
  <2>8. StoreTypeOK'
    <3>1. findings' \in [Runs -> Nat]
      BY <1>2, <2>1
    <3> QED BY <1>1, <3>1 DEF IInv, TypeOK, StoreTypeOK, files
  <2>9. RunsKept'
    <3>1. \A d \in Calls : call[d].pc = "saveRun" => call'[d] = call[d]
      BY <1>1, <2>2, <2>3, AtMost
    <3> QED BY <1>1, <3>1 DEF IInv, RunsKept, files
  <2>10. EachExcused'
    BY <1>1, <2>2, <2>3, OrphansKept DEF IInv, LayerUnchanged, files
  <2> QED BY <1>1, <2>6, <2>7, <2>8, <2>9, <2>10, RecordStepKeeps DEF SessionPcs, StaysTold
<1> QED BY <1>3, <1>4

\* A call that works on a bug, between its driver and storage.
LEMMA BugWork ==
    ASSUME IInv, NEW c \in Calls, call[c].pc \in OnBug \cup {"deleteBug", "deleteShot"}
    PROVE  /\ Context /\ Sound(c, call[c]) /\ call[c] \in CallType /\ call[c].result = "none"
           /\ call[c].bug \in Runs \X (Nat \ {0}) /\ op(c).tool \in {"bug", "deleteBug"}
<1>1. Context
  BY DEF IInv, Context
<1> QED BY <1>1, Before DEF Sound, Suits, OnBug

LEMMA GotoOnBug ==
    ASSUME IInv, NEW c \in Calls, NEW pc \in OnBug \cup {"deleteShot"}, Goto(c, pc),
           \/ call[c].pc \in OnBug /\ pc \in OnBug
           \/ call[c].pc = "deleteBug" /\ pc = "deleteShot"
    PROVE  /\ MovesAside(c)
           /\ \E e \in CallType : call' = [call EXCEPT ![c] = e] /\ e.pc = pc /\ e.bug = call[c].bug
<1> DEFINE e == [call[c] EXCEPT !.pc = pc]
<1>1. /\ Context /\ Sound(c, call[c]) /\ call[c] \in CallType /\ call[c].result = "none"
      /\ call[c].bug \in Runs \X (Nat \ {0})
  BY BugWork
<1>2. e \in CallType
  BY <1>1, PositionFacts, SetPc DEF OnBug, DriverCalls
<1>3. e.pc = pc /\ SameWait(call[c], e) /\ e.bug = call[c].bug
  BY <1>1 DEF CallType, SameWait
<1>4. call' = [call EXCEPT ![c] = e]
  BY <1>1, Before DEF Goto
<1> HIDE DEF e
<1>5. Suits(c, e)
  BY <1>1, <1>3 DEF SameWait, Sound, Suits, Heading, Seeking, OnBug
<1>6. MovesAside(c)
  BY <1>1, <1>2, <1>3, <1>4, <1>5, GoesOn
<1> QED BY <1>2, <1>3, <1>4, <1>6

LEMMA EvidenceKeeps ==
    ASSUME IInv, NEW c \in Calls, FindDevice(c) \/ Screenshot(c), LayerUnchanged, UNCHANGED session
    PROVE  Preserves(c)
<1>1. UNCHANGED store
  BY DEF FindDevice, Screenshot, StoreCall, store, files
<1>2. CASE Screenshot(c)
  <2>1. call[c].pc = "screenshot" /\ Goto(c, "saveShot")
    BY <1>2 DEF Screenshot, StoreCall
  <2>2. /\ MovesAside(c)
        /\ \E e \in CallType : call' = [call EXCEPT ![c] = e] /\ e.pc = "saveShot"
    BY <2>1, GotoOnBug DEF OnBug
  <2> QED BY <1>1, <2>1, <2>2, SameStoreKeeps DEF SessionPcs, Keeping
<1>3. CASE FindDevice(c)
  <2> DEFINE pc == IF active = 0 THEN "saveBug" ELSE "screenshot"
             e == [call[c] EXCEPT !.pc = pc, !.drv = active]
  <2>1. /\ call[c].pc = "evidence" /\ Context /\ Sound(c, call[c]) /\ call[c] \in CallType
        /\ call[c].result = "none" /\ call[c].bug \in Runs \X (Nat \ {0})
    BY <1>3, BugWork DEF FindDevice, StoreCall, OnBug
  <2>2. pc \in Positions /\ active \in Drivers \cup {0} /\ pc \in OnBug
    BY DEF Positions, DriverCalls, OnBug, IInv, TypeOK, SessionTypeOK
  <2>3. call' = [call EXCEPT ![c] = e]
    <3>1. call' = [call EXCEPT ![c].pc = pc, ![c].drv = active]
      BY <1>3 DEF FindDevice
    <3> HIDE DEF pc
    <3> QED BY <2>1, <3>1, Before
  <2> HIDE DEF pc
  <2>4. e \in CallType
    BY <2>1, <2>2, SetPc, SetDrv, Zenon
  <2>5. e.pc = pc /\ SameWait(call[c], e) /\ e.bug = call[c].bug
    BY <2>1 DEF CallType, SameWait
  <2> HIDE DEF e
  <2>6. Suits(c, e)
    BY <2>1, <2>2, <2>5 DEF SameWait, Sound, Suits, Heading, Seeking, OnBug
  <2>7. MovesAside(c)
    BY <2>1, <2>2, <2>3, <2>4, <2>5, <2>6, GoesOn
  <2> QED BY <1>1, <2>1, <2>2, <2>3, <2>4, <2>5, <2>7, SameStoreKeeps DEF SessionPcs, Keeping, OnBug
<1> QED BY <1>2, <1>3

\* What a step of a call on a bug does to the runs: nothing.
LEMMA BugStepKeeps ==
    ASSUME IInv, NEW c \in Calls, NEW e \in CallType, call' = [call EXCEPT ![c] = e], e.pc # "idle", MovesAside(c),
           call[c].pc \in OnBug \cup {"deleteBug", "deleteShot"}, LayerUnchanged,
           UNCHANGED <<session, run, started, findings, runFiles, lostRuns>>,
           bugFiles' \cup shotFiles' \subseteq bugFiles \cup shotFiles \cup {call[c].bug},
           EachExcused'
    PROVE  Preserves(c)
<1>1. Context /\ call[c].bug \in Runs \X (Nat \ {0})
  BY BugWork
<1>2. StartsFit'
  BY <1>1, StartsKept DEF IInv, LayerUnchanged
<1>3. StoreTypeOK'
  BY <1>1 DEF IInv, TypeOK, StoreTypeOK
<1>4. RunsKept'
  <2>1. \A d \in Calls : call[d].pc = "saveRun" => call'[d] = call[d]
    BY <1>1, AtMost DEF OnBug
  <2> QED BY <2>1 DEF IInv, RunsKept
<1>5. call[c].pc \notin SessionPcs /\ StaysTold(c)
  BY DEF OnBug, SessionPcs, StaysTold
<1> QED BY <1>2, <1>3, <1>4, <1>5, RecordStepKeeps

\* A call that has worked on a bug answers for it, or it is no orphan.
LEMMA OrphanStep ==
    ASSUME IInv, NEW c \in Calls, NEW e \in CallType, call' = [call EXCEPT ![c] = e],
           call[c].pc \in OnBug \cup {"deleteBug", "deleteShot"}, LayerUnchanged,
           shotFiles' \ bugFiles' \subseteq (shotFiles \ bugFiles) \cup {call[c].bug},
           \/ call[c].bug \notin shotFiles' \ bugFiles'
           \/ /\ e.bug = call[c].bug
              /\ e.pc \in {"saveBug", "deleteShot"} \/ (e.pc = "done" /\ e.result # "ok")
    PROVE  EachExcused'
<1>1. Context /\ op(c).tool \in {"bug", "deleteBug"} /\ \A d \in Calls : op(d)' = op(d)
  BY BugWork DEF op, LayerUnchanged
<1> SUFFICES ASSUME NEW b \in shotFiles' \ bugFiles'
             PROVE  \E d \in Calls : Excuses(d, b)'
  BY DEF EachExcused
<1>2. CASE b = call[c].bug
  <2>1. call'[c] = e
    BY <1>1, AtMost
  <2> QED BY <1>1, <1>2, <2>1 DEF Excuses
<1>3. CASE b # call[c].bug
  <2>1. PICK d \in Calls : Excuses(d, b)
    BY <1>3 DEF IInv, EachExcused
  <2>2. d # c
    BY <1>3, <2>1 DEF Excuses
  <2>3. call'[d] = call[d]
    BY <1>1, <2>2, AtMost
  <2> QED BY <1>1, <2>1, <2>3 DEF Excuses
<1> QED BY <1>2, <1>3

LEMMA SaveShotKeeps ==
    ASSUME IInv, NEW c \in Calls, SaveShot(c), LayerUnchanged, UNCHANGED session
    PROVE  Preserves(c)
<1>1. /\ call[c].pc = "saveShot" /\ Goto(c, "saveBug")
      /\ UNCHANGED <<run, started, findings, runFiles, lostRuns, bugFiles>>
      /\ shotFiles' \subseteq shotFiles \cup {call[c].bug}
  BY DEF SaveShot, StoreCall
<1>2. /\ MovesAside(c)
      /\ \E e \in CallType : call' = [call EXCEPT ![c] = e] /\ e.pc = "saveBug" /\ e.bug = call[c].bug
  BY <1>1, GotoOnBug DEF OnBug
<1>3. PICK e \in CallType : call' = [call EXCEPT ![c] = e] /\ e.pc = "saveBug" /\ e.bug = call[c].bug
  BY <1>2
<1>4. EachExcused'
  BY <1>1, <1>3, OrphanStep DEF OnBug
<1>5. bugFiles' \cup shotFiles' \subseteq bugFiles \cup shotFiles \cup {call[c].bug}
  BY <1>1
<1> QED BY <1>1, <1>2, <1>3, <1>4, <1>5, BugStepKeeps DEF OnBug

LEMMA DeleteBugKeeps ==
    ASSUME IInv, NEW c \in Calls, DeleteBug(c), LayerUnchanged, UNCHANGED session
    PROVE  Preserves(c)
<1>1. /\ call[c].pc = "deleteBug" /\ Context
      /\ UNCHANGED <<run, started, findings, runFiles, lostRuns, shotFiles>>
  BY DEF DeleteBug, StoreCall, IInv, Context
<1>2. CASE bugFiles' = bugFiles \ {call[c].bug} /\ Goto(c, "deleteShot")
  <2>1. /\ MovesAside(c)
        /\ \E e \in CallType : call' = [call EXCEPT ![c] = e] /\ e.pc = "deleteShot" /\ e.bug = call[c].bug
    BY <1>1, <1>2, GotoOnBug
  <2>2. PICK e \in CallType : call' = [call EXCEPT ![c] = e] /\ e.pc = "deleteShot" /\ e.bug = call[c].bug
    BY <2>1
  <2>3. EachExcused'
    BY <1>1, <1>2, <2>2, OrphanStep
  <2>4. bugFiles' \cup shotFiles' \subseteq bugFiles \cup shotFiles \cup {call[c].bug}
    BY <1>1, <1>2
  <2> QED BY <1>1, <2>1, <2>2, <2>3, <2>4, BugStepKeeps
<1>3. CASE bugFiles' = bugFiles /\ Finish(c, "error")
  <2>1. "error" \in Results
    BY DEF Results
  <2>2. MovesAside(c)
    BY <1>1, <1>3, <2>1, FinishMoves
  <2>3. Done(call[c], "error") \in CallType /\ Done(call[c], "error").pc = "done"
    BY <1>1, <2>1, Before, DoneTyped
  <2>4. call' = [call EXCEPT ![c] = Done(call[c], "error")]
    BY <1>3 DEF Finish
  <2>5. EachExcused'
    BY <1>1, <1>3, <2>3, <2>4, OrphansKept DEF IInv, LayerUnchanged
  <2>6. bugFiles' \cup shotFiles' \subseteq bugFiles \cup shotFiles \cup {call[c].bug}
    BY <1>1, <1>3
  <2> QED BY <1>1, <2>2, <2>3, <2>4, <2>5, <2>6, BugStepKeeps
<1> QED BY <1>2, <1>3 DEF DeleteBug

LEMMA BugRepliesKeep ==
    ASSUME IInv, NEW c \in Calls, SaveBug(c) \/ DeleteShot(c), LayerUnchanged, UNCHANGED session
    PROVE  Preserves(c)
<1>1. /\ call[c].pc \in {"saveBug", "deleteShot"}
      /\ UNCHANGED <<run, started, findings, runFiles, lostRuns>>
  BY DEF SaveBug, DeleteShot, StoreCall
<1>2. PICK ok \in BOOLEAN :
        /\ Replies(c, ok)
        /\ bugFiles' \cup shotFiles' \subseteq bugFiles \cup shotFiles \cup {call[c].bug}
        /\ shotFiles' \ bugFiles' \subseteq shotFiles \ bugFiles
        /\ ok => call[c].bug \notin shotFiles' \ bugFiles'
  <2>1. CASE SaveBug(c)
    <3>1. PICK ok \in BOOLEAN : /\ bugFiles' = IF ok THEN bugFiles \cup {call[c].bug} ELSE bugFiles
                                /\ Replies(c, ok)
      BY <2>1 DEF SaveBug
    <3>2. shotFiles' = shotFiles
      BY <2>1 DEF SaveBug
    <3> QED BY <3>1, <3>2
  <2>2. CASE DeleteShot(c)
    <3>1. PICK ok \in BOOLEAN : /\ shotFiles' = IF ok THEN shotFiles \ {call[c].bug} ELSE shotFiles
                                /\ Replies(c, ok)
      BY <2>2 DEF DeleteShot
    <3>2. bugFiles' = bugFiles
      BY <2>2 DEF DeleteShot
    <3> QED BY <3>1, <3>2
  <2> QED BY <2>1, <2>2
<1>3. MovesAside(c)
  BY <1>2, RepliesFacts
<1>4. PICK e \in CallType : /\ call' = [call EXCEPT ![c] = e] /\ e.pc = "done" /\ e.bug = call[c].bug
                            /\ ~ok => e.result = "error"
  BY <1>2, RepliesFacts, Zenon
<1>5. EachExcused'
  BY <1>1, <1>2, <1>4, OrphanStep DEF OnBug
<1> QED BY <1>1, <1>2, <1>3, <1>4, <1>5, BugStepKeeps DEF OnBug

LEMMA StoreStepKeeps ==
    ASSUME IInv, NEW c \in Calls, StoreStep(c)
    PROVE  Preserves(c)
<1>1. LayerUnchanged /\ UNCHANGED session
  BY DEF StoreStep
<1>2. CASE StartRun(c) \/ FinishRun(c) \/ ReadCurrent(c) \/ ReadRecords(c) \/ LoadRecord(c)
  BY <1>1, <1>2, StartRunKeeps, FinishRunKeeps, ReadCurrentKeeps, ReadRecordsKeeps, LoadRecordKeeps
<1>3. CASE SaveRun(c) \/ UpdateRunSummary(c) \/ DeleteRun(c)
  BY <1>1, <1>3, RunWorkKeeps
<1>4. CASE RecordBug(c) \/ FindDevice(c) \/ Screenshot(c) \/ SaveShot(c)
  BY <1>1, <1>4, RecordBugKeeps, EvidenceKeeps, SaveShotKeeps
<1>5. CASE SaveBug(c) \/ DeleteBug(c) \/ DeleteShot(c)
  BY <1>1, <1>5, BugRepliesKeep, DeleteBugKeeps
<1> QED BY <1>2, <1>3, <1>4, <1>5 DEF StoreStep, StoreWork

-----------------------------------------------------------------------------
(* The device session.                                                      *)

LEMMA SessionStepKeeps ==
    ASSUME IInv, NEW c \in Calls, NEW e \in CallType, call' = [call EXCEPT ![c] = e],
           Suits(c, e), TypesSafely(c, e), Timed(e), e.pc \in SessionPcs \cup {"done"}, e.result \in {"none", "ok", "error"},
           call[c].pc \in SessionPcs \cup {"idle"},
           UNCHANGED <<load, now, screen, changes, front, launched, keyboardHint, store>>,
           connected' \subseteq Drivers, OnePlace', InTurn', Accounted', BuildsFit', SessionTypeOK'
    PROVE  Preserves(c)
<1>1. Context
  BY DEF IInv, Context
<1>2. Sound(c, e) /\ Exact(call[c], e) /\ Searched(c, e, screen'.pos)
  BY DEF Sound, Exact, GivesUp, Searched, Heading, SessionPcs
<1>3. LoadOK'
  BY DEF IInv, LoadOK
<1>4. OrchestraTypeOK'
  <2>1. call' \in [Calls -> CallType]
    BY <1>1, AtMost
  <2> QED BY <2>1, <1>1 DEF Context, TypeOK, OrchestraTypeOK
<1>5. Locals'
  BY <1>1, <1>2, LocalsKept
<1>6. Searches'
  BY <1>1, <1>2, SearchesKept DEF IInv
<1>7. StartsFit'
  BY <1>1, StartsKept DEF IInv, SessionPcs, store
<1>8. RunsKept' /\ EachExcused' /\ StoreTypeOK'
  BY <1>1, StoreKept DEF IInv, Keeping, SessionPcs
<1> QED BY <1>2, <1>3, <1>4, <1>5, <1>6, <1>7, <1>8 DEF IInv, TypeOK, Preserves

\* Where drivers are before and after a step of call c to e.
LEMMA HandFacts ==
    ASSUME IInv, NEW c \in Calls, NEW e \in CallType, call' = [call EXCEPT ![c] = e]
    PROVE  /\ InHand(c)' = Hand(e) /\ call'[c] = e
           /\ \A d \in Calls \ {c} : InHand(d)' = InHand(d) /\ call'[d] = call[d]
           /\ \A d \in Calls : InHand(d) # 0 => call[d].pc \in SessionPcs
           /\ 0 \notin connected /\ built \in Nat /\ connected \subseteq 1 .. built
           /\ connected \subseteq Drivers /\ active \in Drivers \cup {0}
           /\ overlapped \subseteq Calls /\ left \in [Calls -> Drivers \cup {0}]
<1>1. Context
  BY DEF IInv, Context
<1>2. call'[c] = e /\ \A d \in Calls \ {c} : call'[d] = call[d]
  BY <1>1, AtMost
<1>3. InHand(c)' = Hand(e) /\ \A d \in Calls \ {c} : InHand(d)' = InHand(d)
  BY <1>2 DEF InHand, Hand
<1>4. \A d \in Calls : InHand(d) # 0 => call[d].pc \in SessionPcs
  BY DEF InHand, Hand, SessionPcs
<1>5. /\ built \in Nat /\ connected \subseteq 1 .. built /\ active \in Drivers \cup {0}
      /\ overlapped \subseteq Calls /\ left \in [Calls -> Drivers \cup {0}] /\ connected \subseteq Drivers
  BY <1>1, Facts DEF IInv, OnePlace, TypeOK, SessionTypeOK
<1>6. 0 \notin connected
  BY <1>5
<1> QED BY <1>2, <1>3, <1>4, <1>5, <1>6

\* A driver left behind stays with the call that left it, if call c may leave one now.
LEMMA LeftKept ==
    ASSUME IInv, NEW c \in Calls, NEW e \in CallType, call' = [call EXCEPT ![c] = e],
           call[c].pc \in SessionPcs \cup {"idle"}, overlapped \subseteq overlapped',
           \A d \in Calls \ {c} : left'[d] = left[d],
           left'[c] # left[c] => e.pc = "done" /\ (e.result # "ok" \/ c \in overlapped')
    PROVE  left[c] = 0 /\ \A d \in Calls : left'[d] # 0 => FailedOrOverlapped(d)'
<1>1. left[c] = 0
  BY DEF IInv, Accounted, FailedOrOverlapped, SessionPcs
<1>2. ASSUME NEW d \in Calls, left'[d] # 0
      PROVE  FailedOrOverlapped(d)'
  <2>1. CASE d = c
    BY <1>1, <1>2, <2>1, HandFacts DEF FailedOrOverlapped
  <2>2. CASE d # c
    <3>1. FailedOrOverlapped(d) /\ call'[d] = call[d]
      BY <1>2, <2>2, HandFacts DEF IInv, Accounted
    <3> QED BY <3>1 DEF FailedOrOverlapped
  <2> QED BY <2>1, <2>2
<1> QED BY <1>1, <1>2

LEMMA BuildsKept ==
    ASSUME IInv, NEW c \in Calls, NEW e \in CallType, call' = [call EXCEPT ![c] = e], UNCHANGED <<load, built>>,
           e.pc \in {"idle", "drop", "build"} /\ op(c).tool = "select" => call[c].pc \in {"idle", "drop", "build"}
    PROVE  BuildsFit'
<1>1. Selecting' \subseteq Selecting /\ IsFiniteSet(Selecting)
  <2>1. Selecting' \subseteq Selecting
    BY HandFacts DEF Selecting, op
  <2> QED BY <2>1, DriversAssumption, FS_Subset DEF Selecting
<1>2. /\ Cardinality(Selecting') <= Cardinality(Selecting)
      /\ Cardinality(Selecting') \in Nat /\ Cardinality(Selecting) \in Nat
  BY <1>1, FS_Subset, FS_CardinalityType
<1>3. built \in Nat /\ Cardinality(Drivers) \in Nat
  BY HandFacts, DriversAssumption, FS_CardinalityType
<1> QED BY <1>2, <1>3 DEF IInv, BuildsFit

LEMMA TakeStepKeeps ==
    ASSUME IInv, NEW c \in Calls, Take(c), UNCHANGED store
    PROVE  Preserves(c)
<1> DEFINE e == [Arriving(c) EXCEPT !.pc = "drop", !.held = active]
<1>1. /\ call[c].pc = "idle" /\ call' = [call EXCEPT ![c] = e] /\ active' = 0
      /\ op(c).tool \in {"select", "disconnect"}
      /\ overlapped' = overlapped \cup Overlapping(c)
      /\ LayerUnchanged /\ built' = built /\ left' = left
  BY DEF Take, Arrives
<1>2. /\ Arriving(c) \in CallType /\ SameWait(call[c], Arriving(c)) /\ call[c].result = "none"
      /\ TypesSafely(c, call[c]) /\ Sound(c, call[c])
  BY <1>1, ArrivingFacts DEF IInv, Locals
<1>3. active \in Nat /\ active \in Drivers \cup {0}
  <2>1. active \in connected \cup {0} /\ connected \subseteq 1 .. built
    BY DEF IInv, OnePlace
  <2>2. built \in Nat /\ active \in Drivers \cup {0}
    BY DEF IInv, TypeOK, SessionTypeOK
  <2> QED BY <2>1, <2>2
<1>4. e \in CallType
  BY <1>2, <1>3, PositionFacts, SetPc, SetHeld, Zenon
<1>5. e.pc = "drop" /\ e.held = active /\ SameWait(call[c], e)
  BY <1>2 DEF CallType, SameWait
<1> HIDE DEF e
<1>6. Suits(c, e) /\ TypesSafely(c, e) /\ Timed(e) /\ e.result = "none"
  BY <1>2, <1>5 DEF SameWait, Sound, Suits, TypesSafely, Timed, Heading, Seeking, OnBug
<1>7. Hand(e) = active /\ InHand(c) = 0
  BY <1>1, <1>5 DEF Hand, InHand
<1> USE <1>4
<1>8. OnePlace'
  <2>1. connected' = connected /\ built' = built /\ active' = 0
    BY <1>1 DEF LayerUnchanged
  <2>2. InHand(c)' = active /\ \A d \in Calls \ {c} : InHand(d)' = InHand(d)
    BY <1>1, <1>7, HandFacts
  <2>3. /\ connected \subseteq 1 .. built /\ active \in connected \cup {0}
        /\ \A d \in Calls : /\ InHand(d) \in connected \cup {0}
                            /\ InHand(d) # 0 => InHand(d) # active
        /\ \A d, f \in Calls : InHand(d) # 0 /\ InHand(d) = InHand(f) => d = f
    BY DEF IInv, OnePlace
  <2> QED BY <2>1, <2>2, <2>3 DEF OnePlace
<1>9. InTurn'
  <2> SUFFICES ASSUME NEW f \in Calls, call'[f].pc \in SessionPcs, f \notin overlapped'
               PROVE  \A d \in Calls : call'[d].pc \in SessionPcs => d = f
    BY <1>1 DEF InTurn
  <2>1. \A d \in Calls \ {c} : call'[d] = call[d]
    BY <1>1, HandFacts
  <2>2. f \notin Overlapping(c)
    BY <1>1
  <2>3. \A d \in Calls : call[d].pc \notin SessionPcs
    BY <1>1, <2>1, <2>2 DEF Overlapping
  <2> QED BY <2>1, <2>3
<1>10. Accounted'
  <2>1. \A d \in Calls : left'[d] # 0 => FailedOrOverlapped(d)'
    BY <1>1, LeftKept
  <2>2. InHand(c)' = active /\ \A d \in Calls \ {c} : InHand(d)' = InHand(d)
    BY <1>1, <1>7, HandFacts
  <2>3. ASSUME NEW d \in connected
        PROVE  \E f \in Calls : InHand(f)' = d \/ left'[f] = d
    <3>1. CASE d = active
      BY <2>2, <3>1
    <3>2. CASE d # active
      <4>1. PICK f \in Calls : InHand(f) = d \/ left[f] = d
        BY <3>2 DEF IInv, Accounted
      <4>2. d # 0
        BY <1>1, HandFacts
      <4> QED BY <1>1, <1>7, <2>2, <4>1, <4>2
    <3> QED BY <3>1, <3>2
  <2> QED BY <1>1, <2>1, <2>3 DEF Accounted, LayerUnchanged
<1>11. BuildsFit'
  BY <1>1, <1>4, BuildsKept DEF LayerUnchanged
<1>12. SessionTypeOK' /\ connected' \subseteq Drivers
  <2>1. Overlapping(c) \subseteq Calls
    BY DEF Overlapping
  <2> QED BY <1>1, <1>4, <2>1, HandFacts DEF SessionTypeOK, LayerUnchanged
<1> QED BY <1>1, <1>4, <1>5, <1>6, <1>8, <1>9, <1>10, <1>11, <1>12, SessionStepKeeps DEF SessionPcs, LayerUnchanged

\* A session call moves on, its wait and its driver as they were.
LEMMA SessionGoto ==
    ASSUME IInv, NEW c \in Calls, NEW pc \in {"build", "info", "install"}, Goto(c, pc), call[c].pc \in SessionPcs,
           pc = "build" => op(c).tool = "select"
    PROVE  \E e \in CallType : /\ call' = [call EXCEPT ![c] = e] /\ e.pc = pc /\ e.drv = call[c].drv
                               /\ Suits(c, e) /\ TypesSafely(c, e) /\ Timed(e) /\ e.result = "none"
<1> DEFINE e == [call[c] EXCEPT !.pc = pc]
<1>1. Context /\ call[c] \in CallType /\ Sound(c, call[c]) /\ call[c].result = "none"
  <2>1. Context
    BY DEF IInv, Context
  <2> QED BY <2>1, Before DEF SessionPcs
<1>2. e \in CallType
  BY <1>1, PositionFacts, SetPc
<1>3. e.pc = pc /\ SameWait(call[c], e) /\ e.drv = call[c].drv
  BY <1>1 DEF CallType, SameWait
<1>4. call' = [call EXCEPT ![c] = e]
  BY <1>1, Before DEF Goto
<1> HIDE DEF e
<1>5. Suits(c, e) /\ TypesSafely(c, e) /\ Timed(e) /\ e.result = "none"
  BY <1>1, <1>3 DEF SameWait, Sound, Suits, TypesSafely, Timed, Heading, Seeking, OnBug
<1> QED BY <1>2, <1>3, <1>4, <1>5

LEMMA SessionFinish ==
    ASSUME IInv, NEW c \in Calls, NEW result \in {"ok", "error"}, Finish(c, result)
    PROVE  \E e \in CallType : /\ call' = [call EXCEPT ![c] = e] /\ e.pc = "done"
                               /\ Suits(c, e) /\ TypesSafely(c, e) /\ Timed(e) /\ e.result = result
<1>1. Context /\ result \in Results
  BY DEF IInv, Context, Results
<1> DEFINE e == Done(call[c], result)
<1>2. e \in CallType /\ Sound(c, e) /\ e.pc = "done" /\ e.result = result
  BY <1>1, Before, DoneSound
<1>3. call' = [call EXCEPT ![c] = e]
  BY DEF Finish
<1> HIDE DEF e
<1> QED BY <1>2, <1>3 DEF Sound

\* The invariant of the session, in the terms its steps use.
LEMMA SessionFacts ==
    ASSUME IInv
    PROVE  /\ connected \subseteq 1 .. built /\ built \in Nat /\ 0 \notin connected
           /\ active \in connected \cup {0}
           /\ \A c \in Calls : /\ InHand(c) \in connected \cup {0}
                               /\ InHand(c) # 0 => InHand(c) # active
                               /\ InHand(c) # 0 => call[c].pc \in SessionPcs
           /\ \A c, d \in Calls : InHand(c) # 0 /\ InHand(c) = InHand(d) => c = d
           /\ \A d \in connected : d = active \/ \E c \in Calls : InHand(c) = d \/ left[c] = d
<1>1. connected \subseteq 1 .. built /\ built \in Nat
  BY DEF IInv, OnePlace, TypeOK, SessionTypeOK
<1>2. 0 \notin connected
  BY <1>1
<1>3. \A c \in Calls : InHand(c) # 0 => call[c].pc \in SessionPcs
  BY DEF InHand, Hand, SessionPcs
<1> QED BY <1>1, <1>2, <1>3 DEF IInv, OnePlace, Accounted

\* No step of a call in the session makes it overlap another one.
LEMMA InTurnKept ==
    ASSUME IInv, NEW c \in Calls, NEW e \in CallType, call' = [call EXCEPT ![c] = e],
           call[c].pc \in SessionPcs, UNCHANGED <<active, overlapped>>
    PROVE  InTurn'
<1>1. \A d \in Calls : call'[d].pc \in SessionPcs => call[d].pc \in SessionPcs
  BY HandFacts
<1> QED BY <1>1 DEF IInv, InTurn

LEMMA DropKeeps ==
    ASSUME IInv, NEW c \in Calls, Drop(c), UNCHANGED store
    PROVE  Preserves(c)
<1>1. /\ call[c].pc = "drop" /\ connected' = connected \ {call[c].held}
      /\ UNCHANGED <<load, now, screen, changes, front, launched, keyboardHint, active, built, overlapped, left>>
  BY DEF Drop, session
<1>2. PICK e \in CallType : /\ call' = [call EXCEPT ![c] = e] /\ e.pc \in {"build", "done"}
                            /\ Suits(c, e) /\ TypesSafely(c, e) /\ Timed(e) /\ e.result \in {"none", "ok"}
  <2>1. CASE op(c).tool = "select"
    BY <1>1, <2>1, SessionGoto DEF Drop, SessionPcs
  <2>2. CASE op(c).tool # "select"
    BY <1>1, <2>2, SessionFinish DEF Drop
  <2> QED BY <2>1, <2>2
<1>3. /\ InHand(c) = call[c].held /\ InHand(c)' = 0
      /\ \A d \in Calls \ {c} : InHand(d)' = InHand(d) /\ call'[d] = call[d]
      /\ call'[c] = e
  BY <1>1, <1>2, HandFacts DEF InHand, Hand
<1>4. OnePlace'
  <2>1. /\ connected \subseteq 1 .. built /\ active \in connected \cup {0}
        /\ \A d \in Calls : /\ InHand(d) \in connected \cup {0}
                            /\ InHand(d) # 0 => InHand(d) # active
        /\ \A d, f \in Calls : InHand(d) # 0 /\ InHand(d) = InHand(f) => d = f
        /\ 0 \notin connected
    BY SessionFacts
  <2>2. connected' \subseteq 1 .. built'
    BY <1>1, <2>1
  <2>3. active' \in connected' \cup {0}
    BY <1>1, <1>3, <2>1
  <2>4. \A d \in Calls : /\ InHand(d)' \in connected' \cup {0}
                         /\ InHand(d)' # 0 => InHand(d)' # active'
    BY <1>1, <1>3, <2>1
  <2>5. \A d, f \in Calls : InHand(d)' # 0 /\ InHand(d)' = InHand(f)' => d = f
    BY <1>3, <2>1
  <2> QED BY <2>2, <2>3, <2>4, <2>5 DEF OnePlace
<1>5. InTurn' /\ Accounted'
  <2>1. InTurn'
    BY <1>1, <1>2, InTurnKept DEF SessionPcs
  <2>2. \A d \in Calls : left'[d] # 0 => FailedOrOverlapped(d)'
    BY <1>1, <1>2, LeftKept DEF SessionPcs
  <2>3. ASSUME NEW d \in connected, d # call[c].held, d # active
        PROVE  \E f \in Calls : InHand(f)' = d \/ left'[f] = d
    <3>1. PICK f \in Calls : InHand(f) = d \/ left[f] = d
      BY <2>3, SessionFacts
    <3> QED BY <1>1, <1>3, <2>3, <3>1
  <2> QED BY <1>1, <2>1, <2>2, <2>3 DEF Accounted
<1>6. BuildsFit'
  BY <1>1, <1>2, BuildsKept
<1>7. SessionTypeOK' /\ connected' \subseteq Drivers
  BY <1>1, <1>2, HandFacts DEF SessionTypeOK
<1> QED BY <1>1, <1>2, <1>4, <1>5, <1>6, <1>7, SessionStepKeeps DEF SessionPcs

LEMMA BuildKeeps ==
    ASSUME IInv, NEW c \in Calls, Build(c), UNCHANGED store
    PROVE  Preserves(c)
<1> DEFINE e == [call[c] EXCEPT !.pc = "handshake", !.drv = built + 1]
<1>1. /\ call[c].pc = "build" /\ built' = built + 1 /\ connected' = connected \cup {built + 1}
      /\ UNCHANGED <<load, now, screen, changes, front, launched, keyboardHint, active, overlapped, left>>
  BY DEF Build
<1>2. /\ Context /\ call[c] \in CallType /\ Sound(c, call[c]) /\ call[c].result = "none"
      /\ op(c).tool = "select"
  <2>1. Context
    BY DEF IInv, Context
  <2> QED BY <1>1, <2>1, Before DEF Sound, Suits
<1>3. BuildsFit' /\ built + 1 \in Drivers
  <2>1. c \in Selecting /\ IsFiniteSet(Selecting)
    <3>1. Selecting \subseteq Calls
      BY DEF Selecting
    <3> QED BY <1>1, <1>2, <3>1, DriversAssumption, FS_Subset DEF Selecting
  <2>2. Selecting' \subseteq Selecting \ {c}
    <3>1. call' = [call EXCEPT ![c].pc = "handshake", ![c].drv = built']
      BY DEF Build
    <3>2. call'[c].pc = "handshake" /\ \A d \in Calls \ {c} : call'[d] = call[d]
      BY <1>2, <3>1, Before
    <3> QED BY <1>1, <3>2 DEF Selecting, op
  <2>3. /\ IsFiniteSet(Selecting \ {c}) /\ Cardinality(Selecting \ {c}) = Cardinality(Selecting) - 1
    BY <2>1, FS_RemoveElement
  <2>4. /\ Cardinality(Selecting') <= Cardinality(Selecting \ {c})
        /\ Cardinality(Selecting') \in Nat /\ Cardinality(Selecting) \in Nat
        /\ Cardinality(Selecting \ {c}) \in Nat
    BY <2>1, <2>2, <2>3, FS_Subset, FS_CardinalityType
  <2>5. Cardinality(Drivers) \in Nat /\ built \in Nat
    BY SessionFacts, DriversAssumption, FS_CardinalityType
  <2>6. built + Cardinality(Selecting) <= Cardinality(Drivers)
    BY DEF IInv, BuildsFit
  <2>7. BuildsFit'
    BY <1>1, <2>3, <2>4, <2>5, <2>6 DEF BuildsFit
  <2>8. built + 1 \in 1 .. Cardinality(Drivers)
    BY <2>3, <2>4, <2>5, <2>6
  <2> QED BY <2>7, <2>8, DriversAssumption
<1>4. e \in CallType
  <2>1. built + 1 \in Drivers \cup {0}
    BY <1>3
  <2> QED BY <1>2, <2>1, PositionFacts, SetPc, SetDrv, Zenon
<1>5. e.pc = "handshake" /\ e.drv = built + 1 /\ SameWait(call[c], e)
  BY <1>2 DEF CallType, SameWait
<1>6. call' = [call EXCEPT ![c] = e]
  BY <1>1, <1>2, Before DEF Build
<1> HIDE DEF e
<1>7. Suits(c, e) /\ TypesSafely(c, e) /\ Timed(e) /\ e.result = "none"
  BY <1>2, <1>5 DEF SameWait, Sound, Suits, TypesSafely, Timed, Heading, Seeking, OnBug
<1>8. /\ InHand(c)' = built + 1 /\ InHand(c) = 0 /\ call'[c] = e
      /\ \A d \in Calls \ {c} : InHand(d)' = InHand(d) /\ call'[d] = call[d]
  BY <1>1, <1>4, <1>5, <1>6, HandFacts DEF InHand, Hand
<1>9. built + 1 \notin connected /\ built + 1 # 0 /\ 1 .. built \subseteq 1 .. built + 1 /\ built + 1 \in 1 .. built + 1
  BY SessionFacts
<1>10. OnePlace'
  <2>1. /\ connected \subseteq 1 .. built /\ active \in connected \cup {0}
        /\ \A d \in Calls : /\ InHand(d) \in connected \cup {0}
                            /\ InHand(d) # 0 => InHand(d) # active
        /\ \A d, f \in Calls : InHand(d) # 0 /\ InHand(d) = InHand(f) => d = f
    BY SessionFacts
  <2>2. connected' \subseteq 1 .. built'
    BY <1>1, <1>9, <2>1
  <2>3. active' \in connected' \cup {0} /\ active' # built + 1
    BY <1>1, <1>9, <2>1
  <2>4. \A d \in Calls \ {c} : InHand(d)' # built + 1
    BY <1>8, <1>9, <2>1
  <2>5. \A d \in Calls : /\ InHand(d)' \in connected' \cup {0}
                         /\ InHand(d)' # 0 => InHand(d)' # active'
    BY <1>1, <1>8, <2>1, <2>3
  <2>6. \A d, f \in Calls : InHand(d)' # 0 /\ InHand(d)' = InHand(f)' => d = f
    BY <1>8, <2>1, <2>4
  <2> QED BY <2>2, <2>3, <2>5, <2>6 DEF OnePlace
<1>11. InTurn' /\ Accounted'
  <2>1. InTurn'
    BY <1>1, <1>4, <1>6, InTurnKept DEF SessionPcs
  <2>2. \A d \in Calls : left'[d] # 0 => FailedOrOverlapped(d)'
    BY <1>1, <1>4, <1>6, LeftKept DEF SessionPcs
  <2>3. ASSUME NEW d \in connected, d # active
        PROVE  \E f \in Calls : InHand(f)' = d \/ left'[f] = d
    <3>1. PICK f \in Calls : InHand(f) = d \/ left[f] = d
      BY <2>3, SessionFacts
    <3>2. d # 0
      BY SessionFacts
    <3> QED BY <1>1, <1>8, <3>1, <3>2
  <2> QED BY <1>1, <1>8, <2>1, <2>2, <2>3 DEF Accounted
<1>12. SessionTypeOK' /\ connected' \subseteq Drivers
  <2>1. /\ connected \subseteq Drivers /\ active \in Drivers \cup {0} /\ built \in Nat
        /\ overlapped \subseteq Calls /\ left \in [Calls -> Drivers \cup {0}]
    BY <1>4, <1>6, HandFacts
  <2> QED BY <1>1, <1>3, <2>1 DEF SessionTypeOK
<1> QED BY <1>1, <1>3, <1>4, <1>5, <1>6, <1>7, <1>10, <1>11, <1>12, SessionStepKeeps DEF SessionPcs

\* A step that leaves every driver where it is: its call ends without one, or goes on with its own.
LEMMA SameHands ==
    ASSUME IInv, NEW c \in Calls, NEW e \in CallType, call' = [call EXCEPT ![c] = e], Hand(e) = InHand(c),
           call[c].pc \in SessionPcs, UNCHANGED <<connected, session>>
    PROVE  OnePlace' /\ InTurn' /\ Accounted' /\ SessionTypeOK'
<1>1. /\ \A d \in Calls : InHand(d)' = InHand(d)
      /\ \A d \in Calls : left'[d] # 0 => FailedOrOverlapped(d)'
  BY HandFacts, LeftKept DEF session
<1>2. OnePlace'
  BY <1>1 DEF IInv, OnePlace, session
<1>3. InTurn'
  BY InTurnKept DEF session
<1>4. Accounted'
  BY <1>1 DEF IInv, Accounted, session
<1>5. SessionTypeOK'
  BY DEF IInv, TypeOK, SessionTypeOK, session
<1> QED BY <1>2, <1>3, <1>4, <1>5

\* A build that fails after the channel was open leaves its driver to nobody.
LEMMA BuildFailsKeeps ==
    ASSUME IInv, NEW c \in Calls, BuildFails(c), UNCHANGED store
    PROVE  Preserves(c)
<1>1. /\ call[c].pc \in {"build", "handshake"} /\ Finish(c, "error")
      /\ UNCHANGED <<load, now, screen, changes, front, launched, keyboardHint, connected>>
      /\ UNCHANGED <<active, built, overlapped>>
      /\ left' = IF call[c].pc = "handshake" THEN [left EXCEPT ![c] = InHand(c)] ELSE left
  BY DEF BuildFails, LayerUnchanged, InHand, Hand, drv
<1>2. PICK e \in CallType : /\ call' = [call EXCEPT ![c] = e] /\ e.pc = "done"
                            /\ Suits(c, e) /\ TypesSafely(c, e) /\ Timed(e) /\ e.result = "error"
  BY <1>1, SessionFinish
<1>3. /\ call'[c] = e /\ InHand(c)' = 0 /\ \A d \in Calls \ {c} : InHand(d)' = InHand(d)
      /\ left \in [Calls -> Drivers \cup {0}] /\ connected \subseteq Drivers
  BY <1>2, HandFacts DEF Hand
<1>4. /\ left' \in [Calls -> Drivers \cup {0}] /\ left'[c] = InHand(c)
      /\ \A d \in Calls \ {c} : left'[d] = left[d]
  <2>1. left[c] = 0
    BY <1>1 DEF IInv, Accounted, FailedOrOverlapped
  <2>2. InHand(c) \in Drivers \cup {0}
    BY <1>3, SessionFacts
  <2>3. CASE call[c].pc = "handshake"
    BY <1>1, <1>3, <2>2, <2>3
  <2>4. CASE call[c].pc = "build"
    <3>1. InHand(c) = 0
      BY <2>4 DEF InHand, Hand
    <3> QED BY <1>1, <1>3, <2>1, <2>4, <3>1
  <2> QED BY <1>1, <2>3, <2>4
<1>5. OnePlace'
  <2>1. /\ \A d \in Calls : InHand(d)' \in connected \cup {0} /\ (InHand(d)' # 0 => InHand(d)' # active)
        /\ \A d, f \in Calls : InHand(d)' # 0 /\ InHand(d)' = InHand(f)' => d = f
    BY <1>3, SessionFacts
  <2> QED BY <1>1, <2>1 DEF IInv, OnePlace
<1>6. InTurn'
  BY <1>1, <1>2, InTurnKept DEF SessionPcs
<1>7. Accounted'
  <2>1. \A d \in Calls : left'[d] # 0 => FailedOrOverlapped(d)'
    BY <1>1, <1>2, <1>4, LeftKept DEF SessionPcs
  <2>2. ASSUME NEW d \in connected, d # active
        PROVE  \E f \in Calls : InHand(f)' = d \/ left'[f] = d
    <3>1. PICK f \in Calls : InHand(f) = d \/ left[f] = d
      BY <2>2, SessionFacts
    <3>2. CASE f = c
      <4>1. left[c] = 0 /\ d # 0
        BY <1>1, SessionFacts DEF IInv, Accounted, FailedOrOverlapped
      <4> QED BY <1>4, <3>1, <3>2, <4>1
    <3>3. CASE f # c
      BY <1>3, <1>4, <3>1, <3>3
    <3> QED BY <3>2, <3>3
  <2> QED BY <1>1, <2>1, <2>2 DEF Accounted
<1>8. BuildsFit'
  BY <1>1, <1>2, BuildsKept
<1>9. SessionTypeOK' /\ connected' \subseteq Drivers
  BY <1>1, <1>3, <1>4 DEF IInv, TypeOK, SessionTypeOK
<1> QED BY <1>1, <1>2, <1>5, <1>6, <1>7, <1>8, <1>9, SessionStepKeeps DEF SessionPcs

\* The two steps of a build that go on with the driver in hand.
LEMMA ConnectsKeeps ==
    ASSUME IInv, NEW c \in Calls, Connects(c), UNCHANGED store
    PROVE  Preserves(c)
<1>1. /\ call[c].pc = "handshake" /\ Goto(c, "info")
      /\ UNCHANGED <<load, now, screen, changes, front, launched, keyboardHint, connected, session>>
  BY DEF Connects, LayerUnchanged
<1>2. PICK e \in CallType : /\ call' = [call EXCEPT ![c] = e] /\ e.pc = "info" /\ e.drv = call[c].drv
                            /\ Suits(c, e) /\ TypesSafely(c, e) /\ Timed(e) /\ e.result = "none"
  BY <1>1, SessionGoto DEF SessionPcs
<1>3. Hand(e) = InHand(c)
  BY <1>1, <1>2 DEF Hand, InHand
<1>4. OnePlace' /\ InTurn' /\ Accounted' /\ SessionTypeOK'
  BY <1>1, <1>2, <1>3, SameHands DEF SessionPcs
<1>5. BuildsFit'
  BY <1>1, <1>2, BuildsKept DEF session
<1>6. connected' \subseteq Drivers
  BY <1>1, <1>2, HandFacts
<1> QED BY <1>1, <1>2, <1>4, <1>5, <1>6, SessionStepKeeps DEF SessionPcs

LEMMA DeviceInfoKeeps ==
    ASSUME IInv, NEW c \in Calls, DeviceInfo(c), UNCHANGED store
    PROVE  Preserves(c)
<1>1. /\ call[c].pc = "info" /\ Goto(c, "install")
      /\ UNCHANGED <<load, now, screen, changes, front, launched, keyboardHint, connected, session>>
  BY DEF DeviceInfo, LayerUnchanged
<1>2. PICK e \in CallType : /\ call' = [call EXCEPT ![c] = e] /\ e.pc = "install" /\ e.drv = call[c].drv
                            /\ Suits(c, e) /\ TypesSafely(c, e) /\ Timed(e) /\ e.result = "none"
  BY <1>1, SessionGoto DEF SessionPcs
<1>3. Hand(e) = InHand(c)
  BY <1>1, <1>2 DEF Hand, InHand
<1>4. OnePlace' /\ InTurn' /\ Accounted' /\ SessionTypeOK'
  BY <1>1, <1>2, <1>3, SameHands DEF SessionPcs
<1>5. BuildsFit'
  BY <1>1, <1>2, BuildsKept DEF session
<1>6. connected' \subseteq Drivers
  BY <1>1, <1>2, HandFacts
<1> QED BY <1>1, <1>2, <1>4, <1>5, <1>6, SessionStepKeeps DEF SessionPcs

LEMMA InstallKeeps ==
    ASSUME IInv, NEW c \in Calls, Install(c), UNCHANGED store
    PROVE  Preserves(c)
<1>1. /\ call[c].pc = "install" /\ Finish(c, "ok") /\ active' = InHand(c)
      /\ left' = [left EXCEPT ![c] = active]
      /\ UNCHANGED <<load, now, screen, changes, front, launched, keyboardHint, connected, built, overlapped>>
  BY DEF Install, LayerUnchanged, InHand, Hand, drv
<1>2. PICK e \in CallType : /\ call' = [call EXCEPT ![c] = e] /\ e.pc = "done"
                            /\ Suits(c, e) /\ TypesSafely(c, e) /\ Timed(e) /\ e.result = "ok"
  BY <1>1, SessionFinish
<1>3. /\ InHand(c)' = 0 /\ call'[c] = e
      /\ \A d \in Calls \ {c} : InHand(d)' = InHand(d) /\ call'[d] = call[d]
  BY <1>2, HandFacts DEF Hand
<1>4. /\ connected \subseteq 1 .. built /\ InHand(c) \in connected \cup {0}
      /\ \A d \in Calls : InHand(d) \in connected \cup {0}
      /\ \A d, f \in Calls : InHand(d) # 0 /\ InHand(d) = InHand(f) => d = f
  BY SessionFacts
<1>5. OnePlace'
  <2>1. connected' \subseteq 1 .. built' /\ active' \in connected' \cup {0}
    BY <1>1, <1>4
  <2>2. \A d \in Calls : /\ InHand(d)' \in connected' \cup {0}
                         /\ InHand(d)' # 0 => InHand(d)' # active'
    BY <1>1, <1>3, <1>4
  <2>3. \A d, f \in Calls : InHand(d)' # 0 /\ InHand(d)' = InHand(f)' => d = f
    BY <1>3, <1>4
  <2> QED BY <2>1, <2>2, <2>3 DEF OnePlace
<1>6. InTurn' /\ Accounted'
  <2>1. /\ left'[c] = active /\ \A d \in Calls \ {c} : left'[d] = left[d]
        /\ left[c] = 0
        /\ active # 0 => c \in overlapped
    <3>1. left[c] = 0
      BY <1>1 DEF IInv, Accounted, FailedOrOverlapped
    <3> QED BY <1>1, <1>2, <3>1, HandFacts DEF IInv, InTurn, SessionPcs
  <2>2. InTurn'
    <3>1. \A f \in Calls : call'[f].pc \in SessionPcs => f # c /\ call[f].pc \in SessionPcs
      BY <1>2, <1>3 DEF SessionPcs
    <3> QED BY <1>1, <3>1 DEF IInv, InTurn, SessionPcs
  <2>3. \A d \in Calls : left'[d] # 0 => FailedOrOverlapped(d)'
    <3>1. left'[c] # left[c] => c \in overlapped'
      BY <1>1, <2>1
    <3>2. overlapped \subseteq overlapped' /\ call[c].pc \in SessionPcs
      BY <1>1 DEF SessionPcs
    <3> QED BY <1>2, <2>1, <3>1, <3>2, LeftKept
  <2>4. ASSUME NEW d \in connected
        PROVE  d = active' \/ \E f \in Calls : InHand(f)' = d \/ left'[f] = d
    <3>1. CASE d = active
      BY <2>1, <3>1
    <3>2. CASE d # active
      <4>1. PICK f \in Calls : InHand(f) = d \/ left[f] = d
        BY <3>2, SessionFacts
      <4>2. d # 0
        BY SessionFacts
      <4>3. CASE f = c
        BY <1>1, <2>1, <4>1, <4>2, <4>3
      <4>4. CASE f # c
        <5>1. InHand(f)' = InHand(f) /\ left'[f] = left[f]
          BY <1>3, <2>1, <4>4
        <5> QED BY <4>1, <5>1
      <4> QED BY <4>3, <4>4
    <3> QED BY <3>1, <3>2
  <2> QED BY <1>1, <2>2, <2>3, <2>4 DEF Accounted
<1>7. BuildsFit'
  BY <1>1, <1>2, BuildsKept
<1>8. SessionTypeOK' /\ connected' \subseteq Drivers
  <2>1. /\ connected \subseteq Drivers /\ overlapped \subseteq Calls /\ built \in Nat
        /\ active \in Drivers \cup {0} /\ left \in [Calls -> Drivers \cup {0}]
    BY <1>2, HandFacts
  <2> QED BY <1>1, <1>4, <2>1 DEF SessionTypeOK
<1> QED BY <1>1, <1>2, <1>5, <1>6, <1>7, <1>8, SessionStepKeeps DEF SessionPcs

LEMMA SessionKeeps ==
    ASSUME IInv, NEW c \in Calls, SessionStep(c), UNCHANGED store
    PROVE  Preserves(c)
  BY TakeStepKeeps, DropKeeps, BuildKeeps, ConnectsKeeps, BuildFailsKeeps, DeviceInfoKeeps, InstallKeeps DEF SessionStep

-----------------------------------------------------------------------------
(* The middleware's answer, and the world outside the calls.                *)

LEMMA AnswerKeeps ==
    ASSUME IInv, NEW c \in Calls, Answer(c)
    PROVE  Preserves(c)
<1> DEFINE result == IF now >= call[c].budget THEN "overtime" ELSE call[c].result
           e == [IdleCall EXCEPT !.pc = "answered", !.bug = call[c].bug, !.result = result]
<1>1. /\ call[c].pc = "done" /\ call' = [call EXCEPT ![c] = e]
      /\ LayerUnchanged /\ UNCHANGED <<session, store>>
  BY DEF Answer
<1>2. Context /\ call[c] \in CallType
  <2>1. Context
    BY DEF IInv, Context
  <2> QED BY <2>1, Before
<1>3. result \in Results /\ (result = "ok" => call[c].result = "ok")
  <2>1. call[c].result \in Results /\ "overtime" \in Results
    BY <1>2, FieldTypes DEF Results
  <2> QED BY <2>1
<1> HIDE DEF result
<1>4. e \in CallType
  <2>1. call[c].bug \in (Nat \X Nat) \cup {None}
    BY <1>2, FieldTypes
  <2> QED BY <1>3, <2>1, IdleTyped, PositionFacts, SetPc, SetBug, SetResult, Zenon
<1>5. e.pc = "answered" /\ e.result = result /\ e.bug = call[c].bug /\ e.kind = "none" /\ e.typed = FALSE
  BY IdleTyped DEF IdleCall
<1> HIDE DEF e
<1>6. Sound(c, e)
  BY <1>5 DEF Sound, Suits, TypesSafely, Timed, Heading, Seeking, OnBug
<1>7. MovesAside(c)
  <2>1. Moves(c, e) /\ Aside(e)
    BY <1>1, <1>4, <1>5, <1>6 DEF Moves, Exact, Aside, Heading, GivesUp, SessionPcs
  <2> QED BY <2>1 DEF MovesAside
<1>8. StartsFit'
  BY <1>1, <1>2, <1>4, <1>5, StartsKept DEF IInv, LayerUnchanged, store
<1>9. StoreTypeOK'
  BY <1>1 DEF IInv, TypeOK, StoreTypeOK, store
<1>10. RunsKept'
  <2>1. \A d \in Calls : call[d].pc = "saveRun" => call'[d] = call[d]
    BY <1>1, <1>2, <1>4, AtMost
  <2> QED BY <1>1, <2>1 DEF IInv, RunsKept, store
<1>11. EachExcused'
  <2>1. \A d \in Calls :
          /\ op(d)' = op(d)
          /\ call[d].pc \in {"saveBug", "deleteShot"} => call'[d] = call[d]
          /\ call'[d].bug = call[d].bug
          /\ call[d].pc \in {"done", "answered"} /\ call[d].result # "ok" =>
               call'[d].pc \in {"done", "answered"} /\ call'[d].result # "ok"
    BY <1>1, <1>2, <1>3, <1>4, <1>5, AtMost DEF op, LayerUnchanged
  <2> QED BY <1>1, <2>1 DEF IInv, EachExcused, Excuses, store
<1>12. StaysTold(c)
  BY <1>1, <1>2, <1>3, <1>4, <1>5, AtMost DEF StaysTold
<1> QED BY <1>1, <1>7, <1>8, <1>9, <1>10, <1>11, <1>12, RecordStepKeeps DEF SessionPcs

\* Nothing happens to the calls, the session and the records.
LEMMA QuietKeeps ==
    ASSUME IInv, UNCHANGED <<load, connected, call, session, store>>,
           OrchestraTypeOK', changes' \in Nat, Searches'
    PROVE  IInv'
<1>1. \A c \in Calls : op(c)' = op(c) /\ InHand(c)' = InHand(c) /\ call'[c] = call[c]
  BY DEF op, InHand
<1>2. LoadOK' /\ Locals'
  BY <1>1 DEF IInv, LoadOK, Locals, Sound, Suits, TypesSafely, Timed
<1>3. OnePlace' /\ InTurn' /\ Accounted'
  BY <1>1 DEF IInv, OnePlace, InTurn, Accounted, FailedOrOverlapped, session
<1>4. BuildsFit' /\ StartsFit'
  BY <1>1 DEF IInv, BuildsFit, Selecting, StartsFit, Starting, session, store
<1>5. RunsKept' /\ EachExcused'
  BY <1>1 DEF IInv, RunsKept, EachExcused, Excuses, store
<1>6. SessionTypeOK' /\ StoreTypeOK'
  BY DEF IInv, TypeOK, SessionTypeOK, StoreTypeOK, session, store
<1> QED BY <1>2, <1>3, <1>4, <1>5, <1>6 DEF IInv, TypeOK

LEMMA SearchesStay ==
    ASSUME Searches, UNCHANGED <<load, screen, changes, call>>
    PROVE  Searches'
<1> SUFFICES ASSUME NEW c \in Calls
             PROVE  Searched(c, call[c], screen.pos)'
  BY DEF Searches
<1>1. Searched(c, call[c], screen.pos)
  BY DEF Searches
<1>2. (Alone(c)' <=> Alone(c)) /\ call'[c] = call[c] /\ screen'.pos = screen.pos
  BY DEF Alone, op
<1> QED BY <1>1, <1>2 DEF Searched, Progress, Onward, Unseen, Top, Budget, Heading, op

LEMMA AppChangesKeeps ==
    ASSUME IInv, AppChanges, UNCHANGED <<session, store>>
    PROVE  IInv' /\ UNCHANGED call
<1>1. TypeOK /\ LoadOK
  BY DEF IInv
<1>2. UNCHANGED <<load, now, front, connected, launched, keyboardHint, call>> /\ changes' = changes + 1
  BY DEF AppChanges, shared
<1>3. screen' \in Screens
  <2>1. /\ screen \in Screens
        /\ load.moves \in [here : SUBSET Elem, focus : SUBSET (Elem \cup {None}),
                           keyboard : SUBSET BOOLEAN, busy : SUBSET BOOLEAN, pos : SUBSET (0 .. LastPage)]
    BY <1>1, Facts, LoadFacts
  <2>2. CASE \E e \in load.moves.here : screen' = [screen EXCEPT !.here = (@ \ {e}) \cup ({e} \ @)]
    BY <2>1, <2>2 DEF Screens
  <2>3. CASE \E f \in load.moves.focus : screen' = [screen EXCEPT !.focus = f]
    BY <2>1, <2>3 DEF Screens
  <2>4. CASE \E b \in load.moves.keyboard : screen' = [screen EXCEPT !.keyboard = b]
    BY <2>1, <2>4 DEF Screens
  <2>5. CASE \E b \in load.moves.busy : screen' = [screen EXCEPT !.busy = b]
    BY <2>1, <2>5 DEF Screens
  <2>6. CASE \E p \in load.moves.pos : screen' = [screen EXCEPT !.pos = p]
    BY <2>1, <2>6 DEF Screens
  <2> QED BY <2>2, <2>3, <2>4, <2>5, <2>6 DEF AppChanges
<1>4. OrchestraTypeOK'
  BY <1>1, <1>2, <1>3 DEF TypeOK, OrchestraTypeOK
<1>5. changes' \in Nat /\ changes' # 0
  BY <1>1, <1>2 DEF LoadOK
<1>6. Searches'
  BY <1>5 DEF Searches, Searched, Alone
<1> QED BY <1>2, <1>4, <1>5, <1>6, QuietKeeps

LEMMA TickKeeps ==
    ASSUME IInv, Tick, UNCHANGED <<session, store>>
    PROVE  IInv' /\ UNCHANGED call
<1>1. TypeOK /\ LoadOK /\ Searches
  BY DEF IInv
<1>2. /\ UNCHANGED <<load, changes, screen, front, connected, launched, keyboardHint, call>>
      /\ now' = now + 1 /\ now < load.until
  BY DEF Tick, device, shared
<1>3. OrchestraTypeOK'
  <2>1. now' \in 0 .. load.until
    BY <1>1, <1>2, Facts
  <2> QED BY <1>1, <1>2, <2>1 DEF TypeOK, OrchestraTypeOK
<1>4. Searches'
  BY <1>1, <1>2, SearchesStay
<1> QED BY <1>1, <1>2, <1>3, <1>4, QuietKeeps DEF LoadOK

LEMMA StutterKeeps ==
    ASSUME IInv, UNCHANGED vars
    PROVE  IInv'
<1>1. UNCHANGED <<load, now, screen, changes, front, connected, launched, keyboardHint, call, session, store>>
  BY DEF vars, orchestraVars
<1>2. OrchestraTypeOK' /\ changes' \in Nat
  BY <1>1 DEF IInv, TypeOK, LoadOK, OrchestraTypeOK
<1>3. Searches'
  BY <1>1, SearchesStay DEF IInv
<1> QED BY <1>1, <1>2, <1>3, QuietKeeps

-----------------------------------------------------------------------------
(* The invariant holds at first and is kept.                                *)

LEMMA InitIInv == Init => IInv
<1> SUFFICES ASSUME Init
             PROVE  IInv
  OBVIOUS
<1>1. OrchestraInit /\ SessionInit /\ StoreInit
  BY DEF Init
<1>2. /\ load \in Workloads /\ now = 0 /\ changes = 0 /\ screen = load.screen /\ front = None
      /\ connected = (IF load.selected THEN {1} ELSE {})
      /\ \A c \in Calls : call[c] = IdleCall
      /\ call \in [Calls -> CallType]
  BY <1>1, IdleTyped DEF OrchestraInit
<1>3. LoadOK
  BY <1>2 DEF LoadOK
<1>4. /\ Cardinality(Calls) \in Nat /\ Cardinality(Drivers) \in Nat
      /\ Drivers = 1 .. Cardinality(Drivers)
  BY DriversAssumption, FS_CardinalityType
<1>5. active = (IF load.selected THEN 1 ELSE 0) /\ built = active /\ overlapped = {} /\ left = [c \in Calls |-> 0]
  <2>1. Cardinality({1}) = 1 /\ Cardinality({}) = 0
    BY FS_Singleton, FS_EmptySet
  <2> QED BY <1>1, <1>2, <2>1 DEF SessionInit
<1>6. BuildsFit
  <2>1. Selecting = {c \in Calls : load.ops[c].tool = "select"}
    BY <1>2 DEF Selecting, IdleCall, op
  <2>2. Cardinality({c \in Calls : load.ops[c].tool = "select"}) + (IF load.selected THEN 1 ELSE 0)
          <= Cardinality(Drivers)
    BY <1>2, DriversAssumption
  <2>3. IsFiniteSet({c \in Calls : load.ops[c].tool = "select"})
    BY DriversAssumption, FS_Subset
  <2>4. Cardinality({c \in Calls : load.ops[c].tool = "select"}) \in Nat
    BY <2>3, FS_CardinalityType
  <2> QED BY <1>4, <1>5, <2>1, <2>2, <2>4 DEF BuildsFit
<1>7. 1 \in Drivers \/ ~load.selected
  <2>1. Selecting \subseteq Calls
    BY DEF Selecting
  <2>2. Cardinality(Selecting) \in Nat
    BY <2>1, DriversAssumption, FS_Subset, FS_CardinalityType
  <2> QED BY <1>4, <1>5, <1>6, <2>2 DEF BuildsFit
<1>8. OrchestraTypeOK
  <2>1. load.screen \in Screens /\ load.until \in Nat
    BY <1>3, LoadFacts
  <2>2. launched \in [Drivers -> SUBSET Apps] /\ keyboardHint \in [Drivers -> BOOLEAN]
    BY <1>1 DEF OrchestraInit
  <2> QED BY <1>2, <1>7, <2>1, <2>2 DEF OrchestraTypeOK
<1>9. SessionTypeOK
  BY <1>5, <1>7 DEF SessionTypeOK
<1>10. StoreTypeOK
  BY <1>1, <1>4 DEF StoreInit, StoreTypeOK, Runs, Earlier
<1>11. Locals /\ Searches
  <2>1. \A c \in Calls : Sound(c, call[c])
    BY <1>2 DEF Sound, Suits, TypesSafely, Timed, Heading, Seeking, OnBug, IdleCall
  <2>2. \A c \in Calls : Searched(c, call[c], screen.pos)
    BY <1>2 DEF Searched, Heading, IdleCall
  <2> QED BY <2>1, <2>2 DEF Locals, Searches
<1>12. \A c \in Calls : InHand(c) = 0 /\ call[c].pc = "idle"
  BY <1>2 DEF InHand, Hand, IdleCall
<1>13. OnePlace /\ InTurn /\ Accounted
  <2>1. OnePlace
    BY <1>2, <1>5, <1>12 DEF OnePlace
  <2>2. InTurn
    BY <1>2, <1>5, <1>12 DEF InTurn, SessionPcs
  <2>3. Accounted
    BY <1>2, <1>5 DEF Accounted
  <2> QED BY <2>1, <2>2, <2>3
<1>14. StartsFit
  <2>1. Starting \subseteq Calls
    BY DEF Starting
  <2>2. Cardinality(Starting) \in Nat /\ Cardinality(Starting) <= Cardinality(Calls)
    BY <2>1, DriversAssumption, FS_Subset, FS_CardinalityType
  <2> QED BY <1>1, <1>4, <2>2 DEF StartsFit, StoreInit
<1>15. RunsKept /\ EachExcused
  <2>1. started = 0 /\ shotFiles = bugFiles
    BY <1>1 DEF StoreInit
  <2> QED BY <2>1 DEF RunsKept, EachExcused
<1> QED BY <1>3, <1>6, <1>8, <1>9, <1>10, <1>11, <1>13, <1>14, <1>15 DEF IInv, TypeOK

\* A step is one call's, or leaves the calls alone.
LEMMA StepKeeps ==
    ASSUME IInv, [Next]_vars
    PROVE  IInv' /\ (UNCHANGED call \/ \E c \in Calls : Preserves(c))
<1>1. CASE \E c \in Calls : \/ DeviceTool(c) \/ OrchestraOnly(c) \/ Answer(c)
                            \/ SessionStep(c) /\ UNCHANGED store
                            \/ StoreStep(c)
  <2>1. PICK c \in Calls : Preserves(c)
    BY <1>1, DeviceToolKeeps, OrchestraKeeps, AnswerKeeps, SessionKeeps, StoreStepKeeps
  <2> QED BY <2>1 DEF Preserves
<1>2. CASE World
  BY <1>2, AppChangesKeeps, TickKeeps DEF World
<1>3. CASE UNCHANGED vars
  BY <1>3, StutterKeeps DEF vars, orchestraVars
<1> QED BY <1>1, <1>2, <1>3 DEF Next

LEMMA Invariance == Spec => []IInv
<1>1. IInv /\ [Next]_vars => IInv'
  BY StepKeeps
<1> QED BY InitIInv, <1>1, PTL DEF Spec

-----------------------------------------------------------------------------
(* What the server guarantees.                                              *)

\* Every variable holds a value of its type, for any calls, screens and workloads
\* of the assumed shape.
THEOREM TypeCorrect == Spec => []TypeOK
<1>1. IInv => TypeOK
  BY DEF IInv
<1> QED BY <1>1, Invariance, PTL

\* InputText never sends its text to the field that held the focus before its own tap:
\* a read since then has shown the target focused (WaitForFocus before inputText).
THEOREM FocusBeforeText == Spec => []TypedIntoFocused
<1>1. IInv => TypedIntoFocused
  BY DEF IInv, Locals, Sound, TypesSafely, TypedIntoFocused
<1> QED BY <1>1, Invariance, PTL

\* On a list that nobody else scrolls, scrollSearch says that an element is not found
\* only if it is off the pages that both of its budgets reach.
THEOREM NothingMissed == Spec => []SearchCovers
<1>1. IInv => SearchCovers
  <2> SUFFICES ASSUME IInv, NEW c \in Calls,
                      call[c].pc = "done", call[c].result = "notfound", Alone(c),
                      op(c).elem \in screen.here
               PROVE  Page[op(c).elem] \notin Top(call[c]) - 1 .. Min({LastPage, Top(call[c]) + Budget}) + 1
    BY DEF SearchCovers, Top
  <2>1. Searched(c, call[c], screen.pos)
    BY DEF IInv, Searches
  <2> QED BY <2>1 DEF Searched, Unseen
<1> QED BY <1>1, Invariance, PTL

\* The active driver is connected at all times; and each other connected driver is in the
\* hands of a select or disconnect in progress, or of the two kinds that the code leaves
\* behind: that of a select that failed after the channel was open, and the one that an
\* install overwrote, which only a call that overlapped another one does
\* (DeviceSession's two critical sections, Factory.Build's error return).
THEOREM NoDriverLost == Spec => []DriversAccounted
<1>1. IInv => DriversAccounted
  <2> SUFFICES ASSUME IInv
               PROVE  DriversAccounted
    OBVIOUS
  <2>1. active \in connected \cup {0} /\ 0 \notin connected
    BY SessionFacts
  <2> SUFFICES ASSUME NEW d \in connected, d # active
               PROVE  HeldByCall(d) \/ \E c \in Calls : left[c] = d /\ FailedOrOverlapped(c)
    BY <2>1 DEF DriversAccounted
  <2>2. PICK c \in Calls : InHand(c) = d \/ left[c] = d
    BY DEF IInv, Accounted
  <2>3. CASE InHand(c) = d
    BY <2>1, <2>3 DEF InHand, Hand, drv, HeldByCall
  <2>4. CASE left[c] = d
    <3>1. FailedOrOverlapped(c)
      BY <2>1, <2>4 DEF IInv, Accounted
    <3> QED BY <2>4, <3>1
  <2> QED BY <2>2, <2>3, <2>4
<1> QED BY <1>1, Invariance, PTL

\* However tool calls on runs and bugs interleave and fail, a run that is over is in
\* storage or about to be or its loss was reported, and a screenshot without its bug is
\* in the hands of a call on that very bug or was left by one whose caller was told of an
\* error (RunStore's sections against the report files).
THEOREM NothingLost == Spec => []RecordsKept
<1>1. IInv => RecordsKept
  <2> SUFFICES ASSUME IInv
               PROVE  RecordsKept
    OBVIOUS
  <2>1. OrphansReported
    <3> SUFFICES ASSUME NEW b \in shotFiles, Orphan(b)
                 PROVE  \E c \in Calls : /\ op(c).tool \in {"bug", "deleteBug"} /\ call[c].bug = b
                                         /\ call[c].pc \in {"done", "answered"} /\ call[c].result # "ok"
      BY DEF OrphansReported
    <3>1. PICK c \in Calls : Excuses(c, b)
      BY DEF IInv, EachExcused, Orphan
    <3> QED BY <3>1 DEF Excuses, Orphan
  <2> QED BY <2>1 DEF IInv, RecordsKept
<1> QED BY <1>1, Invariance, PTL

\* What WaitsExact asks of one call in one step.
Waits(c) ==
  LET r == call[c]  s == call'[c]
  IN /\ s.pc = "poll" /\ r.pc # "poll" => now <= s.deadline
     /\ s.kind = "transition" => s.deadline <= s.hard
     /\ GivesUp(r, s) => now >= r.deadline

LEMMA CallsWait ==
    ASSUME IInv, [Next]_vars
    PROVE  \A c \in Calls : Waits(c)
<1> SUFFICES ASSUME NEW d \in Calls
             PROVE  Waits(d)
  OBVIOUS
<1>1. IInv' /\ (UNCHANGED call \/ \E c \in Calls : Preserves(c))
  BY StepKeeps
<1>2. Timed(call[d]) /\ Timed(call'[d])
  <2>1. Sound(d, call[d]) /\ Sound(d, call[d])'
    BY <1>1 DEF IInv, Locals
  <2> QED BY <2>1 DEF Sound, Timed
<1>3. CASE call'[d] = call[d]
  <2>1. ~GivesUp(call[d], call[d])
    BY <1>2 DEF GivesUp, Timed
  <2> QED BY <1>2, <1>3, <2>1 DEF Waits, Timed
<1>4. CASE \E e : Exact(call[d], e) /\ call'[d] = e
  BY <1>2, <1>4 DEF Waits, Exact, Timed
<1>5. call'[d] = call[d] \/ \E e : Exact(call[d], e) /\ call'[d] = e
  <2>1. call \in [Calls -> CallType]
    BY DEF IInv, TypeOK, OrchestraTypeOK
  <2>2. CASE UNCHANGED call
    BY <2>2
  <2>3. CASE \E c \in Calls : Preserves(c)
    <3>1. PICK c \in Calls : \E e : Exact(call[c], e) /\ call' = [call EXCEPT ![c] = e]
      BY <2>3 DEF Preserves
    <3>2. PICK e : Exact(call[c], e) /\ call' = [call EXCEPT ![c] = e]
      BY <3>1
    <3>3. call'[d] = IF d = c THEN e ELSE call[d]
      BY <2>1, <3>2
    <3> QED BY <3>2, <3>3
  <2> QED BY <1>1, <2>2, <2>3
<1> QED BY <1>3, <1>4, <1>5

\* A wait starts no later than its deadline, no window of WaitForTransition ends after
\* the hard timeout, and no wait gives up before its deadline (WaitUntil's clamped sleep).
THEOREM WaitsToTheEnd == Spec => WaitsExact
<1>1. IInv /\ [Next]_vars =>
        [\A c \in Calls :
           LET r == call[c]  s == call'[c]
           IN /\ s.pc = "poll" /\ r.pc # "poll" => now <= s.deadline
              /\ s.kind = "transition" => s.deadline <= s.hard
              /\ GivesUp(r, s) => now >= r.deadline]_orchestraVars
  BY CallsWait DEF Waits
<1> QED BY <1>1, Invariance, PTL DEF Spec, WaitsExact
=============================================================================
