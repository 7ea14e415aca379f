----------------------------- MODULE ScriptPlay ------------------------------
(***************************************************************************)
(* The runner from a definition on: the steps it plays one after the other, *)
(* the variables they bind, and what the driver is called with; beside the  *)
(* questions of ScriptQueries.                                              *)
(***************************************************************************)
EXTENDS ScriptQueries, PointerGesture

CONSTANTS Traffic,      \* the request every capture of a script has found
          Drivers       \* [pressure, multi]: the capabilities of the drivers there are

\* Of a script, `result` is its definition.
VARIABLE run    \* the script being played: the next step, its variables, the last gesture

playVars == <<kind, source, stage, result, run>>

Idle == [next |-> 1, variables |-> <<>>, gesture |-> <<>>]

At(k, s) == kind = k /\ stage = s /\ UNCHANGED <<kind, source>>

\* Run starts with the definition's environment as its variables.
StartRun ==
  /\ At("script", "accepted")
  /\ stage' = "playing"
  /\ run' = [Idle EXCEPT !.variables = [x \in Keys(Get(result, "env")) |-> Get(Get(result, "env"), x)[2]]]
  /\ UNCHANGED result

\* The next step is played; a failed one ends the run.
Steps == Get(result, "steps")[2]
NextStep == Steps[run.next]
Plays(commands) ==
  /\ At("script", "playing") /\ run.next \in DOMAIN Steps
  /\ Get(NextStep, "command")[2] \in commands
  /\ UNCHANGED result
Passed(ok, variables, gesture) ==
  /\ stage' = IF ok THEN "playing" ELSE "failed"
  /\ run' = [next |-> run.next + 1, variables |-> variables, gesture |-> gesture]

PlayGesture ==
  /\ Plays(Gestures)
  /\ \E can \in Drivers :
       LET played == Perform(NextStep, can, run.next)
       IN Passed(played.ok, run.variables, [played |-> played, step |-> NextStep])

PlayExtract ==
  /\ Plays({"extract"})
  /\ LET extracted == ExtractCommand(Traffic, NextStep, run.variables)
     IN Passed(extracted.ok, extracted.variables, <<>>)

PlayAssertApi ==
  /\ Plays({"assertApi"})
  /\ Passed(AssertApiCommand(Traffic, NextStep), run.variables, <<>>)

\* assertVisible looks for its selector's text as it stands.
PlayAssertVisible ==
  /\ Plays({"assertVisible"})
  /\ Passed(Get(Get(NextStep, "selector"), "text")[2] \in DOMAIN Bounds, run.variables, <<>>)

\* What the rules of a definition see to, as far as the commands here rely on it.
Playable(def) ==
  \A s \in ToSet(Get(def, "steps")[2]) :
    /\ Get(s, "command") = Str("pointer")
         => \A touch \in ToSet(Get(s, "touches")[2]) :
              LET actions == Get(touch, "actions")[2]
              IN /\ actions \in Seq(ToSet(actions))
                 /\ \A a \in ToSet(actions) : Given(a, "target") = (Kind(a) \in {"down", "move"})
    /\ Get(s, "command") = Str("pointer") => Get(s, "touches")[2] \in Seq(ToSet(Get(s, "touches")[2]))
    /\ Get(s, "command") = Str("longPress") => Given(s, "at")

PlayInit == kind = "script" /\ stage = "accepted" /\ run = Idle /\ Playable(result)

PlayNext == StartRun \/ PlayGesture \/ PlayExtract \/ PlayAssertApi \/ PlayAssertVisible

PlaySpec == PlayInit /\ [][PlayNext]_playVars

------------------------------------------------------------------------------
(* A trace is what happens to one finger: it goes [to] a place, or stays     *)
(* where it is, and spends [ms] there.                                       *)

Onward(f, e) ==
  LET places == IF e.to = <<>> \/ (f.places # <<>> /\ Last(f.places) = e.to[1]) THEN f.places
                ELSE Append(f.places, e.to[1])
  IN [places |-> places, rest |-> IF Len(places) > 1 THEN f.rest ELSE f.rest + e.ms]

\* The places a finger visits, and how long it rests at the first of them.
Followed(trace) ==
  LET finger[i \in 0..Len(trace)] ==
        IF i = 0 THEN [places |-> <<>>, rest |-> 0] ELSE Onward(finger[i - 1], trace[i])
  IN finger[Len(trace)]

Stay(ms) == [to |-> <<>>, ms |-> ms]
GoTo(point, ms) == [to |-> <<point>>, ms |-> ms]

\* What a step says of a finger, if a move takes this long.
Told(actions, moveMs) ==
  Followed([i \in DOMAIN actions |->
              IF Given(actions[i], "target") THEN GoTo(PointOf(Get(actions[i], "target")), Cost(actions[i], moveMs))
              ELSE Stay(Cost(actions[i], moveMs))])
ToldLongPress(s, moveMs) ==
  LET at == GoTo(PointOf(Get(s, "at")), 0)
      hold == Stay(AmountOr(s, "holdMs", LongPressMs))
  IN Followed(IF Given(s, "thenSwipeTo") THEN <<at, hold, GoTo(PointOf(Get(s, "thenSwipeTo")), moveMs)>> ELSE <<at, hold>>)

\* What the driver was called with says of the finger.
Dispatched(call, finger) ==
  CASE call[1] = "tap" -> Followed(<<GoTo(call[2], 0)>>)
    [] call[1] = "longPress" -> Followed(<<GoTo(call[2], call[3])>>)
    [] call[1] = "swipe" -> Followed(<<GoTo(call[2], 0), GoTo(call[3], 0)>>)
    [] OTHER -> LET path == call[2][finger]
                    Since(i) == path[i].at - (IF i = 1 THEN 0 ELSE path[i - 1].at)
                IN Followed([i \in DOMAIN path |-> GoTo(path[i].point, Since(i))])

Played == stage \in {"playing", "failed"} /\ run.gesture # <<>> /\ run.gesture.played.ok

\* Played as told: a move to where the finger is already may count as a rest or not.
Keeps(dispatched, told(_), moveMs) ==
  /\ dispatched.places = told(0).places
  /\ told(0).rest <= dispatched.rest /\ dispatched.rest <= told(moveMs).rest

\* Whichever of the driver's calls a gesture ends up as (tap, long press, swipe, or
\* waypoints), each finger visits the authored places in their order and rests at the
\* first of them for as long as it was told to (hasHoldThenDrag keeps a hold from being
\* absorbed by a swipe).
GestureKept ==
  Played
    => LET s == run.gesture.step
           call == run.gesture.played.call
           touches == Get(s, "touches")[2]
           Finger(t, ms) == Told(Get(touches[t], "actions")[2], ms)
       IN /\ Get(s, "command") = Str("pointer")
               => \A t \in DOMAIN touches :
                    Keeps(Dispatched(call, t), LAMBDA ms : Finger(t, ms), AmountOr(s, "moveDurationMs", DefaultMoveMs))
          /\ Get(s, "command") = Str("longPress")
               => Keeps(Dispatched(call, 1), LAMBDA ms : ToldLongPress(s, ms), DefaultMoveMs)

\* Every capture of an accepted gesture yields one screenshot, under its own label,
\* and two captures without one are never confused: the labels are counted over the
\* touches in the order in which the driver answers with their images.
CapturesLabelled ==
  Played /\ Get(run.gesture.step, "command") = Str("pointer")
    => LET touches == Get(run.gesture.step, "touches")[2]
           Actions(t) == Get(touches[t], "actions")[2]
           Taken(x) == Actions(x.image[1])[x.image[2]]
           marks == UNION {{<<t, i>> : i \in {i \in DOMAIN Actions(t) : Kind(Actions(t)[i]) = "capture"}} : t \in DOMAIN touches}
           shots == ToSet(run.gesture.played.shots)
       IN /\ {x.image : x \in shots} = marks /\ Len(run.gesture.played.shots) = Cardinality(marks)
          /\ \A x \in shots : Given(Taken(x), "label") => x.label = <<Get(Taken(x), "label")[2]>>
          /\ \A x, y \in shots : x.label = y.label /\ x # y => Given(Taken(x), "label")
=============================================================================
