--------------------------- MODULE PointerGesture ----------------------------
(***************************************************************************)
(* The pointer step and the gestures built on it, from a validated step to *)
(* the calls the driver gets and the screenshots that are kept.  The screen *)
(* holds still while a gesture is resolved: what moves is Orchestra's        *)
(* subject.  Times are milliseconds.                                         *)
(***************************************************************************)
EXTENDS ScriptDocument

CONSTANTS Bounds,       \* the element each selector text finds: its four edges
          MaxWaitMs, MaxMoveMs, DefaultMoveMs, DragMinPressMs, LongPressMs, RotateRadius

ASSUME GestureLimits ==
  /\ {MaxWaitMs, MaxMoveMs, DefaultMoveMs, DragMinPressMs, LongPressMs} \subseteq Nat

Kind(a) == Get(a, "type")[2]
Amount(v) == v[2]
AmountOr(s, field, default) == IF Given(s, field) THEN Amount(Get(s, field)) ELSE default
Ms(a) == AmountOr(a, "ms", 0)

-----------------------------------------------------------------------------
(* Targets.                                                                 *)

HalfWay(a, b) == (a + b) \div 2
\* BoundsAnchor
AnchorPoint(b, anchor) ==
    LET x == CASE anchor \in {"topLeft", "bottomLeft", "left"} -> b.left
               [] anchor \in {"topRight", "bottomRight", "right"} -> b.right
               [] OTHER -> HalfWay(b.left, b.right)
        y == CASE anchor \in {"topLeft", "topRight", "top"} -> b.top
               [] anchor \in {"bottomLeft", "bottomRight", "bottom"} -> b.bottom
               [] OTHER -> HalfWay(b.top, b.bottom)
    IN  <<x, y>>
Shifted(p, dx, dy) == <<p[1] + dx, p[2] + dy>>

\* resolvePointerTarget
PointOf(t) ==
    LET point == Get(t, "point")
        text  == Get(Get(t, "selector"), "text")
        by    == Get(t, "offset")
        anchor == IF Given(t, "anchor") THEN Get(t, "anchor")[2] ELSE "center"
    IN  CASE Given(t, "point") -> <<Amount(Get(point, "x")), Amount(Get(point, "y"))>>
          [] ~Given(t, "point") /\ text # Nil /\ text[2] \in DOMAIN Bounds ->
                 Shifted(AnchorPoint(Bounds[text[2]], anchor), AmountOr(by, "dx", 0), AmountOr(by, "dy", 0))
          [] OTHER -> Error

-----------------------------------------------------------------------------
(* What a sequence of actions must look like, and what it asks for.         *)

Open(actions, i) ==
    \E j \in 1..(i - 1) : Kind(actions[j]) = "down" /\ \A k \in (j + 1)..(i - 1) : Kind(actions[k]) # "up"

\* validateSingleSequence
WellFormed(actions) ==
    /\ actions # <<>> /\ Kind(actions[1]) = "down" /\ Kind(Last(actions)) = "up"
    /\ \A i \in DOMAIN actions :
           /\ Open(actions, i) = (Kind(actions[i]) # "down")
           /\ Kind(actions[i]) = "wait" => Ms(actions[i]) \in 0..MaxWaitMs

HasPressure(actions) == \E a \in ToSet(actions) : Kind(a) \in {"down", "move"} /\ Given(a, "pressure")
HasCapture(actions) == \E a \in ToSet(actions) : Kind(a) = "capture"
\* Mutant: a hold before a drag is left to the swipe, which has no hold.
HasHoldThenDragNever(actions) == FALSE
HasHoldThenDrag(actions) ==
    \E i, j \in DOMAIN actions : i < j /\ Kind(actions[i]) = "wait" /\ Ms(actions[i]) > 0 /\ Kind(actions[j]) = "move"

Cost(a, moveMs) == CASE Kind(a) = "wait" -> Ms(a) [] Kind(a) = "move" -> moveMs [] OTHER -> 0
\* compilePointerWaypoints: every action is a waypoint, at the clock and the live point,
\* which is that of the last down or move.
Waypoints(actions, moveMs) ==
    LET live[i \in 0..Len(actions)] ==
            IF i = 0 THEN [at |-> 0, point |-> Error]
            ELSE [at |-> live[i - 1].at + Cost(actions[i], moveMs),
                  point |-> IF Given(actions[i], "target") THEN PointOf(Get(actions[i], "target")) ELSE live[i - 1].point]
    IN  [i \in DOMAIN actions |->
            [phase |-> IF Kind(actions[i]) = "wait" THEN "move" ELSE Kind(actions[i]),
             point |-> live[i].point, at |-> live[i].at, pressure |-> Get(actions[i], "pressure")]]
Resolved(actions) == \A a \in ToSet(actions) : Given(a, "target") => PointOf(Get(a, "target")) # Error

-----------------------------------------------------------------------------
(* Dispatch: what the driver is called with, and the screenshots kept.      *)

Performed(ok, call, shots) == [ok |-> ok, call |-> call, shots |-> shots]
Refused == Performed(FALSE, <<>>, <<>>)
Ok(call, shots) == Performed(TRUE, call, shots)

\* The places of the captures, in order.
Captures(actions) == Numbered({i \in DOMAIN actions : Kind(actions[i]) = "capture"})

\* Mutant: the label of a capture is passed over.
LabelUnnamed(a, step, n) == <<step, n>>
Label(a, step, n) == IF Given(a, "label") THEN <<Get(a, "label")[2]>> ELSE <<step, n>>

\* pointerCaptureLabels, over the actions of all touches.
Labels(actions, step) ==
    LET captures == Captures(actions) IN [n \in DOMAIN captures |-> Label(actions[captures[n]], step, n)]

\* routePointerCaptures over the images of a driver: one per capture waypoint, in
\* the order of the gesture's pointers and their waypoints.
Images(touches) ==
    LET Of(t) == LET captures == Captures(touches[t]) IN [n \in DOMAIN captures |-> <<t, captures[n]>>]
    IN  FlattenSeq([t \in DOMAIN touches |-> Of(t)])
Screenshots(touches, step) ==
    LET images == Images(touches)
        labels == Labels(FlattenSeq(touches), step)
    IN  [n \in DOMAIN images |-> [label |-> labels[n], image |-> images[n]]]

Gesture(touches, moveMs, step) ==
    Ok(<<"gesture", [t \in DOMAIN touches |-> Waypoints(touches[t], moveMs)]>>, Screenshots(touches, step))

\* classifyPointerPattern and dispatchPointerPattern.
Pattern(actions) ==
    LET kinds == [i \in 1..(Len(actions) - 1) |-> Kind(actions[i])]
        At(i) == PointOf(Get(actions[i], "target"))
    IN  CASE kinds = <<"down">> -> Ok(<<"tap", At(1)>>, <<>>)
          [] kinds = <<"down", "wait">> -> Ok(<<"longPress", At(1), Ms(actions[2])>>, <<>>)
          [] kinds = <<"down", "move">> -> Ok(<<"swipe", At(1), At(2), DragMinPressMs>>, <<>>)
          [] kinds = <<"down", "wait", "move">> -> Ok(<<"swipe", At(1), At(3), Ms(actions[2])>>, <<>>)
          [] OTHER -> Refused

\* dispatchSingleTouch
SingleTouch(actions, moveMs, can, step) ==
    IF ~WellFormed(actions) \/ (HasPressure(actions) /\ ~can.pressure) \/ ~Resolved(actions) THEN Refused
    ELSE IF HasPressure(actions) \/ HasCapture(actions) \/ HasHoldThenDrag(actions) THEN Gesture(<<actions>>, moveMs, step)
    ELSE Pattern(actions)

\* dispatchMultiTouch, over touches [id, actions].
MultiTouch(touches, moveMs, can, step) ==
    LET paths == [t \in DOMAIN touches |-> touches[t].actions]
    IN  IF /\ can.multi
           /\ \A t, u \in DOMAIN touches : t # u => touches[t].id # touches[u].id
           /\ \A t \in DOMAIN paths : WellFormed(paths[t]) /\ Resolved(paths[t])
           /\ HasPressure(FlattenSeq(paths)) => can.pressure
        THEN Gesture(paths, moveMs, step) ELSE Refused

\* executePointer
ExecutePointer(s, can, step) ==
    LET touches == Get(s, "touches")[2]
        Touch(t) == [id |-> Get(t, "id"), actions |-> Get(t, "actions")[2]]
        moveMs  == AmountOr(s, "moveDurationMs", DefaultMoveMs)
    IN  IF moveMs \notin 0..MaxMoveMs \/ touches = <<>> THEN Refused
        ELSE IF Len(touches) > 1 THEN MultiTouch([t \in DOMAIN touches |-> Touch(touches[t])], moveMs, can, step)
        ELSE SingleTouch(Touch(touches[1]).actions, moveMs, can, step)

-----------------------------------------------------------------------------
(* The gestures that are written as one step: touches of their own.         *)

TouchAction(type, fields) == Map(<<<<"type", Str(type)>>>> \o fields)
To(type, target) == TouchAction(type, <<<<"target", target>>>>)
Point(type, p) == To(type, Map(<<<<"point", Map(<<<<"x", Num(p[1])>>, <<"y", Num(p[2])>>>>)>>>>))
Up == TouchAction("up", <<>>)

\* executeLongPress
ExecuteLongPress(s, can, step) ==
    LET down == To("down", Get(s, "at"))
        hold == TouchAction("wait", <<<<"ms", Num(AmountOr(s, "holdMs", LongPressMs))>>>>)
        drag == To("move", Get(s, "thenSwipeTo"))
    IN  SingleTouch(IF Given(s, "thenSwipeTo") THEN <<down, hold, drag, Up>> ELSE <<down, hold, Up>>,
                    DefaultMoveMs, can, step)

GapSpot(center, level, side, gap) ==
    LET d == side * (gap \div 2)
    IN  IF level THEN Shifted(center, d, 0) ELSE Shifted(center, 0, d)

\* executePinch
ExecutePinch(s, can, step) ==
    LET center == PointOf(Get(s, "center"))
        level  == Get(s, "axis") = Str("horizontal")
        Finger(id, side) ==
            [id |-> id, actions |-> <<Point("down", GapSpot(center, level, side, Amount(Get(s, "startGap")))),
                                      Point("move", GapSpot(center, level, side, Amount(Get(s, "endGap")))), Up>>]
    IN  IF center = Error THEN Refused
        ELSE MultiTouch(<<Finger("pinch-1", 1), Finger("pinch-2", -1)>>,
                        AmountOr(s, "durationMs", DefaultMoveMs), can, step)

\* executeRotate, arcTouch; a point of an arc stands for itself, by its angle in
\* eighths of a degree, and the duration is counted in eighths as well.
ArcSegments == 8
ExecuteRotate(s, can, step) ==
    LET center == PointOf(Get(s, "center"))
        radius == AmountOr(s, "radius", RotateRadius)
        Spot(start, i) == <<radius, ArcSegments * start + i * Amount(Get(s, "degrees"))>>
        Finger(id, start) ==
            [id |-> id, actions |-> <<Point("down", Spot(start, 0))>> \o
                                    [i \in 1..ArcSegments |-> Point("move", Spot(start, i))] \o <<Up>>]
    IN  IF center = Error THEN Refused
        ELSE MultiTouch(<<Finger("rotate-1", 0), Finger("rotate-2", 180)>>,
                        AmountOr(s, "durationMs", DefaultMoveMs) \div ArcSegments, can, step)

Gestures == {"pointer", "longPress", "pinch", "rotate"}
\* PointerCommand, LongPressCommand, PinchCommand, RotateCommand.
Perform(s, can, step) ==
    LET command == Get(s, "command")[2]
    IN  CASE command = "pointer"   -> ExecutePointer(s, can, step)
          [] command = "longPress" -> ExecuteLongPress(s, can, step)
          [] command = "pinch"     -> ExecutePinch(s, can, step)
          [] command = "rotate"    -> ExecuteRotate(s, can, step)
=============================================================================
