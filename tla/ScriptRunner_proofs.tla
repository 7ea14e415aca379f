------------------------ MODULE ScriptRunner_proofs -------------------------
(***************************************************************************)
(* The inductive invariant of a run and its steps, for SuiteRunner_proofs. *)
(* The calls are looked at from the outermost one: what lies below the     *)
(* innermost call keeps its place when it calls or returns.                *)
(***************************************************************************)
EXTENDS ScriptRunner, FiniteSetTheorems, TLAPS

N == Len(frames)

\* The calls, outermost first.
Stack == [p \in 1..Len(frames) |-> frames[Len(frames) + 1 - p]]

Loops == {"main", "steps"}

\* The call is between a step's StepStarted and its StepCompleted.
InStep(c) == c.at \in Loops /\ c.phase \in {"run", "call"}

\* The phases that a call of each kind passes, and the positions it can be at in them.
CallOK(c) ==
    /\ c.at = "requires" =>
           /\ c.phase \in {"next", "call"}
           /\ c.phase = "call" => c.i <= Len(Requires[main])
    /\ c.at = "pre" =>
           /\ c.phase \in {"next", "call", "confirm"}
           /\ c.phase # "next" => c.i <= Len(Pre[c.of])
    /\ c.at = "flow" => c.phase \in {"next", "call"}
    /\ c.at \in Loops =>
           /\ c.phase \in {"next", "checked", "run", "call", "classify"}
           /\ c.phase \in {"checked", "run", "call"} => c.i <= Len(Body[c.of])
    /\ c.phase = "classify" => c.at = "main"

\* A call that another one lies on waits for it.
AtStart(c) == c.at \in {"flow", "main"} /\ c.phase = "next"
Waits(c, d) == c.phase = "call" \/ (AtStart(c) /\ d.at = "pre" /\ d.of = c.of)

Shape ==
    /\ result = "running" <=> N > 0
    /\ \A p \in 1..N : CallOK(Stack[p]) /\ (Stack[p].at \in {"requires", "main"} <=> p = 1)
    /\ N > 0 => Stack[1].of = main
    /\ \A p \in 1..N : p < N => Waits(Stack[p], Stack[p + 1])

\* The step lists among the p outermost calls.
Lists(stack, p) == Cardinality({q \in 1..p : stack[q].at = "steps"})
Depth(p) == Lists(Stack, p)

\* Every open event belongs to a call that is in a step, in order, one each.
Owns(owner) ==
    /\ \A j, k \in 1..Len(open) : j < k => owner[j] < owner[k]
    /\ \A j \in 1..Len(open) : InStep(Stack[owner[j]]) /\ open[j].depth = Depth(owner[j])
    /\ \A p \in 1..N : InStep(Stack[p]) => \E j \in 1..Len(open) : owner[j] = p

Nesting ==
    /\ depth = Depth(N)
    /\ \E owner \in [1..Len(open) -> 1..N] : Owns(owner)

Indices ==
    /\ \A j, k \in 1..Len(open) : j < k => open[j].index < open[k].index
    /\ \A j \in 1..Len(open) : open[j].index < index

\* Only the call whose check had passed could still start a step, and it has.
Late == late = 0 \/ (late = 1 /\ ctxDone /\ \A p \in 1..N : Stack[p].phase # "checked")

\* After a failure the calls only return it, up to the outermost one.
Unwinding ==
    result = "running" /\ failed =>
        \/ Stack[N].phase = "classify"
        \/ (ret = "fail" /\ (Stack[N].phase = "call" \/ AtStart(Stack[N])))

\* The preconditions of the script that have been dealt with: all, unless they still run.
Reached == IF N >= 2 /\ Stack[1].phase = "next" THEN Stack[2].i - 1 ELSE Len(Pre[main])

\* A call that has seen the script's precondition j not to hold is about to confirm it.
Confirming(j) ==
    \E p \in 1..N : /\ Stack[p].at = "pre" /\ Stack[p].of = main /\ Stack[p].i = j
                    /\ Stack[p].phase \in {"call", "confirm"}

SkipsOwn(j) == override = "skip" \/ (override = "none" /\ Pre[main][j].policy = "skip")

Held(j) == SkipsOwn(j) \/ <<main, j>> \in confirmed \/ failed \/ Confirming(j)

Gates ==
    N > 0 =>
        /\ \A j \in 1..Len(Requires[main]) :
               Stack[1].at = "requires" => (j < Stack[1].i => Requires[main][j] \in completed)
        /\ Stack[1].at = "main" =>
               /\ \A j \in 1..Len(Requires[main]) : Requires[main][j] \in completed
               /\ \A j \in 1..Len(Pre[main]) : j <= Reached => Held(j)

\* Unless the last reset was blind, nothing written before it is unread or in the buffer:
\* at most the second half of a line is, and that is no line.
Unmixed ==
    /\ \A k \in 1..Len(file) : file[k].request <= begun
    /\ buffer \subseteq 1..begun
    /\ ~blind =>
           /\ \A r \in buffer : r > mark
           /\ \A k \in 1..Len(file) :
                  \/ file[k].request > mark
                  \/ (lastSize <= Len(file) /\ k <= lastSize)
                  \/ (k = lastSize + 1 /\ file[k].half = 2)
Fresh ==
    /\ Unmixed
    /\ captured > mark \/ captured = 0 \/ blind

\* The next run starts with nothing of the last one.
Dropped == result = "idle" => captured = 0 /\ ~failed

RunnerInv ==
    /\ TypeOK /\ Shape /\ Nesting /\ Indices
    /\ Late /\ Unwinding /\ Gates /\ Fresh /\ Dropped

-----------------------------------------------------------------------------
(* What the primitives do to the calls, seen from the outermost one.        *)

Below == \A p \in 1..N - 1 : Stack'[p] = Stack[p]
SetsTo(c) == N' = N /\ Stack'[N] = c /\ Below
Nests(c, d) == N' = N + 1 /\ Stack'[N] = c /\ Stack'[N + 1] = d /\ Below
NestsTwo(c, d, e) ==
    N' = N + 2 /\ Stack'[N] = c /\ Stack'[N + 1] = d /\ Stack'[N + 2] = e /\ Below
Pops == N' = N - 1 /\ Below

\* The innermost call is the last of the stack.
LEMMA TopIsLast ==
    ASSUME frames \in Seq(Calls)
    PROVE  /\ N \in Nat /\ Stack \in [1..N -> Calls]
           /\ frames # <<>> => N > 0 /\ Stack[N] = Top /\ Top \in Calls
           /\ frames = <<>> <=> N = 0
<1>1. N \in Nat /\ frames \in [1..N -> Calls]
  BY DEF N
<1>2. \A p \in 1..N : N + 1 - p \in 1..N
  BY <1>1
<1>3. Stack \in [1..N -> Calls]
  BY <1>1, <1>2 DEF Stack, N
<1>4. frames = <<>> <=> N = 0
  BY DEF N
<1>5. ASSUME frames # <<>>
      PROVE  N > 0 /\ Stack[N] = Top /\ Top \in Calls
  <2>1. N > 0
    BY <1>1, <1>4, <1>5
  <2>2. Top = frames[1] /\ Top \in Calls
    BY <1>1, <1>5, <2>1 DEF Top, N
  <2>3. Stack[N] = frames[N + 1 - N]
    BY <1>1, <2>1 DEF Stack, N
  <2> QED BY <1>1, <2>1, <2>2, <2>3
<1> QED BY <1>1, <1>3, <1>4, <1>5

\* What the stack becomes if its innermost call is replaced by the given ones.
LEMMA Replaced ==
    ASSUME frames \in Seq(Calls), frames # <<>>, NEW top \in Seq(Calls),
           frames' = top \o Tail(frames)
    PROVE  /\ frames' \in Seq(Calls) /\ N' = N - 1 + Len(top) /\ Below
           /\ \A p \in 1..Len(top) : Stack'[N - 1 + p] = top[Len(top) + 1 - p]
<1> DEFINE L == Len(top)
<1>1. N \in Nat \ {0} /\ L \in Nat
  BY TopIsLast
<1>2. Tail(frames) \in Seq(Calls) /\ Len(Tail(frames)) = N - 1
      /\ \A k \in 1..N - 1 : Tail(frames)[k] = frames[k + 1]
  BY <1>1 DEF N
<1>3. frames' \in Seq(Calls) /\ Len(frames') = L + (N - 1)
      /\ (\A k \in 1..L : frames'[k] = top[k])
      /\ \A k \in L + 1..L + (N - 1) : frames'[k] = Tail(frames)[k - L]
  <2> HIDE DEF L
  <2>1. L = Len(top)
    BY DEF L
  <2> QED BY <1>1, <1>2, <2>1
<1>4. N' = N - 1 + L
  BY <1>1, <1>3 DEF N
<1>5. \A p \in 1..N - 1 + L : Stack'[p] = frames'[N - 1 + L + 1 - p]
  BY <1>1, <1>3, <1>4 DEF Stack, N
<1>6. \A p \in 1..N - 1 : Stack[p] = frames[N + 1 - p]
  BY <1>1 DEF Stack, N
<1> HIDE DEF L
<1>7. ASSUME NEW p \in 1..N - 1
      PROVE  Stack'[p] = Stack[p]
  <2>1. p \in 1..N - 1 + L /\ N + L - p \in L + 1..L + (N - 1) /\ N - p \in 1..N - 1
    BY <1>1
  <2>0. N - 1 + L + 1 - p = N + L - p
    BY <1>1
  <2>2. Stack'[p] = frames'[N + L - p]
    BY <1>5, <2>0, <2>1
  <2>9. PICK k \in L + 1..L + (N - 1) : k = N + L - p
    BY <2>1
  <2>3. frames'[N + L - p] = Tail(frames)[N - p]
    <3>1. k - L = N - p
      BY <1>1, <2>9
    <3> QED BY <1>3, <2>9, <3>1
  <2>4. Tail(frames)[N - p] = frames[N + 1 - p]
    BY <1>1, <1>2, <2>1
  <2> QED BY <1>6, <2>2, <2>3, <2>4
<1>8. ASSUME NEW p \in 1..L
      PROVE  Stack'[N - 1 + p] = top[L + 1 - p]
  <2>1. N - 1 + p \in 1..N - 1 + L /\ L + 1 - p \in 1..L
    BY <1>1
  <2>0. N - 1 + L + 1 - (N - 1 + p) = L + 1 - p
    BY <1>1
  <2>2. Stack'[N - 1 + p] = frames'[L + 1 - p]
    BY <1>5, <2>0, <2>1
  <2> QED BY <1>3, <2>1, <2>2
<1> QED BY <1>3, <1>4, <1>7, <1>8 DEF Below, L

LEMMA SetTopMoves ==
    ASSUME frames \in Seq(Calls), frames # <<>>, NEW c \in Calls, SetTop(c)
    PROVE  frames' \in Seq(Calls) /\ SetsTo(c)
<1>1. <<c>> \in Seq(Calls) /\ Len(<<c>>) = 1 /\ <<c>>[1] = c
  OBVIOUS
<1>2. frames' = <<c>> \o Tail(frames)
  BY DEF SetTop
<1>3. N \in Nat \ {0}
  BY TopIsLast
<1>4. /\ frames' \in Seq(Calls) /\ N' = N - 1 + Len(<<c>>) /\ Below
      /\ \A p \in 1..Len(<<c>>) : Stack'[N - 1 + p] = <<c>>[Len(<<c>>) + 1 - p]
  BY <1>1, <1>2, Replaced
<1>5. Stack'[N - 1 + 1] = <<c>>[1]
  BY <1>1, <1>4
<1> QED BY <1>1, <1>3, <1>4, <1>5 DEF SetsTo

LEMMA ReturnMoves ==
    ASSUME frames \in Seq(Calls), frames # <<>>, NEW r, Return(r)
    PROVE  frames' \in Seq(Calls) /\ Pops
<1>1. <<>> \in Seq(Calls) /\ Len(<<>>) = 0 /\ N \in Nat \ {0}
  BY TopIsLast
<1>2. frames' = <<>> \o Tail(frames)
  BY DEF Return
<1>3. frames' \in Seq(Calls) /\ N' = N - 1 + Len(<<>>) /\ Below
  BY <1>1, <1>2, Replaced
<1> QED BY <1>1, <1>3 DEF Pops

LEMMA CallMoves ==
    ASSUME frames \in Seq(Calls), frames # <<>>, NEW d \in Calls, NEW phase,
           [Top EXCEPT !.phase = phase] \in Calls, Call(<<d>>, phase)
    PROVE  frames' \in Seq(Calls) /\ Nests([Top EXCEPT !.phase = phase], d)
<1> DEFINE c == [Top EXCEPT !.phase = phase]
           s == <<d>> \o <<c>>
<1>1. frames' = s \o Tail(frames) /\ N \in Nat \ {0}
  BY TopIsLast DEF Call
<1> HIDE DEF c
<1>2. s \in Seq(Calls) /\ Len(s) = 2 /\ s[1] = d /\ s[2] = c
  <2>1. <<d>> \in Seq(Calls) /\ <<c>> \in Seq(Calls) /\ Len(<<d>>) = 1 /\ Len(<<c>>) = 1
    BY DEF c
  <2> QED BY <2>1
<1> HIDE DEF s
<1>3. /\ frames' \in Seq(Calls) /\ N' = N - 1 + Len(s) /\ Below
      /\ \A p \in 1..Len(s) : Stack'[N - 1 + p] = s[Len(s) + 1 - p]
  BY <1>1, <1>2, Replaced
<1>4. Stack'[N - 1 + 1] = s[2] /\ Stack'[N - 1 + 2] = s[1]
  BY <1>2, <1>3
<1>5. Nests(c, d)
  BY <1>1, <1>2, <1>3, <1>4 DEF Nests
<1> QED BY <1>3, <1>5 DEF c

LEMMA CallFlowMoves ==
    ASSUME frames \in Seq(Calls), frames # <<>>, NEW d \in Calls, NEW e \in Calls, NEW phase,
           [Top EXCEPT !.phase = phase] \in Calls, Call(<<e, d>>, phase)
    PROVE  frames' \in Seq(Calls) /\ NestsTwo([Top EXCEPT !.phase = phase], d, e)
<1> DEFINE c == [Top EXCEPT !.phase = phase]
           s == <<e, d>> \o <<c>>
<1>1. frames' = s \o Tail(frames) /\ N \in Nat \ {0}
  BY TopIsLast DEF Call
<1> HIDE DEF c
<1>2. s \in Seq(Calls) /\ Len(s) = 3 /\ s[1] = e /\ s[2] = d /\ s[3] = c
  <2>1. <<e, d>> \in Seq(Calls) /\ <<c>> \in Seq(Calls) /\ Len(<<e, d>>) = 2 /\ Len(<<c>>) = 1
    BY DEF c
  <2> QED BY <2>1
<1> HIDE DEF s
<1>3. /\ frames' \in Seq(Calls) /\ N' = N - 1 + Len(s) /\ Below
      /\ \A p \in 1..Len(s) : Stack'[N - 1 + p] = s[Len(s) + 1 - p]
  BY <1>1, <1>2, Replaced
<1>4. Stack'[N - 1 + 1] = s[3] /\ Stack'[N - 1 + 2] = s[2] /\ Stack'[N - 1 + 3] = s[1]
  BY <1>2, <1>3
<1>5. NestsTwo(c, d, e)
  BY <1>1, <1>2, <1>3, <1>4 DEF NestsTwo
<1> QED BY <1>3, <1>5 DEF c

-----------------------------------------------------------------------------
(* How many of the calls are step lists.                                    *)

LEMMA ListsCounted ==
    ASSUME NEW stack, NEW p \in Nat
    PROVE  /\ Lists(stack, p) \in Nat /\ Lists(stack, 0) = 0
           /\ Lists(stack, p + 1) =
                  IF stack[p + 1].at = "steps" THEN Lists(stack, p) + 1 ELSE Lists(stack, p)
<1> DEFINE S(n) == {q \in 1..n : stack[q].at = "steps"}
<1>1. IsFiniteSet(S(p))
  <2>1. IsFiniteSet(1..p)
    BY FS_Interval
  <2>2. S(p) \in SUBSET (1..p)
    OBVIOUS
  <2> QED BY <2>1, <2>2, FS_Subset
<1>2. Cardinality(S(p)) \in Nat
  BY <1>1, FS_CardinalityType
<1>3. S(0) = {}
  OBVIOUS
<1>4. CASE stack[p + 1].at = "steps"
  <2>1. S(p + 1) = S(p) \cup {p + 1} /\ p + 1 \notin S(p)
    BY <1>4
  <2>2. Cardinality(S(p) \cup {p + 1}) = Cardinality(S(p)) + 1
    BY <1>1, <2>1, FS_AddElement
  <2> QED BY <1>2, <1>3, <1>4, <2>1, <2>2, FS_EmptySet DEF Lists
<1>5. CASE stack[p + 1].at # "steps"
  <2>1. S(p + 1) = S(p)
    BY <1>5
  <2> QED BY <1>2, <1>3, <1>5, <2>1, FS_EmptySet DEF Lists
<1> QED BY <1>4, <1>5

LEMMA ListsGrow ==
    ASSUME NEW stack, NEW p \in Nat, NEW q \in Nat, p <= q
    PROVE  /\ Lists(stack, p) <= Lists(stack, q)
           /\ p < q /\ stack[q].at = "steps" => Lists(stack, p) < Lists(stack, q)
<1> DEFINE S(n) == {k \in 1..n : stack[k].at = "steps"}
<1>1. ASSUME NEW m \in Nat
      PROVE  IsFiniteSet(S(m))
  <2>1. IsFiniteSet(1..m)
    BY FS_Interval
  <2>2. S(m) \in SUBSET (1..m)
    OBVIOUS
  <2> QED BY <2>1, <2>2, FS_Subset
<1>2. ASSUME NEW m \in Nat, NEW n \in Nat, m <= n
      PROVE  Lists(stack, m) <= Lists(stack, n)
  <2>1. S(m) \in SUBSET S(n)
    BY <1>2
  <2>2. Cardinality(S(m)) <= Cardinality(S(n))
    BY <1>1, <2>1, FS_Subset
  <2> QED BY <2>2 DEF Lists
<1>3. ASSUME p < q, stack[q].at = "steps"
      PROVE  Lists(stack, p) < Lists(stack, q)
  <2>1. q - 1 \in Nat /\ p <= q - 1 /\ (q - 1) + 1 = q
    BY <1>3
  <2>2. Lists(stack, p) <= Lists(stack, q - 1)
    BY <1>2, <2>1
  <2>3. Lists(stack, (q - 1) + 1) = Lists(stack, q - 1) + 1
    BY <1>3, <2>1, ListsCounted
  <2>4. Lists(stack, p) \in Nat /\ Lists(stack, q - 1) \in Nat
    BY <2>1, ListsCounted
  <2> QED BY <2>1, <2>2, <2>3, <2>4
<1> QED BY <1>2, <1>3

LEMMA ListsSame ==
    ASSUME NEW stack, NEW other, NEW p \in Nat, \A q \in 1..p : stack[q].at = other[q].at
    PROVE  Lists(stack, p) = Lists(other, p)
<1>1. {q \in 1..p : stack[q].at = "steps"} = {q \in 1..p : other[q].at = "steps"}
  OBVIOUS
<1> QED BY <1>1 DEF Lists

-----------------------------------------------------------------------------
(* The moves that the steps of a run are made of: what they do to the calls *)
(* and the step events, and when.                                           *)

Stays ==
    \E c \in Calls :
        /\ SetsTo(c) /\ c.at = Top.at /\ c.of = Top.of /\ CallOK(c)
        /\ ~InStep(Top) /\ ~InStep(c) /\ c.phase # "classify"
        /\ c.phase = "checked" => ~ctxDone
        /\ ~failed /\ UNCHANGED <<ret, events, failed, result>>
Starts ==
    \E c \in Calls :
        /\ SetsTo(c) /\ c.at = Top.at /\ c.of = Top.of /\ c.phase = "run" /\ CallOK(c)
        /\ Top.at \in Loops /\ Top.phase = "checked"
        /\ index' = index + 1
        /\ open' = Append(open, [index |-> index,
                                 depth |-> IF Top.at = "main" THEN 0 ELSE depth])
        /\ late' = IF ctxDone THEN late + 1 ELSE late
        /\ ~failed /\ UNCHANGED <<ret, depth, failed, result>>
CallsList ==
    \E c, d \in Calls :
        /\ Nests(c, d) /\ c.at = Top.at /\ c.of = Top.of /\ c.phase = "call" /\ CallOK(c)
        /\ InStep(c) <=> InStep(Top)
        /\ \E list \in Flows : d = Frame("steps", list)
        /\ depth' = depth + 1 /\ ret' = "none"
        /\ ~failed /\ UNCHANGED <<index, open, late, failed, result>>
CallsFlow ==
    \E c, d, e \in Calls :
        /\ NestsTwo(c, d, e) /\ c.at = Top.at /\ c.of = Top.of /\ c.phase = "call" /\ CallOK(c)
        /\ InStep(c) <=> InStep(Top)
        /\ \E flow \in Flows : d = Frame("flow", flow) /\ e = Frame("pre", flow)
        /\ ret' = "none"
        /\ ~failed /\ UNCHANGED <<events, failed, result>>
Enters ==
    /\ N = 1 /\ Top.at = "requires" /\ Top.phase = "next"
    /\ N' = 2 /\ Stack'[1] = Frame("main", main) /\ Stack'[2] = Frame("pre", main)
    /\ ret' = "none"
    /\ ~failed /\ UNCHANGED <<events, failed, result>>
Returns ==
    /\ N > 1 /\ Pops /\ Top.at \in {"pre", "flow"}
    /\ ret' \in {"ok", "fail"} /\ failed' \in BOOLEAN /\ (failed' => ret' = "fail")
    /\ UNCHANGED <<events, result>>
Leaves ==
    /\ N > 1 /\ Pops /\ Top.at = "steps"
    /\ ret' \in {"ok", "fail"} /\ failed' \in BOOLEAN /\ (failed' => ret' = "fail")
    /\ depth' = depth - 1
    /\ IF InStep(Top) THEN open' = SubSeq(open, 1, Len(open) - 1) ELSE open' = open
    /\ UNCHANGED <<index, late, result>>
Ends ==
    \E c \in Calls :
        /\ SetsTo(c) /\ c.at = Top.at /\ c.of = Top.of /\ CallOK(c)
        /\ InStep(Top) /\ ~InStep(c) /\ c.phase # "checked"
        /\ open' = SubSeq(open, 1, Len(open) - 1)
        /\ ret' = "none" /\ failed' \in BOOLEAN /\ (failed' => c.phase = "classify")
        /\ UNCHANGED <<depth, index, late, result>>
Finishes ==
    /\ N = 1 /\ N' = 0 /\ frames' = <<>> /\ ~InStep(Top)
    /\ result' \in {"ok", "failed", "error"} /\ (failed => result' # "ok")
    /\ failed' \in BOOLEAN /\ ret' \in {ret, "none"}
    /\ UNCHANGED events
Waiting ==
    /\ ret' \in {ret, "none"} /\ (failed => ret' = ret)
    /\ UNCHANGED <<frames, events, failed, result>>

Move ==
    /\ UNCHANGED <<main, ctxDone>>
    /\ Stays \/ Starts \/ CallsList \/ CallsFlow \/ Enters \/ Returns \/ Leaves
       \/ Ends \/ Finishes \/ Waiting

-----------------------------------------------------------------------------
(* Every step of a run is one of the moves.                                 *)

Phases == {"next", "checked", "run", "call", "confirm", "classify"}

LEMMA Innermost ==
    ASSUME TypeOK, Shape, NEW at, NEW phase, In(at, phase)
    PROVE  /\ frames \in Seq(Calls) /\ frames # <<>> /\ N \in Nat \ {0} /\ result = "running"
           /\ Stack \in [1..N -> Calls] /\ Stack[N] = Top /\ Top \in Calls /\ CallOK(Top)
           /\ Top.at = at /\ Top.phase = phase
           /\ Top.at \in {"requires", "main"} <=> N = 1
           /\ N = 1 => Top.of = main
<1>1. frames \in Seq(Calls) /\ frames # <<>> /\ Top.at = at /\ Top.phase = phase /\ result = "running"
  BY DEF TypeOK, In
<1>2. /\ N \in Nat \ {0} /\ Stack \in [1..N -> Calls] /\ Stack[N] = Top /\ Top \in Calls
  BY <1>1, TopIsLast
<1>3. N \in 1..N
  BY <1>2
<1>4. CallOK(Stack[N]) /\ (Stack[N].at \in {"requires", "main"} <=> N = 1)
  BY <1>3 DEF Shape
<1>5. N = 1 => Stack[N].of = main
  BY <1>2 DEF Shape
<1> QED BY <1>1, <1>2, <1>4, <1>5

\* The innermost call with another phase, or at the next position.
LEMMA TopWith ==
    ASSUME Top \in Calls
    PROVE  /\ \A ph \in Phases :
                  LET c == [Top EXCEPT !.phase = ph]
                  IN  c \in Calls /\ c.at = Top.at /\ c.of = Top.of /\ c.i = Top.i /\ c.phase = ph
           /\ LET c == [Top EXCEPT !.i = @ + 1, !.phase = "next"]
              IN  c \in Calls /\ c.at = Top.at /\ c.of = Top.of /\ c.i = Top.i + 1 /\ c.phase = "next"
<1>1. ASSUME NEW call \in Calls, NEW ph \in Phases
      PROVE  LET c == [call EXCEPT !.phase = ph]
             IN  c \in Calls /\ c.at = call.at /\ c.of = call.of /\ c.i = call.i /\ c.phase = ph
  BY DEF Calls, Phases
<1>2. ASSUME NEW call \in Calls
      PROVE  LET c == [call EXCEPT !.i = @ + 1, !.phase = "next"]
             IN  c \in Calls /\ c.at = call.at /\ c.of = call.of /\ c.i = call.i + 1 /\ c.phase = "next"
  <2>1. PICK k \in Nat \ {0} : k = call.i + 1
    BY DEF Calls
  <2>2. LET c == [call EXCEPT !.i = k, !.phase = "next"]
        IN  c \in Calls /\ c.at = call.at /\ c.of = call.of /\ c.i = k /\ c.phase = "next"
    BY DEF Calls
  <2>3. [call EXCEPT !.i = @ + 1, !.phase = "next"] = [call EXCEPT !.i = k, !.phase = "next"]
    BY <2>1
  <2> QED BY <2>1, <2>2, <2>3
<1>3. PICK call \in Calls : call = Top
  OBVIOUS
<1> QED BY <1>1, <1>2, <1>3

LEMMA PhaseMoves ==
    ASSUME frames \in Seq(Calls), frames # <<>>, NEW ph \in Phases, Phase(ph)
    PROVE  /\ frames' \in Seq(Calls)
           /\ \E c \in Calls : /\ SetsTo(c) /\ c.at = Top.at /\ c.of = Top.of
                               /\ c.i = Top.i /\ c.phase = ph
<1> DEFINE c == [Top EXCEPT !.phase = ph]
<1>1. Top \in Calls
  BY TopIsLast
<1>2. c \in Calls /\ c.at = Top.at /\ c.of = Top.of /\ c.i = Top.i /\ c.phase = ph
  BY <1>1, TopWith
<1>3. SetTop(c)
  BY DEF Phase
<1> HIDE DEF c
<1>4. frames' \in Seq(Calls) /\ SetsTo(c)
  BY <1>2, <1>3, SetTopMoves
<1> QED BY <1>2, <1>4

LEMMA AdvanceMoves ==
    ASSUME frames \in Seq(Calls), frames # <<>>, Advance
    PROVE  /\ frames' \in Seq(Calls)
           /\ \E c \in Calls : /\ SetsTo(c) /\ c.at = Top.at /\ c.of = Top.of
                               /\ c.i = Top.i + 1 /\ c.phase = "next"
<1> DEFINE c == [Top EXCEPT !.i = @ + 1, !.phase = "next"]
<1>1. Top \in Calls
  BY TopIsLast
<1>2. c \in Calls /\ c.at = Top.at /\ c.of = Top.of /\ c.i = Top.i + 1 /\ c.phase = "next"
  BY <1>1, TopWith
<1>3. SetTop(c)
  BY DEF Advance
<1> HIDE DEF c
<1>4. frames' \in Seq(Calls) /\ SetsTo(c)
  BY <1>2, <1>3, SetTopMoves
<1> QED BY <1>2, <1>4

LEMMA FrameTyped ==
    ASSUME NEW f \in Flows, NEW at \in {"requires", "pre", "flow", "steps", "main"}
    PROVE  /\ Frame(at, f) \in Calls
           /\ Frame(at, f).at = at /\ Frame(at, f).of = f
           /\ Frame(at, f).i = 1 /\ Frame(at, f).phase = "next"
BY DEF Frame, Calls

LEMMA ListMoves ==
    ASSUME frames \in Seq(Calls), frames # <<>>, NEW list \in Flows, CallSteps(list, "call")
    PROVE  /\ frames' \in Seq(Calls) /\ depth' = depth + 1 /\ ret' = "none"
           /\ \E c, d \in Calls :
                  /\ Nests(c, d) /\ d = Frame("steps", list)
                  /\ c.at = Top.at /\ c.of = Top.of /\ c.i = Top.i /\ c.phase = "call"
<1> DEFINE c == [Top EXCEPT !.phase = "call"]
           d == Frame("steps", list)
<1>1. Top \in Calls
  BY TopIsLast
<1>2. c \in Calls /\ c.at = Top.at /\ c.of = Top.of /\ c.i = Top.i /\ c.phase = "call"
  BY <1>1, TopWith DEF Phases
<1>3. d \in Calls
  BY FrameTyped
<1>4. Call(<<d>>, "call") /\ depth' = depth + 1
  BY DEF CallSteps
<1>5. ret' = "none"
  BY <1>4 DEF Call
<1> HIDE DEF d
<1>6. frames' \in Seq(Calls) /\ Nests(c, d)
  BY <1>2, <1>3, <1>4, CallMoves
<1> HIDE DEF c
<1>7. c \in Calls /\ d \in Calls /\ Nests(c, d) /\ d = Frame("steps", list)
      /\ c.at = Top.at /\ c.of = Top.of /\ c.i = Top.i /\ c.phase = "call"
  BY <1>2, <1>3, <1>6 DEF d
<1> QED BY <1>4, <1>5, <1>6, <1>7

LEMMA FlowMoves ==
    ASSUME frames \in Seq(Calls), frames # <<>>, NEW flow \in Flows, CallFlow(flow, "call")
    PROVE  /\ frames' \in Seq(Calls) /\ ret' = "none"
           /\ \E c, d, e \in Calls :
                  /\ NestsTwo(c, d, e) /\ d = Frame("flow", flow) /\ e = Frame("pre", flow)
                  /\ c.at = Top.at /\ c.of = Top.of /\ c.i = Top.i /\ c.phase = "call"
<1> DEFINE c == [Top EXCEPT !.phase = "call"]
           d == Frame("flow", flow)
           e == Frame("pre", flow)
<1>1. Top \in Calls
  BY TopIsLast
<1>2. c \in Calls /\ c.at = Top.at /\ c.of = Top.of /\ c.i = Top.i /\ c.phase = "call"
  BY <1>1, TopWith DEF Phases
<1>3. d \in Calls /\ e \in Calls
  BY FrameTyped
<1>4. Call(<<e, d>>, "call")
  BY DEF CallFlow
<1>5. ret' = "none"
  BY <1>4 DEF Call
<1> HIDE DEF d, e
<1>6. frames' \in Seq(Calls) /\ NestsTwo(c, d, e)
  BY <1>2, <1>3, <1>4, CallFlowMoves
<1> HIDE DEF c
<1>7. c \in Calls /\ d \in Calls /\ e \in Calls /\ NestsTwo(c, d, e)
      /\ d = Frame("flow", flow) /\ e = Frame("pre", flow)
      /\ c.at = Top.at /\ c.of = Top.of /\ c.i = Top.i /\ c.phase = "call"
  BY <1>2, <1>3, <1>6 DEF d, e
<1> QED BY <1>5, <1>6, <1>7

\* Without a failure to return, nothing has failed.
LEMMA NotFailed ==
    ASSUME TypeOK, Shape, Unwinding, NEW at, NEW phase, In(at, phase), phase # "classify",
           ret # "fail" \/ (phase # "call" /\ ~(at \in {"flow", "main"} /\ phase = "next"))
    PROVE  ~failed
<1>1. Stack[N] = Top /\ Top.at = at /\ Top.phase = phase /\ result = "running"
  BY Innermost
<1> QED BY <1>1 DEF Unwinding, AtStart

LEMMA PrepareMoves ==
    ASSUME TypeOK, Shape, Unwinding, Prepare
    PROVE  Move /\ frames' \in Seq(Calls)
<1>1. CASE ProxyRequired
  <2>1. In("requires", "next")
    BY <1>1 DEF ProxyRequired
  <2>2. N = 1 /\ Top.at = "requires"
    BY <2>1, Innermost
  <2>3. frames' = <<>> /\ result' = "failed"
    BY <1>1 DEF ProxyRequired, Finish
  <2>4. N' = 0 /\ frames' \in Seq(Calls)
    BY <2>3 DEF N
  <2>5. Finishes
    BY <1>1, <2>2, <2>3, <2>4 DEF Finishes, ProxyRequired, InStep, Loops, TypeOK
  <2> QED BY <1>1, <2>4, <2>5 DEF Move, ProxyRequired, fixed
<1>2. CASE RequireDone
  <2>1. In("requires", "next")
    BY <1>2 DEF RequireDone, Requiring
  <2>2. frames \in Seq(Calls) /\ frames # <<>> /\ Top.at = "requires" /\ Top.phase = "next"
    BY <2>1, Innermost
  <2>3. ~failed
    BY <2>1, NotFailed
  <2>4. frames' \in Seq(Calls)
        /\ \E c \in Calls : /\ SetsTo(c) /\ c.at = Top.at /\ c.of = Top.of
                            /\ c.i = Top.i + 1 /\ c.phase = "next"
    BY <1>2, <2>2, AdvanceMoves DEF RequireDone
  <2>5. Stays
    BY <1>2, <2>2, <2>3, <2>4 DEF Stays, RequireDone, outcome, CallOK, InStep, Loops
  <2> QED BY <1>2, <2>4, <2>5 DEF Move, RequireDone, fixed
<1>3. CASE RequireUnloadable
  <2>1. In("requires", "next")
    BY <1>3 DEF RequireUnloadable, Requiring
  <2>2. N = 1 /\ Top.at = "requires"
    BY <2>1, Innermost
  <2>3. frames' = <<>> /\ result' \in {"error", "failed"}
    BY <1>3 DEF RequireUnloadable, Finish
  <2>4. N' = 0 /\ frames' \in Seq(Calls)
    BY <2>3 DEF N
  <2>5. Finishes
    BY <1>3, <2>2, <2>3, <2>4 DEF Finishes, RequireUnloadable, InStep, Loops, TypeOK
  <2> QED BY <1>3, <2>4, <2>5 DEF Move, RequireUnloadable, fixed
<1>4. CASE RequireFlow
  <2>1. In("requires", "next")
    BY <1>4 DEF RequireFlow, Requiring
  <2>2. /\ frames \in Seq(Calls) /\ frames # <<>> /\ Top.at = "requires" /\ Top.phase = "next"
        /\ Top.of = main /\ Top \in Calls
    BY <2>1, Innermost
  <2>3. ~failed
    BY <2>1, NotFailed
  <2>4. Top.i \in 1..Len(Requires[main])
    BY <1>4, <2>2 DEF RequireFlow, Calls
  <2>5. Required \in Flows
    BY <2>4, ScriptShape DEF Required, TypeOK
  <2>6. frames' \in Seq(Calls) /\ ret' = "none"
        /\ \E c, d, e \in Calls :
               /\ NestsTwo(c, d, e) /\ d = Frame("flow", Required) /\ e = Frame("pre", Required)
               /\ c.at = Top.at /\ c.of = Top.of /\ c.i = Top.i /\ c.phase = "call"
    BY <1>4, <2>2, <2>5, FlowMoves DEF RequireFlow
  <2>7. CallsFlow
    BY <1>4, <2>2, <2>3, <2>4, <2>5, <2>6 DEF CallsFlow, RequireFlow, outcome, CallOK, InStep, Loops
  <2> QED BY <1>4, <2>6, <2>7 DEF Move, RequireFlow, fixed
<1>5. CASE RequireReturns
  <2>1. In("requires", "call")
    BY <1>5 DEF RequireReturns
  <2>2. /\ frames \in Seq(Calls) /\ frames # <<>> /\ Top.at = "requires" /\ Top.phase = "call"
        /\ N = 1
    BY <2>1, Innermost
  <2>3. CASE ret = "ok"
    <3>1. ~failed
      BY <2>1, <2>3, NotFailed
    <3>2. frames' \in Seq(Calls)
          /\ \E c \in Calls : /\ SetsTo(c) /\ c.at = Top.at /\ c.of = Top.of
                              /\ c.i = Top.i + 1 /\ c.phase = "next"
      BY <1>5, <2>2, <2>3, AdvanceMoves DEF RequireReturns
    <3>3. Stays
      BY <1>5, <2>2, <2>3, <3>1, <3>2 DEF Stays, RequireReturns, CallOK, InStep, Loops
    <3> QED BY <1>5, <3>2, <3>3 DEF Move, RequireReturns, fixed
  <2>4. CASE ret # "ok"
    <3>1. frames' = <<>> /\ result' = "failed"
      BY <1>5, <2>4 DEF RequireReturns, Finish
    <3>2. N' = 0 /\ frames' \in Seq(Calls)
      BY <3>1 DEF N
    <3>3. Finishes
      BY <1>5, <2>2, <3>1, <3>2 DEF Finishes, RequireReturns, InStep, Loops, TypeOK
    <3> QED BY <1>5, <3>2, <3>3 DEF Move, RequireReturns, fixed
  <2> QED BY <2>3, <2>4
<1>6. CASE RequiresDone
  <2>1. In("requires", "next")
    BY <1>6 DEF RequiresDone, Requiring
  <2>2. N = 1 /\ Top.at = "requires" /\ Top.phase = "next"
    BY <2>1, Innermost
  <2>3. ~failed
    BY <2>1, NotFailed
  <2>4. Frame("pre", main) \in Calls /\ Frame("main", main) \in Calls
    BY FrameTyped DEF TypeOK
  <2>5. frames' = <<Frame("pre", main), Frame("main", main)>> /\ ret' = "none"
    BY <1>6 DEF RequiresDone
  <2>6. /\ frames' \in Seq(Calls) /\ Len(frames') = 2
        /\ frames'[1] = Frame("pre", main) /\ frames'[2] = Frame("main", main)
    BY <2>4, <2>5
  <2>7. N' = 2 /\ Stack'[1] = Frame("main", main) /\ Stack'[2] = Frame("pre", main)
    BY <2>6 DEF N, Stack
  <2>8. Enters
    BY <1>6, <2>2, <2>3, <2>5, <2>7 DEF Enters, RequiresDone, outcome
  <2> QED BY <1>6, <2>6, <2>8 DEF Move, RequiresDone, fixed
<1> QED BY <1>1, <1>2, <1>3, <1>4, <1>5, <1>6 DEF Prepare

LEMMA ElementOf ==
    ASSUME NEW S, NEW list \in Seq(S), NEW k \in 1..Len(list)
    PROVE  list[k] \in S
OBVIOUS

\* An entry of runPreconditions is read only while there is one.
LEMMA PreFacts ==
    ASSUME TypeOK, Shape, NEW phase, In("pre", phase), phase # "next" \/ Pending
    PROVE  /\ Top.i \in 1..Len(Pre[Top.of]) /\ Precondition.setup \in Flows
           /\ Precondition.policy \in Policies
<1>1. Top \in Calls /\ CallOK(Top) /\ Top.at = "pre" /\ Top.phase = phase
  BY Innermost
<1>2. Top.of \in Flows /\ Top.i \in Nat \ {0}
  BY <1>1 DEF Calls
<1>3. Top.i <= Len(Pre[Top.of])
  BY <1>1 DEF CallOK, Pending
<1>4. Pre[Top.of] \in Seq([setup : Flows, policy : Policies])
  BY <1>2, ScriptShape
<1>5. Len(Pre[Top.of]) \in Nat
  BY <1>4
<1>6. Top.i \in 1..Len(Pre[Top.of])
  BY <1>2, <1>3, <1>5
<1>7. Precondition \in [setup : Flows, policy : Policies]
  BY <1>4, <1>6, ElementOf DEF Precondition
<1> QED BY <1>6, <1>7

LEMMA PreconditionMoves ==
    ASSUME TypeOK, Shape, Unwinding, Preconditions
    PROVE  Move /\ frames' \in Seq(Calls)
<1>1. CASE PreDone
  <2>1. In("pre", "next")
    BY <1>1 DEF PreDone
  <2>2. frames \in Seq(Calls) /\ frames # <<>> /\ N > 1 /\ Top.at = "pre"
    BY <2>1, Innermost
  <2>3. ~failed
    BY <2>1, NotFailed
  <2>4. frames' \in Seq(Calls) /\ Pops
    BY <1>1, <2>2, ReturnMoves DEF PreDone
  <2>5. ret' = "ok"
    BY <1>1 DEF PreDone, Return
  <2>6. Returns
    BY <1>1, <2>2, <2>3, <2>4, <2>5 DEF Returns, PreDone, outcome, TypeOK
  <2> QED BY <1>1, <2>4, <2>6 DEF Move, PreDone, fixed
<1>2. CASE PreCancelled
  <2>1. In("pre", "next")
    BY <1>2 DEF PreCancelled
  <2>2. frames \in Seq(Calls) /\ frames # <<>> /\ N > 1 /\ Top.at = "pre"
    BY <2>1, Innermost
  <2>3. Return("fail") /\ failed' = TRUE /\ ret' = "fail"
    BY <1>2 DEF PreCancelled, Fail, Return
  <2>4. frames' \in Seq(Calls) /\ Pops
    BY <2>2, <2>3, ReturnMoves
  <2>5. Returns
    BY <1>2, <2>2, <2>3, <2>4 DEF Returns, PreCancelled, outcome
  <2> QED BY <1>2, <2>4, <2>5 DEF Move, PreCancelled, fixed
<1>3. CASE PreSkip
  <2>1. In("pre", "next")
    BY <1>3 DEF PreSkip
  <2>2. frames \in Seq(Calls) /\ frames # <<>> /\ Top.at = "pre"
    BY <2>1, Innermost
  <2>3. ~failed
    BY <2>1, NotFailed
  <2>4. frames' \in Seq(Calls)
        /\ \E c \in Calls : /\ SetsTo(c) /\ c.at = Top.at /\ c.of = Top.of
                            /\ c.i = Top.i + 1 /\ c.phase = "next"
    BY <1>3, <2>2, AdvanceMoves DEF PreSkip
  <2>5. Stays
    BY <1>3, <2>2, <2>3, <2>4 DEF Stays, PreSkip, outcome, CallOK, InStep, Loops
  <2> QED BY <1>3, <2>4, <2>5 DEF Move, PreSkip, fixed
<1>4. CASE PreAlways
  <2>1. In("pre", "next") /\ Pending
    BY <1>4 DEF PreAlways
  <2>2. /\ frames \in Seq(Calls) /\ frames # <<>> /\ N > 1 /\ Top.at = "pre"
        /\ Top.phase = "next"
    BY <2>1, Innermost
  <2>3. ~failed
    BY <2>1, NotFailed
  <2>4. Top.i <= Len(Pre[Top.of]) /\ Precondition.setup \in Flows
    BY <2>1, PreFacts
  <2>5. UNCHANGED <<index, open, late, main, ctxDone, result>>
    BY <1>4 DEF PreAlways, fixed, outcome
  <2>6. CASE Phase("confirm") /\ UNCHANGED <<ret, depth, failed, refused>>
    <3>1. frames' \in Seq(Calls)
          /\ \E c \in Calls : /\ SetsTo(c) /\ c.at = Top.at /\ c.of = Top.of
                              /\ c.i = Top.i /\ c.phase = "confirm"
      BY <2>2, <2>6, PhaseMoves DEF Phases
    <3>2. Stays
      BY <2>2, <2>3, <2>4, <2>5, <2>6, <3>1 DEF Stays, CallOK, InStep, Loops, events
    <3> QED BY <2>5, <3>1, <3>2 DEF Move
  <2>7. CASE CallSteps(Precondition.setup, "call") /\ UNCHANGED <<failed, refused>>
    <3>1. frames' \in Seq(Calls) /\ depth' = depth + 1 /\ ret' = "none"
          /\ \E c, d \in Calls :
                 /\ Nests(c, d) /\ d = Frame("steps", Precondition.setup)
                 /\ c.at = Top.at /\ c.of = Top.of /\ c.i = Top.i /\ c.phase = "call"
      BY <2>2, <2>4, <2>7, ListMoves
    <3>2. CallsList
      BY <2>2, <2>3, <2>4, <2>5, <2>7, <3>1 DEF CallsList, CallOK, InStep, Loops
    <3> QED BY <2>5, <3>1, <3>2 DEF Move
  <2>8. CASE Fail /\ UNCHANGED depth
    <3>1. Return("fail") /\ failed' = TRUE /\ ret' = "fail"
      BY <2>8 DEF Fail, Return
    <3>2. frames' \in Seq(Calls) /\ Pops
      BY <2>2, <3>1, ReturnMoves
    <3>3. Returns
      BY <2>2, <2>5, <2>8, <3>1, <3>2 DEF Returns, events
    <3> QED BY <2>5, <3>2, <3>3 DEF Move
  <2> QED BY <1>4, <2>6, <2>7, <2>8 DEF PreAlways
<1>5. CASE PreEnsure
  <2>1. In("pre", "next") /\ Pending
    BY <1>5 DEF PreEnsure
  <2>2. /\ frames \in Seq(Calls) /\ frames # <<>> /\ N > 1 /\ Top.at = "pre"
        /\ Top.phase = "next"
    BY <2>1, Innermost
  <2>3. ~failed
    BY <2>1, NotFailed
  <2>4. Top.i <= Len(Pre[Top.of]) /\ Precondition.setup \in Flows
    BY <2>1, PreFacts
  <2>5. UNCHANGED <<index, open, late, main, ctxDone, result>>
    BY <1>5 DEF PreEnsure, fixed, outcome
  <2>6. CASE Advance /\ UNCHANGED <<ret, depth, failed, refused>>
    <3>1. frames' \in Seq(Calls)
          /\ \E c \in Calls : /\ SetsTo(c) /\ c.at = Top.at /\ c.of = Top.of
                              /\ c.i = Top.i + 1 /\ c.phase = "next"
      BY <2>2, <2>6, AdvanceMoves
    <3>2. Stays
      BY <2>2, <2>3, <2>4, <2>5, <2>6, <3>1 DEF Stays, CallOK, InStep, Loops, events
    <3> QED BY <2>5, <3>1, <3>2 DEF Move
  <2>7. CASE CallSteps(Precondition.setup, "call") /\ UNCHANGED <<failed, refused>>
    <3>1. frames' \in Seq(Calls) /\ depth' = depth + 1 /\ ret' = "none"
          /\ \E c, d \in Calls :
                 /\ Nests(c, d) /\ d = Frame("steps", Precondition.setup)
                 /\ c.at = Top.at /\ c.of = Top.of /\ c.i = Top.i /\ c.phase = "call"
      BY <2>2, <2>4, <2>7, ListMoves
    <3>2. CallsList
      BY <2>2, <2>3, <2>4, <2>5, <2>7, <3>1 DEF CallsList, CallOK, InStep, Loops
    <3> QED BY <2>5, <3>1, <3>2 DEF Move
  <2>8. CASE Fail /\ UNCHANGED depth
    <3>1. Return("fail") /\ failed' = TRUE /\ ret' = "fail"
      BY <2>8 DEF Fail, Return
    <3>2. frames' \in Seq(Calls) /\ Pops
      BY <2>2, <3>1, ReturnMoves
    <3>3. Returns
      BY <2>2, <2>5, <2>8, <3>1, <3>2 DEF Returns, events
    <3> QED BY <2>5, <3>2, <3>3 DEF Move
  <2> QED BY <1>5, <2>6, <2>7, <2>8 DEF PreEnsure
<1>6. CASE PreSetupReturns
  <2>1. In("pre", "call")
    BY <1>6 DEF PreSetupReturns
  <2>2. /\ frames \in Seq(Calls) /\ frames # <<>> /\ N > 1 /\ Top.at = "pre"
        /\ Top.phase = "call"
    BY <2>1, Innermost
  <2>3. Top.i <= Len(Pre[Top.of])
    BY <2>1, PreFacts
  <2>4. UNCHANGED <<events, main, ctxDone, result>>
    BY <1>6 DEF PreSetupReturns, fixed, outcome
  <2>5. CASE ret = "ok"
    <3>1. ~failed
      BY <2>1, <2>5, NotFailed
    <3>2. Phase("confirm") /\ UNCHANGED <<ret, failed>>
      BY <1>6, <2>5 DEF PreSetupReturns
    <3>3. frames' \in Seq(Calls)
          /\ \E c \in Calls : /\ SetsTo(c) /\ c.at = Top.at /\ c.of = Top.of
                              /\ c.i = Top.i /\ c.phase = "confirm"
      BY <2>2, <3>2, PhaseMoves DEF Phases
    <3>4. Stays
      BY <2>2, <2>3, <2>4, <3>1, <3>2, <3>3 DEF Stays, CallOK, InStep, Loops
    <3> QED BY <2>4, <3>3, <3>4 DEF Move
  <2>6. CASE ret # "ok"
    <3>1. Return("fail") /\ failed' = TRUE /\ ret' = "fail"
      BY <1>6, <2>6 DEF PreSetupReturns, Fail, Return
    <3>2. frames' \in Seq(Calls) /\ Pops
      BY <2>2, <3>1, ReturnMoves
    <3>3. Returns
      BY <2>2, <2>4, <3>1, <3>2 DEF Returns
    <3> QED BY <2>4, <3>2, <3>3 DEF Move
  <2> QED BY <2>5, <2>6
<1>7. CASE PreConfirm
  <2>1. In("pre", "confirm")
    BY <1>7 DEF PreConfirm
  <2>2. /\ frames \in Seq(Calls) /\ frames # <<>> /\ N > 1 /\ Top.at = "pre"
        /\ Top.phase = "confirm"
    BY <2>1, Innermost
  <2>3. ~failed
    BY <2>1, NotFailed
  <2>4. UNCHANGED <<events, main, ctxDone, result>>
    BY <1>7 DEF PreConfirm, fixed, outcome
  <2>5. CASE Advance /\ UNCHANGED <<ret, failed>>
    <3>1. frames' \in Seq(Calls)
          /\ \E c \in Calls : /\ SetsTo(c) /\ c.at = Top.at /\ c.of = Top.of
                              /\ c.i = Top.i + 1 /\ c.phase = "next"
      BY <2>2, <2>5, AdvanceMoves
    <3>2. Stays
      BY <2>2, <2>3, <2>4, <2>5, <3>1 DEF Stays, CallOK, InStep, Loops
    <3> QED BY <2>4, <3>1, <3>2 DEF Move
  <2>6. CASE Fail
    <3>1. Return("fail") /\ failed' = TRUE /\ ret' = "fail"
      BY <2>6 DEF Fail, Return
    <3>2. frames' \in Seq(Calls) /\ Pops
      BY <2>2, <3>1, ReturnMoves
    <3>3. Returns
      BY <2>2, <2>4, <3>1, <3>2 DEF Returns
    <3> QED BY <2>4, <3>2, <3>3 DEF Move
  <2> QED BY <1>7, <2>5, <2>6 DEF PreConfirm
<1> QED BY <1>1, <1>2, <1>3, <1>4, <1>5, <1>6, <1>7 DEF Preconditions

\* A step is read only while there is one.
LEMMA StepFacts ==
    ASSUME TypeOK, Shape, NEW phase \in {"next", "checked", "run", "call"}, AtStep(phase),
           phase # "next" \/ MoreSteps
    PROVE  /\ Top.i \in 1..Len(Body[Top.of]) /\ Step.kind \in Kinds /\ Step.flow \in Flows
<1>1. Top \in Calls /\ CallOK(Top) /\ Top.at \in Loops /\ Top.phase = phase
  BY Innermost DEF AtStep, Loops
<1>2. Top.of \in Flows /\ Top.i \in Nat \ {0}
  BY <1>1 DEF Calls
<1>3. Top.i <= Len(Body[Top.of])
  BY <1>1 DEF CallOK, MoreSteps
<1>4. Body[Top.of] \in Seq([kind : Kinds, flow : Flows])
  BY <1>2, ScriptShape
<1>5. Len(Body[Top.of]) \in Nat
  BY <1>4
<1>6. Top.i \in 1..Len(Body[Top.of])
  BY <1>2, <1>3, <1>5
<1>7. Step \in [kind : Kinds, flow : Flows]
  BY <1>4, <1>6, ElementOf DEF Step
<1> QED BY <1>6, <1>7

LEMMA AtStepFacts ==
    ASSUME TypeOK, Shape, NEW phase, AtStep(phase)
    PROVE  /\ frames \in Seq(Calls) /\ frames # <<>> /\ N \in Nat \ {0}
           /\ Top \in Calls /\ CallOK(Top) /\ Top.at \in Loops /\ Top.phase = phase
           /\ Top.at = "main" <=> N = 1
BY Innermost DEF AtStep, Loops

LEMMA StepEndsMoves ==
    ASSUME TypeOK, Shape, Unwinding, NEW phase \in {"run", "call"}, AtStep(phase),
           NEW r \in {"ok", "fail"}, StepEnds(r), phase = "run" \/ r = ret,
           UNCHANGED <<main, ctxDone, result>>
    PROVE  Move /\ frames' \in Seq(Calls)
<1>1. /\ frames \in Seq(Calls) /\ frames # <<>> /\ N \in Nat \ {0}
      /\ Top \in Calls /\ CallOK(Top) /\ Top.at \in Loops /\ Top.phase = phase
      /\ Top.at = "main" <=> N = 1
  BY AtStepFacts
<1>2. UNCHANGED <<index, late>> /\ open' = SubSeq(open, 1, Len(open) - 1)
  BY DEF StepEnds
<1>3. InStep(Top)
  BY <1>1 DEF InStep
<1>4. CASE r = "ok" /\ Advance /\ ret' = "none" /\ UNCHANGED <<depth, failed>>
  <2>1. frames' \in Seq(Calls)
        /\ \E c \in Calls : /\ SetsTo(c) /\ c.at = Top.at /\ c.of = Top.of
                            /\ c.i = Top.i + 1 /\ c.phase = "next"
    BY <1>1, <1>4, AdvanceMoves
  <2>2. ~failed
    BY <1>4, NotFailed DEF AtStep
  <2>3. failed' = FALSE
    BY <1>4, <2>2 DEF TypeOK
  <2>4. Ends
    BY <1>1, <1>2, <1>3, <1>4, <2>1, <2>3 DEF Ends, CallOK, InStep, Loops
  <2> QED BY <2>1, <2>4 DEF Move
<1>5. CASE r = "fail" /\ Top.at = "steps" /\ LeaveSteps("fail") /\ failed' = TRUE
  <2>1. Return("fail") /\ depth' = depth - 1 /\ ret' = "fail"
    BY <1>5 DEF LeaveSteps, Return
  <2>2. frames' \in Seq(Calls) /\ Pops
    BY <1>1, <2>1, ReturnMoves
  <2>3. Leaves
    BY <1>1, <1>2, <1>3, <1>5, <2>1, <2>2 DEF Leaves
  <2> QED BY <2>2, <2>3 DEF Move
<1>6. CASE r = "fail" /\ Top.at = "main" /\ Phase("classify") /\ ret' = "none"
           /\ failed' = TRUE /\ UNCHANGED depth
  <2>1. frames' \in Seq(Calls)
        /\ \E c \in Calls : /\ SetsTo(c) /\ c.at = Top.at /\ c.of = Top.of
                            /\ c.i = Top.i /\ c.phase = "classify"
    BY <1>1, <1>6, PhaseMoves DEF Phases
  <2>2. Ends
    BY <1>1, <1>2, <1>3, <1>6, <2>1 DEF Ends, CallOK, InStep, Loops
  <2> QED BY <2>1, <2>2 DEF Move
<1> QED BY <1>4, <1>5, <1>6 DEF StepEnds

LEMMA NestedMoves ==
    ASSUME TypeOK, Shape, Unwinding, RunPlain \/ RunLaunch \/ RunCapture \/ RunFlow \/ RunBranch
                                     \/ StepReturns
    PROVE  Move /\ frames' \in Seq(Calls)
<1>1. ASSUME AtStep("run"), NEW r \in {"ok", "fail"}, StepEnds(r), UNCHANGED <<main, ctxDone, result>>
      PROVE  Move /\ frames' \in Seq(Calls)
  BY <1>1, StepEndsMoves
<1>2. CASE RunPlain
  BY <1>1, <1>2 DEF RunPlain, fixed, outcome
<1>3. CASE RunLaunch
  BY <1>1, <1>3 DEF RunLaunch, fixed, outcome
<1>4. CASE RunCapture
  <2>1. AtStep("run") /\ UNCHANGED <<main, ctxDone, result>>
    BY <1>4 DEF RunCapture, fixed, outcome
  <2>2. CASE UNCHANGED <<captured, frames, ret, events, failed>>
    BY <2>1, <2>2 DEF Move, Waiting, TypeOK
  <2>3. CASE StepEnds("ok") \/ StepEnds("fail")
    BY <1>1, <2>1, <2>3
  <2> QED BY <1>4, <2>2, <2>3 DEF RunCapture
<1>5. CASE RunFlow
  <2>1. AtStep("run") /\ UNCHANGED <<main, ctxDone, result>>
    BY <1>5 DEF RunFlow, fixed, outcome
  <2>2. CASE CallFlow(Step.flow, "call") /\ UNCHANGED <<events, failed, refused>>
    <3>1. /\ frames \in Seq(Calls) /\ frames # <<>> /\ CallOK(Top) /\ Top.at \in Loops
          /\ Top.phase = "run"
      BY <2>1, AtStepFacts
    <3>2. Step.flow \in Flows /\ Top.i <= Len(Body[Top.of])
      BY <2>1, StepFacts
    <3>3. ~failed
      BY <2>1, NotFailed DEF AtStep
    <3>4. frames' \in Seq(Calls) /\ ret' = "none"
          /\ \E c, d, e \in Calls :
                 /\ NestsTwo(c, d, e) /\ d = Frame("flow", Step.flow) /\ e = Frame("pre", Step.flow)
                 /\ c.at = Top.at /\ c.of = Top.of /\ c.i = Top.i /\ c.phase = "call"
      BY <2>2, <3>1, <3>2, FlowMoves
    <3>5. CallsFlow
      BY <2>1, <2>2, <3>1, <3>2, <3>3, <3>4 DEF CallsFlow, CallOK, InStep, Loops
    <3> QED BY <2>1, <3>4, <3>5 DEF Move
  <2>3. CASE StepEnds("fail")
    BY <1>1, <2>1, <2>3
  <2> QED BY <1>5, <2>2, <2>3 DEF RunFlow
<1>6. CASE RunBranch
  <2>1. AtStep("run") /\ UNCHANGED <<main, ctxDone, result>>
    BY <1>6 DEF RunBranch, fixed, outcome
  <2>2. CASE CallSteps(Step.flow, "call") /\ UNCHANGED <<index, open, late, failed, refused>>
    <3>1. /\ frames \in Seq(Calls) /\ frames # <<>> /\ CallOK(Top) /\ Top.at \in Loops
          /\ Top.phase = "run"
      BY <2>1, AtStepFacts
    <3>2. Step.flow \in Flows /\ Top.i <= Len(Body[Top.of])
      BY <2>1, StepFacts
    <3>3. ~failed
      BY <2>1, NotFailed DEF AtStep
    <3>4. frames' \in Seq(Calls) /\ depth' = depth + 1 /\ ret' = "none"
          /\ \E c, d \in Calls :
                 /\ Nests(c, d) /\ d = Frame("steps", Step.flow)
                 /\ c.at = Top.at /\ c.of = Top.of /\ c.i = Top.i /\ c.phase = "call"
      BY <2>2, <3>1, <3>2, ListMoves
    <3>5. CallsList
      BY <2>1, <2>2, <3>1, <3>2, <3>3, <3>4 DEF CallsList, CallOK, InStep, Loops
    <3> QED BY <2>1, <3>4, <3>5 DEF Move
  <2>3. ASSUME NEW r \in {"ok", "fail"}, StepEnds(r)
        PROVE  Move /\ frames' \in Seq(Calls)
    BY <1>1, <2>1, <2>3
  <2> QED BY <1>6, <2>2, <2>3 DEF RunBranch
<1>7. CASE StepReturns
  <2>1. ret \in {"ok", "fail"}
    BY <1>7 DEF StepReturns, TypeOK
  <2>2. PICK r \in {"ok", "fail"} : r = ret
    BY <2>1
  <2>3. AtStep("call") /\ StepEnds(r) /\ UNCHANGED <<main, ctxDone, result>>
    BY <1>7, <2>2 DEF StepReturns, fixed, outcome
  <2> QED BY <2>2, <2>3, StepEndsMoves
<1> QED BY <1>2, <1>3, <1>4, <1>5, <1>6, <1>7

LEMMA LoopMoves ==
    ASSUME TypeOK, Shape, Unwinding,
           FlowSteps \/ FlowReturns \/ MainStart \/ MainDone \/ MainCancelled \/ NestedDone
           \/ NestedCancelled \/ UnknownCommand \/ CheckStep \/ SkipStep \/ StartStep \/ Classify
    PROVE  Move /\ frames' \in Seq(Calls)
<1>1. CASE FlowSteps
  <2>1. In("flow", "next") /\ UNCHANGED <<index, open, late, main, ctxDone, result, failed>>
    BY <1>1 DEF FlowSteps, fixed, outcome
  <2>2. /\ frames \in Seq(Calls) /\ frames # <<>> /\ N > 1 /\ Top.at = "flow"
        /\ Top.phase = "next" /\ Top \in Calls
    BY <2>1, Innermost
  <2>3. CASE ret = "ok"
    <3>1. ~failed
      BY <2>1, <2>3, NotFailed
    <3>2. Top.of \in Flows
      BY <2>2 DEF Calls
    <3>3. CallSteps(Top.of, "call")
      BY <1>1, <2>3 DEF FlowSteps
    <3>4. frames' \in Seq(Calls) /\ depth' = depth + 1 /\ ret' = "none"
          /\ \E c, d \in Calls :
                 /\ Nests(c, d) /\ d = Frame("steps", Top.of)
                 /\ c.at = Top.at /\ c.of = Top.of /\ c.i = Top.i /\ c.phase = "call"
      BY <2>2, <3>2, <3>3, ListMoves
    <3>5. CallsList
      BY <2>1, <2>2, <3>1, <3>2, <3>4 DEF CallsList, CallOK, InStep, Loops
    <3> QED BY <2>1, <3>4, <3>5 DEF Move
  <2>4. CASE ret # "ok"
    <3>1. Return("fail") /\ UNCHANGED depth /\ ret' = "fail"
      BY <1>1, <2>4 DEF FlowSteps, Return
    <3>2. frames' \in Seq(Calls) /\ Pops
      BY <2>2, <3>1, ReturnMoves
    <3>3. Returns
      BY <2>1, <2>2, <3>1, <3>2 DEF Returns, events, TypeOK
    <3> QED BY <2>1, <3>2, <3>3 DEF Move
  <2> QED BY <2>3, <2>4
<1>2. CASE FlowReturns
  <2>1. In("flow", "call") /\ UNCHANGED <<events, main, ctxDone, result, failed>>
    BY <1>2 DEF FlowReturns, fixed, outcome
  <2>2. frames \in Seq(Calls) /\ frames # <<>> /\ N > 1 /\ Top.at = "flow"
    BY <2>1, Innermost
  <2>3. ret \in {"ok", "fail"} /\ Return(ret) /\ ret' = ret
    BY <1>2 DEF FlowReturns, Return, TypeOK
  <2>4. frames' \in Seq(Calls) /\ Pops
    <3>1. PICK r \in {"ok", "fail"} : r = ret
      BY <2>3
    <3>2. Return(r)
      BY <2>3, <3>1
    <3> QED BY <2>2, <3>2, ReturnMoves
  <2>5. ret = "fail" \/ ~failed
    BY <2>1, NotFailed
  <2>6. Returns
    BY <2>1, <2>2, <2>3, <2>4, <2>5 DEF Returns, TypeOK
  <2> QED BY <2>1, <2>4, <2>6 DEF Move
<1>3. CASE MainStart
  <2>1. In("main", "next") /\ UNCHANGED <<events, main, ctxDone, failed>> /\ ret' = "none"
    BY <1>3 DEF MainStart, fixed
  <2>2. frames \in Seq(Calls) /\ N = 1 /\ Top.at = "main" /\ Top.phase = "next"
    BY <2>1, Innermost
  <2>3. CASE ret = "ok"
    <3>1. ~failed
      BY <2>1, <2>3, NotFailed
    <3> QED BY <1>3, <2>1, <2>2, <2>3, <3>1 DEF Move, Waiting, MainStart
  <2>4. CASE ret # "ok"
    <3>1. frames' = <<>> /\ result' = "failed"
      BY <1>3, <2>4 DEF MainStart, Finish
    <3>2. N' = 0 /\ frames' \in Seq(Calls)
      BY <3>1 DEF N
    <3>3. Finishes
      BY <2>1, <2>2, <3>1, <3>2 DEF Finishes, InStep, TypeOK
    <3> QED BY <2>1, <3>2, <3>3 DEF Move
  <2> QED BY <2>3, <2>4
<1>4. CASE MainDone
  <2>1. In("main", "next") /\ UNCHANGED <<ret, events, main, ctxDone, failed>> /\ ret = "none"
    BY <1>4 DEF MainDone, NoMoreSteps, fixed
  <2>2. N = 1 /\ Top.at = "main" /\ Top.phase = "next"
    BY <2>1, Innermost
  <2>3. ~failed
    BY <2>1, NotFailed
  <2>4. frames' = <<>> /\ result' = "ok"
    BY <1>4 DEF MainDone, Finish
  <2>5. N' = 0 /\ frames' \in Seq(Calls)
    BY <2>4 DEF N
  <2>6. Finishes
    BY <2>1, <2>2, <2>3, <2>4, <2>5 DEF Finishes, InStep, TypeOK
  <2> QED BY <2>1, <2>5, <2>6 DEF Move
<1>5. CASE MainCancelled
  <2>1. /\ In("main", "next") \/ In("main", "checked")
        /\ UNCHANGED <<ret, events, main, ctxDone, failed>>
    BY <1>5 DEF MainCancelled, fixed
  <2>2. N = 1 /\ Top.at = "main" /\ Top.phase \in {"next", "checked"}
    BY <2>1, Innermost
  <2>3. frames' = <<>> /\ result' = "error"
    BY <1>5 DEF MainCancelled, Finish
  <2>4. N' = 0 /\ frames' \in Seq(Calls)
    BY <2>3 DEF N
  <2>5. Finishes
    BY <2>1, <2>2, <2>3, <2>4 DEF Finishes, InStep, TypeOK
  <2> QED BY <2>1, <2>4, <2>5 DEF Move
<1>6. CASE NestedDone
  <2>1. /\ In("steps", "next") /\ ret = "none" /\ LeaveSteps("ok")
        /\ UNCHANGED <<index, open, late, main, ctxDone, result, failed>>
    BY <1>6 DEF NestedDone, NoMoreSteps, fixed, outcome
  <2>2. /\ frames \in Seq(Calls) /\ frames # <<>> /\ N > 1 /\ Top.at = "steps"
        /\ Top.phase = "next"
    BY <2>1, Innermost
  <2>3. ~failed
    BY <2>1, NotFailed
  <2>4. Return("ok") /\ depth' = depth - 1 /\ ret' = "ok"
    BY <2>1 DEF LeaveSteps, Return
  <2>5. frames' \in Seq(Calls) /\ Pops
    BY <2>2, <2>4, ReturnMoves
  <2>6. Leaves
    BY <2>1, <2>2, <2>3, <2>4, <2>5 DEF Leaves, InStep, TypeOK
  <2> QED BY <2>1, <2>5, <2>6 DEF Move
<1>7. CASE NestedCancelled
  <2>1. /\ In("steps", "next") /\ LeaveSteps("fail") /\ failed' = TRUE
        /\ UNCHANGED <<index, open, late, main, ctxDone, result>>
    BY <1>7 DEF NestedCancelled, fixed, outcome
  <2>2. /\ frames \in Seq(Calls) /\ frames # <<>> /\ N > 1 /\ Top.at = "steps"
        /\ Top.phase = "next"
    BY <2>1, Innermost
  <2>3. Return("fail") /\ depth' = depth - 1 /\ ret' = "fail"
    BY <2>1 DEF LeaveSteps, Return
  <2>4. frames' \in Seq(Calls) /\ Pops
    BY <2>2, <2>3, ReturnMoves
  <2>5. Leaves
    BY <2>1, <2>2, <2>3, <2>4 DEF Leaves, InStep
  <2> QED BY <2>1, <2>4, <2>5 DEF Move
<1>8. CASE UnknownCommand
  <2>1. AtStep("next") /\ failed' = TRUE /\ UNCHANGED <<index, open, late, main, ctxDone>>
        /\ ret = "none"
    BY <1>8 DEF UnknownCommand, MoreSteps, fixed
  <2>2. /\ frames \in Seq(Calls) /\ frames # <<>> /\ N \in Nat \ {0}
        /\ Top.phase = "next" /\ (Top.at = "main" <=> N = 1)
    BY <2>1, AtStepFacts
  <2>3. ~failed
    BY <2>1, NotFailed DEF AtStep
  <2>4. CASE Top.at = "main" /\ Finish("failed") /\ UNCHANGED <<ret, depth>>
    <3>1. frames' = <<>> /\ result' = "failed"
      BY <2>4 DEF Finish
    <3>2. N' = 0 /\ frames' \in Seq(Calls)
      BY <3>1 DEF N
    <3>3. Finishes
      BY <2>1, <2>2, <2>4, <3>1, <3>2 DEF Finishes, InStep, events
    <3> QED BY <2>1, <3>2, <3>3 DEF Move
  <2>5. CASE Top.at = "steps" /\ LeaveSteps("fail") /\ UNCHANGED result
    <3>1. Return("fail") /\ depth' = depth - 1 /\ ret' = "fail"
      BY <2>5 DEF LeaveSteps, Return
    <3>2. frames' \in Seq(Calls) /\ Pops
      BY <2>2, <3>1, ReturnMoves
    <3>3. Leaves
      BY <2>1, <2>2, <2>5, <3>1, <3>2 DEF Leaves, InStep
    <3> QED BY <2>1, <3>2, <3>3 DEF Move
  <2> QED BY <1>8, <2>4, <2>5 DEF UnknownCommand
<1>9. CASE CheckStep
  <2>1. /\ AtStep("next") /\ MoreSteps /\ ~ctxDone /\ Phase("checked") /\ ret = "none"
        /\ UNCHANGED <<ret, events, main, ctxDone, result, failed>>
    BY <1>9 DEF CheckStep, MoreSteps, fixed, outcome
  <2>2. frames \in Seq(Calls) /\ frames # <<>> /\ Top.phase = "next" /\ Top.at \in Loops
    BY <2>1, AtStepFacts
  <2>3. Top.i <= Len(Body[Top.of])
    BY <2>1, StepFacts
  <2>4. ~failed
    BY <2>1, NotFailed DEF AtStep
  <2>5. frames' \in Seq(Calls)
        /\ \E c \in Calls : /\ SetsTo(c) /\ c.at = Top.at /\ c.of = Top.of
                            /\ c.i = Top.i /\ c.phase = "checked"
    BY <2>1, <2>2, PhaseMoves DEF Phases
  <2>6. Stays
    BY <2>1, <2>2, <2>3, <2>4, <2>5 DEF Stays, CallOK, InStep, Loops
  <2> QED BY <2>1, <2>5, <2>6 DEF Move
<1>10. CASE SkipStep
  <2>1. /\ AtStep("checked") /\ Advance
        /\ UNCHANGED <<ret, events, main, ctxDone, result, failed>>
    BY <1>10 DEF SkipStep, fixed, outcome
  <2>2. frames \in Seq(Calls) /\ frames # <<>> /\ Top.phase = "checked" /\ Top.at \in Loops
    BY <2>1, AtStepFacts
  <2>3. ~failed
    BY <2>1, NotFailed DEF AtStep
  <2>4. frames' \in Seq(Calls)
        /\ \E c \in Calls : /\ SetsTo(c) /\ c.at = Top.at /\ c.of = Top.of
                            /\ c.i = Top.i + 1 /\ c.phase = "next"
    BY <2>1, <2>2, AdvanceMoves
  <2>5. Stays
    BY <2>1, <2>2, <2>3, <2>4 DEF Stays, CallOK, InStep, Loops
  <2> QED BY <2>1, <2>4, <2>5 DEF Move
<1>11. CASE StartStep
  <2>1. /\ AtStep("checked") /\ Phase("run")
        /\ UNCHANGED <<ret, depth, main, ctxDone, result, failed>>
    BY <1>11 DEF StartStep, fixed, outcome
  <2>2. frames \in Seq(Calls) /\ frames # <<>> /\ Top.phase = "checked" /\ Top.at \in Loops
    BY <2>1, AtStepFacts
  <2>3. Top.i <= Len(Body[Top.of])
    BY <2>1, StepFacts
  <2>4. ~failed
    BY <2>1, NotFailed DEF AtStep
  <2>5. frames' \in Seq(Calls)
        /\ \E c \in Calls : /\ SetsTo(c) /\ c.at = Top.at /\ c.of = Top.of
                            /\ c.i = Top.i /\ c.phase = "run"
    BY <2>1, <2>2, PhaseMoves DEF Phases
  <2>6. \E c \in Calls : /\ SetsTo(c) /\ c.at = Top.at /\ c.of = Top.of
                         /\ c.phase = "run" /\ CallOK(c)
    BY <2>2, <2>3, <2>5 DEF CallOK, Loops
  <2>7. Starts
    BY <1>11, <2>1, <2>2, <2>4, <2>6 DEF Starts, StartStep
  <2> QED BY <2>1, <2>5, <2>7 DEF Move
<1>12. CASE Classify
  <2>1. In("main", "classify") /\ UNCHANGED <<ret, events, main, ctxDone, failed>>
    BY <1>12 DEF Classify, fixed
  <2>2. N = 1 /\ Top.at = "main" /\ Top.phase = "classify"
    BY <2>1, Innermost
  <2>3. frames' = <<>> /\ result' = "failed"
    BY <1>12 DEF Classify, Finish
  <2>4. N' = 0 /\ frames' \in Seq(Calls)
    BY <2>3 DEF N
  <2>5. Finishes
    BY <2>1, <2>2, <2>3, <2>4 DEF Finishes, InStep, TypeOK
  <2> QED BY <2>1, <2>4, <2>5 DEF Move
<1> QED BY <1>1, <1>2, <1>3, <1>4, <1>5, <1>6, <1>7, <1>8, <1>9, <1>10, <1>11, <1>12

LEMMA RunMoves ==
    ASSUME TypeOK, Shape, Unwinding, Run
    PROVE  Move /\ frames' \in Seq(Calls)
BY PrepareMoves, PreconditionMoves, LoopMoves, NestedMoves DEF Run, Steps

-----------------------------------------------------------------------------
(* The moves keep the calls in shape.                                       *)

LEMMA Running ==
    ASSUME TypeOK, Shape, result = "running"
    PROVE  /\ frames \in Seq(Calls) /\ frames # <<>> /\ N \in Nat \ {0} /\ N \in 1..N
           /\ Stack \in [1..N -> Calls] /\ Stack[N] = Top /\ Top \in Calls /\ CallOK(Top)
           /\ Top.at \in {"requires", "main"} <=> N = 1
<1>1. frames \in Seq(Calls) /\ N > 0
  BY DEF TypeOK, Shape
<1>2. N \in Nat \ {0} /\ N \in 1..N /\ frames # <<>> /\ Stack \in [1..N -> Calls]
      /\ Stack[N] = Top /\ Top \in Calls
  BY <1>1, TopIsLast
<1>3. CallOK(Stack[N]) /\ (Stack[N].at \in {"requires", "main"} <=> N = 1)
  BY <1>2 DEF Shape
<1> QED BY <1>1, <1>2, <1>3

LEMMA ShapeFrom ==
    ASSUME UNCHANGED main, result' = "running" <=> N' > 0,
           \A p \in 1..N' : CallOK(Stack'[p])
                            /\ (Stack'[p].at \in {"requires", "main"} <=> p = 1),
           N' > 0 => Stack'[1].of = main,
           \A p \in 1..N' : p < N' => Waits(Stack'[p], Stack'[p + 1])
    PROVE  Shape'
BY DEF Shape, CallOK, Waits, AtStart

\* A call that waits for another still does when that one is elsewhere in its list.
LEMMA StaysAwaited ==
    ASSUME TypeOK, Shape, result = "running", NEW c \in Calls, c.at = Top.at, c.of = Top.of
    PROVE  \A p \in 1..N - 1 : p + 1 = N => Waits(Stack[p], c)
<1>1. \A p \in 1..N : p < N => Waits(Stack[p], Stack[p + 1])
  BY DEF Shape
<1> QED BY <1>1, Running DEF Waits

LEMMA SetShape ==
    ASSUME TypeOK, Shape, result = "running", UNCHANGED <<main, result>>, NEW c \in Calls,
           SetsTo(c), c.at = Top.at, c.of = Top.of, CallOK(c)
    PROVE  Shape'
<1>1. /\ N \in Nat \ {0} /\ Stack[N] = Top
      /\ Top.at \in {"requires", "main"} <=> N = 1
  BY Running
<1>2. N' = N /\ Stack'[N] = c /\ \A p \in 1..N - 1 : Stack'[p] = Stack[p]
  BY DEF SetsTo, Below
<1>3. \A p \in 1..N : CallOK(Stack[p]) /\ (Stack[p].at \in {"requires", "main"} <=> p = 1)
  BY DEF Shape
<1>4. ASSUME NEW p \in 1..N
      PROVE  CallOK(Stack'[p]) /\ (Stack'[p].at \in {"requires", "main"} <=> p = 1)
  <2>1. CASE p = N
    BY <1>1, <1>2, <2>1
  <2>2. CASE p # N
    BY <1>1, <1>2, <1>3, <2>2
  <2> QED BY <2>1, <2>2
<1>5. Stack'[1].of = main
  <2>1. Stack[1].of = main
    BY <1>1 DEF Shape
  <2> QED BY <1>1, <1>2, <2>1
<1>6. ASSUME NEW p \in 1..N, p < N
      PROVE  Waits(Stack'[p], Stack'[p + 1])
  <2>1. p \in 1..N - 1 /\ Stack'[p] = Stack[p]
    BY <1>1, <1>2, <1>6
  <2>2. CASE p + 1 = N
    BY <1>2, <2>1, <2>2, StaysAwaited
  <2>3. CASE p + 1 # N
    <3>1. Stack'[p + 1] = Stack[p + 1]
      BY <1>1, <1>2, <2>1, <2>3
    <3> QED BY <1>6, <2>1, <3>1 DEF Shape
  <2> QED BY <2>2, <2>3
<1>7. result' = "running" <=> N' > 0
  BY <1>1, <1>2
<1> QED BY <1>2, <1>4, <1>5, <1>6, <1>7, ShapeFrom

LEMMA PopShape ==
    ASSUME TypeOK, Shape, result = "running", UNCHANGED <<main, result>>, N > 1, Pops
    PROVE  Shape'
<1>1. N \in Nat \ {0}
  BY Running
<1>2. N' = N - 1 /\ \A p \in 1..N - 1 : Stack'[p] = Stack[p]
  BY DEF Pops, Below
<1>3. \A p \in 1..N : CallOK(Stack[p]) /\ (Stack[p].at \in {"requires", "main"} <=> p = 1)
  BY DEF Shape
<1>4. \A p \in 1..N - 1 : CallOK(Stack'[p]) /\ (Stack'[p].at \in {"requires", "main"} <=> p = 1)
  BY <1>1, <1>2, <1>3
<1>5. Stack'[1].of = main
  BY <1>1, <1>2 DEF Shape
<1>6. ASSUME NEW p \in 1..N - 1, p < N - 1
      PROVE  Waits(Stack'[p], Stack'[p + 1])
  <2>1. p \in 1..N /\ p < N /\ p + 1 \in 1..N - 1
    BY <1>1, <1>6
  <2>2. Waits(Stack[p], Stack[p + 1])
    BY <2>1 DEF Shape
  <2> QED BY <1>2, <2>1, <2>2
<1>7. result' = "running" <=> N' > 0
  BY <1>1, <1>2
<1> QED BY <1>2, <1>4, <1>5, <1>6, <1>7, ShapeFrom

LEMMA NestShape ==
    ASSUME TypeOK, Shape, result = "running", UNCHANGED <<main, result>>,
           NEW c \in Calls, NEW d \in Calls, Nests(c, d), c.at = Top.at, c.of = Top.of,
           c.phase = "call", CallOK(c), NEW list \in Flows, d = Frame("steps", list)
    PROVE  Shape'
<1>1. /\ N \in Nat \ {0} /\ Stack[N] = Top
      /\ Top.at \in {"requires", "main"} <=> N = 1
  BY Running
<1>2. N' = N + 1 /\ Stack'[N] = c /\ Stack'[N + 1] = d /\ \A p \in 1..N - 1 : Stack'[p] = Stack[p]
  BY DEF Nests, Below
<1>3. \A p \in 1..N : CallOK(Stack[p]) /\ (Stack[p].at \in {"requires", "main"} <=> p = 1)
  BY DEF Shape
<1>4. d.at = "steps" /\ d.phase = "next" /\ CallOK(d)
  BY FrameTyped DEF CallOK, Loops
<1>5. ASSUME NEW p \in 1..N + 1
      PROVE  CallOK(Stack'[p]) /\ (Stack'[p].at \in {"requires", "main"} <=> p = 1)
  <2>1. CASE p = N + 1
    BY <1>1, <1>2, <1>4, <2>1
  <2>2. CASE p = N
    BY <1>1, <1>2, <2>2
  <2>3. CASE p \in 1..N - 1
    BY <1>1, <1>2, <1>3, <2>3
  <2> QED BY <1>1, <2>1, <2>2, <2>3
<1>6. Stack'[1].of = main
  <2>1. Stack[1].of = main
    BY <1>1 DEF Shape
  <2> QED BY <1>1, <1>2, <2>1
<1>7. ASSUME NEW p \in 1..N + 1, p < N + 1
      PROVE  Waits(Stack'[p], Stack'[p + 1])
  <2>1. CASE p = N
    BY <1>2, <2>1 DEF Waits
  <2>2. CASE p # N
    <3>1. p \in 1..N - 1 /\ p \in 1..N /\ p < N /\ Stack'[p] = Stack[p]
      BY <1>1, <1>2, <1>7, <2>2
    <3>2. CASE p + 1 = N
      BY <1>2, <3>1, <3>2, StaysAwaited
    <3>3. CASE p + 1 # N
      <4>1. Stack'[p + 1] = Stack[p + 1]
        BY <1>1, <1>2, <3>1, <3>3
      <4> QED BY <3>1, <4>1 DEF Shape
    <3> QED BY <3>2, <3>3
  <2> QED BY <2>1, <2>2
<1>8. result' = "running" <=> N' > 0
  BY <1>1, <1>2
<1> QED BY <1>2, <1>5, <1>6, <1>7, <1>8, ShapeFrom

LEMMA NestTwoShape ==
    ASSUME TypeOK, Shape, result = "running", UNCHANGED <<main, result>>,
           NEW c \in Calls, NEW d \in Calls, NEW e \in Calls, NestsTwo(c, d, e),
           c.at = Top.at, c.of = Top.of, c.phase = "call", CallOK(c),
           NEW flow \in Flows, d = Frame("flow", flow), e = Frame("pre", flow)
    PROVE  Shape'
<1>1. /\ N \in Nat \ {0} /\ Stack[N] = Top
      /\ Top.at \in {"requires", "main"} <=> N = 1
  BY Running
<1>2. /\ N' = N + 2 /\ Stack'[N] = c /\ Stack'[N + 1] = d /\ Stack'[N + 2] = e
      /\ \A p \in 1..N - 1 : Stack'[p] = Stack[p]
  BY DEF NestsTwo, Below
<1>3. \A p \in 1..N : CallOK(Stack[p]) /\ (Stack[p].at \in {"requires", "main"} <=> p = 1)
  BY DEF Shape
<1>4. /\ d.at = "flow" /\ d.phase = "next" /\ d.of = flow /\ CallOK(d)
      /\ e.at = "pre" /\ e.phase = "next" /\ e.of = flow /\ CallOK(e)
  BY FrameTyped DEF CallOK, Loops
<1>5. ASSUME NEW p \in 1..N + 2
      PROVE  CallOK(Stack'[p]) /\ (Stack'[p].at \in {"requires", "main"} <=> p = 1)
  <2>1. CASE p = N + 1 \/ p = N + 2
    BY <1>1, <1>2, <1>4, <2>1
  <2>2. CASE p = N
    BY <1>1, <1>2, <2>2
  <2>3. CASE p \in 1..N - 1
    BY <1>1, <1>2, <1>3, <2>3
  <2> QED BY <1>1, <2>1, <2>2, <2>3
<1>6. Stack'[1].of = main
  <2>1. Stack[1].of = main
    BY <1>1 DEF Shape
  <2> QED BY <1>1, <1>2, <2>1
<1>7. ASSUME NEW p \in 1..N + 2, p < N + 2
      PROVE  Waits(Stack'[p], Stack'[p + 1])
  <2>1. CASE p = N
    BY <1>2, <2>1 DEF Waits
  <2>2. CASE p = N + 1
    <3>1. p + 1 = N + 2
      BY <1>1, <2>2
    <3> QED BY <1>2, <1>4, <2>2, <3>1 DEF Waits, AtStart
  <2>3. CASE p \notin {N, N + 1}
    <3>1. p \in 1..N - 1 /\ p \in 1..N /\ p < N /\ Stack'[p] = Stack[p]
      BY <1>1, <1>2, <1>7, <2>3
    <3>2. CASE p + 1 = N
      BY <1>2, <3>1, <3>2, StaysAwaited
    <3>3. CASE p + 1 # N
      <4>1. Stack'[p + 1] = Stack[p + 1]
        BY <1>1, <1>2, <3>1, <3>3
      <4> QED BY <3>1, <4>1 DEF Shape
    <3> QED BY <3>2, <3>3
  <2> QED BY <2>1, <2>2, <2>3
<1>8. result' = "running" <=> N' > 0
  BY <1>1, <1>2
<1> QED BY <1>2, <1>5, <1>6, <1>7, <1>8, ShapeFrom

LEMMA MoveShape ==
    ASSUME TypeOK, Shape, result = "running", Move, frames' \in Seq(Calls)
    PROVE  Shape'
<1>1. UNCHANGED main
  BY DEF Move
<1>2. CASE Stays \/ Starts \/ Ends
  BY <1>1, <1>2, SetShape DEF Stays, Starts, Ends
<1>3. CASE CallsList
  BY <1>1, <1>3, NestShape DEF CallsList
<1>4. CASE CallsFlow
  BY <1>1, <1>4, NestTwoShape DEF CallsFlow
<1>5. CASE Enters
  <2>1. /\ N' = 2 /\ Stack'[1] = Frame("main", main) /\ Stack'[2] = Frame("pre", main)
        /\ result' = "running"
    BY <1>5 DEF Enters
  <2>2. /\ Frame("main", main).at = "main" /\ Frame("main", main).of = main
        /\ Frame("main", main).phase = "next" /\ CallOK(Frame("main", main))
        /\ Frame("pre", main).at = "pre" /\ Frame("pre", main).of = main
        /\ Frame("pre", main).phase = "next" /\ CallOK(Frame("pre", main))
    BY FrameTyped DEF CallOK, Loops, TypeOK
  <2>3. \A p \in 1..2 : p = 1 \/ p = 2
    OBVIOUS
  <2>4. \A p \in 1..N' : CallOK(Stack'[p])
                         /\ (Stack'[p].at \in {"requires", "main"} <=> p = 1)
    BY <2>1, <2>2, <2>3
  <2>5. \A p \in 1..N' : p < N' => Waits(Stack'[p], Stack'[p + 1])
    BY <2>1, <2>2, <2>3 DEF Waits, AtStart
  <2> QED BY <1>1, <2>1, <2>2, <2>4, <2>5, ShapeFrom
<1>6. CASE Returns \/ Leaves
  BY <1>1, <1>6, PopShape DEF Returns, Leaves
<1>7. CASE Finishes
  BY <1>1, <1>7, ShapeFrom DEF Finishes
<1>8. CASE Waiting
  <2>1. UNCHANGED <<frames, main, result>>
    BY <1>1, <1>8 DEF Waiting
  <2>2. Stack' = Stack /\ N' = N
    BY <2>1 DEF Stack, N
  <2> QED BY <2>1, <2>2, ShapeFrom DEF Shape
<1> QED BY <1>2, <1>3, <1>4, <1>5, <1>6, <1>7, <1>8 DEF Move

-----------------------------------------------------------------------------
(* The moves keep the events nested.                                        *)

LEMMA OwnsFrom ==
    ASSUME NEW owner \in [1..Len(open') -> 1..N'],
           \A j, k \in 1..Len(open') : j < k => owner[j] < owner[k],
           \A j \in 1..Len(open') : InStep(Stack'[owner[j]])
                                    /\ open'[j].depth = Lists(Stack', owner[j]),
           \A p \in 1..N' : InStep(Stack'[p]) => \E j \in 1..Len(open') : owner[j] = p
    PROVE  (\E own \in [1..Len(open) -> 1..N] : Owns(own))'
BY DEF Owns, Depth, InStep, Lists

\* What lies below the innermost call holds as many lists as before.
LEMMA ListsBelow ==
    ASSUME N \in Nat \ {0}, Below
    PROVE  /\ \A p \in 0..N - 1 : Lists(Stack', p) = Lists(Stack, p)
           /\ Stack'[N].at = Stack[N].at => \A p \in 0..N : Lists(Stack', p) = Lists(Stack, p)
<1>1. \A p \in 1..N - 1 : Stack'[p] = Stack[p]
  BY DEF Below
<1>2. ASSUME NEW p \in 0..N - 1
      PROVE  Lists(Stack', p) = Lists(Stack, p)
  <2>1. \A q \in 1..p : q \in 1..N - 1
    OBVIOUS
  <2>2. \A q \in 1..p : Stack'[q].at = Stack[q].at
    BY <1>1, <2>1
  <2> QED BY <2>2, ListsSame
<1>3. ASSUME Stack'[N].at = Stack[N].at, NEW p \in 0..N
      PROVE  Lists(Stack', p) = Lists(Stack, p)
  <2>1. \A q \in 1..p : q \in 1..N - 1 \/ q = N
    OBVIOUS
  <2>2. \A q \in 1..p : Stack'[q].at = Stack[q].at
    BY <1>1, <1>3, <2>1
  <2> QED BY <2>2, ListsSame
<1> QED BY <1>2, <1>3

\* No event begins or ends, and the innermost call is in a step if it was.
LEMMA OwnersKept ==
    ASSUME TypeOK, Shape, Nesting, result = "running", UNCHANGED open, Below, N' \in Nat,
           \/ /\ N' >= N /\ Stack'[N].at = Top.at /\ (InStep(Stack'[N]) <=> InStep(Top))
              /\ \A p \in N + 1..N' : ~InStep(Stack'[p])
           \/ N' = N - 1 /\ ~InStep(Top)
    PROVE  (\E own \in [1..Len(open) -> 1..N] : Owns(own))'
<1>1. N \in Nat \ {0} /\ Stack[N] = Top
  BY Running
<1>2. PICK owner \in [1..Len(open) -> 1..N] : Owns(owner)
  BY DEF Nesting
<1>3. \A p \in 1..N - 1 : Stack'[p] = Stack[p] /\ Lists(Stack', p) = Lists(Stack, p)
  BY <1>1, ListsBelow DEF Below
<1>4. CASE N' >= N /\ Stack'[N].at = Top.at /\ (InStep(Stack'[N]) <=> InStep(Top))
           /\ \A p \in N + 1..N' : ~InStep(Stack'[p])
  <2>1. Lists(Stack', N) = Lists(Stack, N)
    BY <1>1, <1>4, ListsBelow
  <2>2. \A p \in 1..N : (InStep(Stack'[p]) <=> InStep(Stack[p]))
                        /\ Lists(Stack', p) = Lists(Stack, p)
    BY <1>1, <1>3, <1>4, <2>1
  <2>3. owner \in [1..Len(open') -> 1..N']
    BY <1>1, <1>4
  <2>4. ASSUME NEW p \in 1..N', InStep(Stack'[p])
        PROVE  \E j \in 1..Len(open') : owner[j] = p
    <3>1. p \in 1..N
      BY <1>1, <1>4, <2>4
    <3> QED BY <1>2, <2>2, <2>4, <3>1 DEF Owns
  <2>5. \A j \in 1..Len(open') : InStep(Stack'[owner[j]])
                                 /\ open'[j].depth = Lists(Stack', owner[j])
    BY <1>2, <2>2 DEF Owns, Depth
  <2>6. \A j, k \in 1..Len(open') : j < k => owner[j] < owner[k]
    BY <1>2 DEF Owns
  <2> QED BY <2>3, <2>4, <2>5, <2>6, OwnsFrom
<1>5. CASE N' = N - 1 /\ ~InStep(Top)
  <2>1. ASSUME NEW j \in 1..Len(open)
        PROVE  owner[j] \in 1..N - 1
    <3>1. InStep(Stack[owner[j]]) /\ owner[j] \in 1..N
      BY <1>2 DEF Owns
    <3>2. owner[j] # N
      BY <1>1, <1>5, <3>1
    <3> QED BY <1>1, <3>1, <3>2
  <2>2. owner \in [1..Len(open') -> 1..N']
    BY <1>5, <2>1
  <2>3. ASSUME NEW p \in 1..N', InStep(Stack'[p])
        PROVE  \E j \in 1..Len(open') : owner[j] = p
    <3>1. p \in 1..N /\ InStep(Stack[p])
      BY <1>1, <1>3, <1>5, <2>3
    <3> QED BY <1>2, <3>1 DEF Owns
  <2>4. \A j \in 1..Len(open') : InStep(Stack'[owner[j]])
                                 /\ open'[j].depth = Lists(Stack', owner[j])
    BY <1>2, <1>3, <2>1 DEF Owns, Depth
  <2>5. \A j, k \in 1..Len(open') : j < k => owner[j] < owner[k]
    BY <1>2 DEF Owns
  <2> QED BY <2>2, <2>3, <2>4, <2>5, OwnsFrom
<1> QED BY <1>4, <1>5

LEMMA Shortened ==
    ASSUME NEW S, NEW list \in Seq(S), Len(list) > 0
    PROVE  LET rest == SubSeq(list, 1, Len(list) - 1)
           IN  /\ rest \in Seq(S) /\ Len(rest) = Len(list) - 1
               /\ \A j \in 1..Len(list) - 1 : rest[j] = list[j]
<1>1. PICK n \in Nat : n = Len(list) - 1
  OBVIOUS
<1>2. SubSeq(list, 1, n) \in Seq(S) /\ Len(SubSeq(list, 1, n)) = n
  BY <1>1
<1>3. \A j \in 1..n : SubSeq(list, 1, n)[j] = list[j]
  BY <1>1
<1> QED BY <1>1, <1>2, <1>3

\* The innermost call's step ends, and with it the last event.
LEMMA OwnersEnd ==
    ASSUME TypeOK, Shape, Nesting, result = "running", Below,
           open' = SubSeq(open, 1, Len(open) - 1), InStep(Top),
           N' = N - 1 \/ (N' = N /\ ~InStep(Stack'[N]))
    PROVE  (\E own \in [1..Len(open) -> 1..N] : Owns(own))'
<1>1. N \in Nat \ {0} /\ Stack[N] = Top
  BY Running
<1>2. PICK owner \in [1..Len(open) -> 1..N] : Owns(owner)
  BY DEF Nesting
<1>3. \A p \in 1..N - 1 : Stack'[p] = Stack[p] /\ Lists(Stack', p) = Lists(Stack, p)
  BY <1>1, ListsBelow DEF Below
<1>4. open \in Seq([index : Nat, depth : Nat]) /\ Len(open) \in Nat
  BY DEF TypeOK
<1>5. PICK last \in 1..Len(open) : owner[last] = N
  <2>1. N \in 1..N
    BY <1>1
  <2> QED BY <1>1, <1>2, <2>1 DEF Owns
<1>6. ASSUME NEW j \in 1..Len(open), j > last
      PROVE  FALSE
  <2>1. owner[last] < owner[j] /\ owner[j] \in 1..N
    BY <1>2, <1>6 DEF Owns
  <2> QED BY <1>1, <1>5, <2>1
<1>7. last = Len(open)
  BY <1>4, <1>6
<1>8. Len(open') = Len(open) - 1 /\ \A j \in 1..Len(open) - 1 : open'[j] = open[j]
  <2>1. Len(open) > 0
    BY <1>4, <1>5
  <2> QED BY <1>4, <2>1, Shortened
<1>9. ASSUME NEW j \in 1..Len(open) - 1
      PROVE  owner[j] \in 1..N - 1
  <2>1. j \in 1..Len(open) /\ j < last
    BY <1>4, <1>7, <1>9
  <2>2. owner[j] < owner[last] /\ owner[j] \in 1..N
    BY <1>2, <2>1 DEF Owns
  <2> QED BY <1>1, <1>5, <2>2
<1> DEFINE own == [j \in 1..Len(open) - 1 |-> owner[j]]
<1>10. own \in [1..Len(open') -> 1..N'] /\ \A j \in 1..Len(open') : own[j] = owner[j]
  BY <1>1, <1>8, <1>9
<1>11. \A p \in 1..N' : InStep(Stack'[p]) => p \in 1..N - 1 /\ InStep(Stack[p])
  BY <1>1, <1>3
<1> HIDE DEF own
<1>12. ASSUME NEW p \in 1..N', InStep(Stack'[p])
       PROVE  \E j \in 1..Len(open') : own[j] = p
  <2>1. p \in 1..N /\ p # N /\ InStep(Stack[p])
    BY <1>1, <1>11, <1>12
  <2>2. PICK j \in 1..Len(open) : owner[j] = p
    BY <1>2, <2>1 DEF Owns
  <2>3. j \in 1..Len(open')
    BY <1>4, <1>5, <1>7, <1>8, <2>1, <2>2
  <2> QED BY <1>10, <2>2, <2>3
<1>13. ASSUME NEW j \in 1..Len(open')
       PROVE  InStep(Stack'[own[j]]) /\ open'[j].depth = Lists(Stack', own[j])
  <2>1. own[j] = owner[j] /\ j \in 1..Len(open) - 1
    BY <1>8, <1>10
  <2>3. j \in 1..Len(open) /\ owner[j] \in 1..N - 1
    BY <1>4, <1>9, <2>1
  <2>2. InStep(Stack[owner[j]]) /\ open[j].depth = Lists(Stack, owner[j])
    BY <1>2, <2>3 DEF Owns, Depth
  <2> QED BY <1>3, <1>8, <2>1, <2>2, <2>3
<1>14. ASSUME NEW j \in 1..Len(open'), NEW k \in 1..Len(open'), j < k
       PROVE  own[j] < own[k]
  <2>1. j \in 1..Len(open) - 1 /\ k \in 1..Len(open) - 1
    BY <1>8
  <2>2. j \in 1..Len(open)
    BY <1>4, <2>1
  <2>3. k \in 1..Len(open)
    BY <1>4, <2>1
  <2> QED BY <1>2, <1>10, <1>14, <2>2, <2>3 DEF Owns
<1> QED BY <1>10, <1>12, <1>13, <1>14, OwnsFrom

\* The innermost call starts a step.
LEMMA OwnersStart ==
    ASSUME TypeOK, Shape, Nesting, result = "running", Below, N' = N,
           NEW e, open' = Append(open, e), ~InStep(Top), InStep(Stack'[N]),
           Stack'[N].at = Top.at, e.depth = Lists(Stack, N), e \in [index : Nat, depth : Nat]
    PROVE  (\E own \in [1..Len(open) -> 1..N] : Owns(own))'
<1>1. N \in Nat \ {0} /\ Stack[N] = Top
  BY Running
<1>2. PICK owner \in [1..Len(open) -> 1..N] : Owns(owner)
  BY DEF Nesting
<1>3. /\ \A p \in 1..N - 1 : Stack'[p] = Stack[p]
      /\ \A p \in 1..N : Lists(Stack', p) = Lists(Stack, p)
  BY <1>1, ListsBelow DEF Below
<1>4. open \in Seq([index : Nat, depth : Nat]) /\ Len(open) \in Nat
  BY DEF TypeOK
<1>5. Len(open') = Len(open) + 1 /\ open'[Len(open) + 1] = e
      /\ \A j \in 1..Len(open) : open'[j] = open[j]
  BY <1>4
<1>6. ASSUME NEW j \in 1..Len(open)
      PROVE  owner[j] \in 1..N - 1
  <2>1. InStep(Stack[owner[j]]) /\ owner[j] \in 1..N
    BY <1>2 DEF Owns
  <2>2. owner[j] # N
    BY <1>1, <2>1
  <2> QED BY <1>1, <2>1, <2>2
<1> DEFINE own == [j \in 1..Len(open) + 1 |-> IF j = Len(open) + 1 THEN N ELSE owner[j]]
<1>7. /\ own \in [1..Len(open') -> 1..N'] /\ own[Len(open) + 1] = N
      /\ \A j \in 1..Len(open) : own[j] = owner[j]
  BY <1>1, <1>4, <1>5, <1>6
<1> HIDE DEF own
<1>8. \A j \in 1..Len(open') : j \in 1..Len(open) \/ j = Len(open) + 1
  BY <1>4, <1>5
<1>9. ASSUME NEW p \in 1..N', InStep(Stack'[p])
      PROVE  \E j \in 1..Len(open') : own[j] = p
  <2>1. CASE p = N
    <3>1. Len(open) + 1 \in 1..Len(open')
      BY <1>4, <1>5
    <3> QED BY <1>7, <2>1, <3>1
  <2>2. CASE p # N
    <3>1. p \in 1..N /\ InStep(Stack[p])
      BY <1>1, <1>3, <1>9, <2>2
    <3>2. PICK j \in 1..Len(open) : owner[j] = p
      BY <1>2, <3>1 DEF Owns
    <3>3. j \in 1..Len(open')
      BY <1>4, <1>5
    <3> QED BY <1>7, <3>2, <3>3
  <2> QED BY <2>1, <2>2
<1>10. ASSUME NEW j \in 1..Len(open')
       PROVE  InStep(Stack'[own[j]]) /\ open'[j].depth = Lists(Stack', own[j])
  <2>1. CASE j = Len(open) + 1
    <3>1. N \in 1..N
      BY <1>1
    <3>2. Lists(Stack', N) = Lists(Stack, N)
      BY <1>3, <3>1
    <3> QED BY <1>5, <1>7, <2>1, <3>2
  <2>2. CASE j \in 1..Len(open)
    <3>1. own[j] = owner[j] /\ owner[j] \in 1..N - 1 /\ owner[j] \in 1..N
      BY <1>1, <1>6, <1>7, <2>2
    <3>2. InStep(Stack[owner[j]]) /\ open[j].depth = Lists(Stack, owner[j])
      BY <1>2, <2>2 DEF Owns, Depth
    <3> QED BY <1>3, <1>5, <2>2, <3>1, <3>2
  <2> QED BY <1>8, <2>1, <2>2
<1>11. ASSUME NEW j \in 1..Len(open'), NEW k \in 1..Len(open'), j < k
       PROVE  own[j] < own[k]
  <2>1. j \in 1..Len(open)
    BY <1>4, <1>8, <1>11
  <2>2. CASE k \in 1..Len(open)
    BY <1>2, <1>7, <1>11, <2>1, <2>2 DEF Owns
  <2>3. CASE k = Len(open) + 1
    <3>1. own[j] \in 1..N - 1 /\ own[k] = N
      BY <1>6, <1>7, <2>1, <2>3
    <3> QED BY <1>1, <3>1
  <2> QED BY <1>8, <2>2, <2>3
<1> QED BY <1>7, <1>9, <1>10, <1>11, OwnsFrom

LEMMA NoneOpen ==
    ASSUME TypeOK, Shape, Nesting, result = "running", N = 1, ~InStep(Top)
    PROVE  Len(open) = 0 /\ depth = 0
<1>1. Stack[1] = Top /\ Top.at \in {"requires", "main"}
  BY Running
<1>2. PICK owner \in [1..Len(open) -> 1..1] : Owns(owner)
  BY DEF Nesting
<1>3. Len(open) \in Nat
  BY DEF TypeOK
<1>4. ASSUME NEW j \in 1..Len(open)
      PROVE  FALSE
  <2>1. owner[j] = 1 /\ InStep(Stack[owner[j]])
    BY <1>2, <1>4 DEF Owns
  <2> QED BY <1>1, <2>1
<1>5. Lists(Stack, 0 + 1) = 0
  <2>1. Stack[0 + 1].at # "steps"
    BY <1>1
  <2> QED BY <2>1, ListsCounted
<1> QED BY <1>3, <1>4, <1>5 DEF Nesting, Depth

\* Nothing is open on no calls.
LEMMA NoOwners ==
    ASSUME Len(open') = 0, \A p \in 1..N' : ~InStep(Stack'[p])
    PROVE  (\E own \in [1..Len(open) -> 1..N] : Owns(own))'
<1> DEFINE own == [j \in 1..0 |-> 1]
<1>1. own \in [1..Len(open') -> 1..N']
  OBVIOUS
<1> HIDE DEF own
<1>2. \A j \in 1..Len(open') : FALSE
  OBVIOUS
<1> QED BY <1>1, <1>2, OwnsFrom

LEMMA MoveNesting ==
    ASSUME TypeOK, Shape, Nesting, result = "running", Move, frames' \in Seq(Calls)
    PROVE  Nesting' /\ depth' \in Nat
<1>1. /\ N \in Nat \ {0} /\ Stack[N] = Top /\ N - 1 \in Nat /\ (N - 1) + 1 = N
      /\ Top.at \in {"requires", "main"} <=> N = 1
      /\ N' \in Nat
  BY Running DEF N
<1>2. depth = Lists(Stack, N) /\ depth \in Nat
  BY DEF Nesting, Depth, TypeOK
<1>3. Lists(Stack, N) = IF Top.at = "steps" THEN Lists(Stack, N - 1) + 1 ELSE Lists(Stack, N - 1)
  BY <1>1, ListsCounted
<1>4. Lists(Stack, N - 1) \in Nat
  BY <1>1, ListsCounted
<1>5. ASSUME Below
      PROVE  /\ Lists(Stack', N - 1) = Lists(Stack, N - 1)
             /\ Stack'[N].at = Top.at => Lists(Stack', N) = Lists(Stack, N)
  BY <1>1, <1>5, ListsBelow
<1>6. ASSUME depth' = Lists(Stack', N'), (\E own \in [1..Len(open) -> 1..N] : Owns(own))'
      PROVE  Nesting'
  BY <1>6 DEF Nesting, Depth, Lists
<1>7. CASE Stays
  <2>1. PICK c \in Calls : SetsTo(c) /\ c.at = Top.at /\ ~InStep(Top) /\ ~InStep(c) /\ UNCHANGED events
    BY <1>7 DEF Stays
  <2>2. N' = N /\ Stack'[N] = c /\ Below /\ UNCHANGED <<open, depth>>
    BY <2>1 DEF SetsTo, events
  <2>3. (\E own \in [1..Len(open) -> 1..N] : Owns(own))'
    BY <1>1, <2>1, <2>2, OwnersKept
  <2> QED BY <1>2, <1>5, <1>6, <2>1, <2>2, <2>3
<1>8. CASE Starts
  <2> DEFINE e == [index |-> index, depth |-> IF Top.at = "main" THEN 0 ELSE depth]
  <2>1. PICK c \in Calls : SetsTo(c) /\ c.at = Top.at /\ c.phase = "run"
    BY <1>8 DEF Starts
  <2>2. N' = N /\ Stack'[N] = c /\ Below /\ UNCHANGED depth /\ open' = Append(open, e)
        /\ Top.at \in Loops /\ Top.phase = "checked"
    BY <1>8, <2>1 DEF SetsTo, Starts
  <2>3. ~InStep(Top) /\ InStep(Stack'[N])
    BY <2>1, <2>2 DEF InStep
  <2>4. e \in [index : Nat, depth : Nat]
    BY DEF TypeOK
  <2>5. e.depth = Lists(Stack, N)
    <3>1. CASE Top.at = "main"
      <4>1. depth = 0
        BY <1>1, <2>3, <3>1, NoneOpen
      <4> QED BY <1>2, <3>1, <4>1
    <3> QED BY <1>2, <3>1
  <2> HIDE DEF e
  <2>6. (\E own \in [1..Len(open) -> 1..N] : Owns(own))'
    BY <2>1, <2>2, <2>3, <2>4, <2>5, OwnersStart
  <2> QED BY <1>2, <1>5, <1>6, <2>1, <2>2, <2>6
<1>9. CASE CallsList
  <2>1. PICK c, d \in Calls :
            /\ Nests(c, d) /\ c.at = Top.at /\ (InStep(c) <=> InStep(Top))
            /\ \E list \in Flows : d = Frame("steps", list)
    BY <1>9 DEF CallsList
  <2>2. /\ N' = N + 1 /\ Stack'[N] = c /\ Stack'[N + 1] = d /\ Below
        /\ UNCHANGED open /\ depth' = depth + 1
    BY <1>9, <2>1 DEF Nests, CallsList
  <2>3. d.at = "steps" /\ ~InStep(d)
    BY <2>1, FrameTyped DEF InStep
  <2>4. \A p \in N + 1..N' : ~InStep(Stack'[p])
    BY <1>1, <2>2, <2>3
  <2>5. (\E own \in [1..Len(open) -> 1..N] : Owns(own))'
    BY <1>1, <2>1, <2>2, <2>4, OwnersKept
  <2>6. Lists(Stack', N + 1) = Lists(Stack', N) + 1
    BY <1>1, <2>2, <2>3, ListsCounted
  <2> QED BY <1>2, <1>5, <1>6, <2>1, <2>2, <2>5, <2>6
<1>10. CASE CallsFlow
  <2>1. PICK c, d, e \in Calls :
            /\ NestsTwo(c, d, e) /\ c.at = Top.at /\ (InStep(c) <=> InStep(Top))
            /\ \E flow \in Flows : d = Frame("flow", flow) /\ e = Frame("pre", flow)
    BY <1>10 DEF CallsFlow
  <2>2. /\ N' = N + 2 /\ Stack'[N] = c /\ Stack'[N + 1] = d /\ Stack'[N + 2] = e /\ Below
        /\ UNCHANGED <<open, depth>>
    BY <1>10, <2>1 DEF NestsTwo, CallsFlow, events
  <2>3. d.at = "flow" /\ ~InStep(d) /\ e.at = "pre" /\ ~InStep(e)
    BY <2>1, FrameTyped DEF InStep, Loops
  <2>4. \A p \in N + 1..N' : ~InStep(Stack'[p])
    <3>1. \A p \in N + 1..N' : p = N + 1 \/ p = N + 2
      BY <1>1, <2>2
    <3> QED BY <2>2, <2>3, <3>1
  <2>5. (\E own \in [1..Len(open) -> 1..N] : Owns(own))'
    BY <1>1, <2>1, <2>2, <2>4, OwnersKept
  <2>6. Lists(Stack', N + 1) = Lists(Stack', N)
    BY <1>1, <2>2, <2>3, ListsCounted
  <2>7. Lists(Stack', (N + 1) + 1) = Lists(Stack', N + 1)
    <3>1. N + 1 \in Nat /\ (N + 1) + 1 = N + 2
      BY <1>1
    <3> QED BY <2>2, <2>3, <3>1, ListsCounted
  <2>8. (N + 1) + 1 = N + 2
    BY <1>1
  <2> QED BY <1>2, <1>5, <1>6, <2>1, <2>2, <2>5, <2>6, <2>7, <2>8
<1>11. CASE Enters
  <2>1. /\ N = 1 /\ ~InStep(Top) /\ UNCHANGED <<open, depth>>
        /\ N' = 2 /\ Stack'[1] = Frame("main", main) /\ Stack'[2] = Frame("pre", main)
    BY <1>11 DEF Enters, InStep, Loops, events
  <2>2. Len(open) = 0 /\ depth = 0
    BY <2>1, NoneOpen
  <2>3. /\ Stack'[1].at = "main" /\ ~InStep(Stack'[1])
        /\ Stack'[2].at = "pre" /\ ~InStep(Stack'[2])
    BY <2>1, FrameTyped DEF InStep, Loops, TypeOK
  <2>4. \A p \in 1..N' : p = 1 \/ p = 2
    BY <2>1
  <2>5. (\E own \in [1..Len(open) -> 1..N] : Owns(own))'
    <3>1. Len(open') = 0 /\ \A p \in 1..N' : ~InStep(Stack'[p])
      BY <2>1, <2>2, <2>3, <2>4
    <3> QED BY <3>1, NoOwners
  <2>6. Lists(Stack', 0 + 1) = 0
    BY <2>3, ListsCounted
  <2>7. Lists(Stack', 1 + 1) = 0
    BY <2>3, <2>6, ListsCounted
  <2>8. Lists(Stack', N') = 0
    <3>1. 1 + 1 = 2
      OBVIOUS
    <3> QED BY <2>1, <2>7, <3>1
  <2> QED BY <1>6, <2>1, <2>2, <2>5, <2>8
<1>12. CASE Returns
  <2>1. N' = N - 1 /\ Below /\ ~InStep(Top) /\ Top.at # "steps" /\ UNCHANGED <<open, depth>>
    BY <1>12 DEF Returns, Pops, InStep, Loops, events
  <2>2. (\E own \in [1..Len(open) -> 1..N] : Owns(own))'
    BY <1>1, <2>1, OwnersKept
  <2> QED BY <1>2, <1>3, <1>5, <1>6, <2>1, <2>2
<1>13. CASE Leaves
  <2>1. /\ N' = N - 1 /\ Below /\ Top.at = "steps" /\ depth' = depth - 1
        /\ IF InStep(Top) THEN open' = SubSeq(open, 1, Len(open) - 1) ELSE open' = open
    BY <1>13 DEF Leaves, Pops
  <2>2. (\E own \in [1..Len(open) -> 1..N] : Owns(own))'
    <3>1. CASE InStep(Top)
      BY <2>1, <3>1, OwnersEnd
    <3>2. CASE ~InStep(Top)
      BY <1>1, <2>1, <3>2, OwnersKept
    <3> QED BY <3>1, <3>2
  <2> QED BY <1>2, <1>3, <1>4, <1>5, <1>6, <2>1, <2>2
<1>14. CASE Ends
  <2>1. PICK c \in Calls : SetsTo(c) /\ c.at = Top.at /\ ~InStep(c)
    BY <1>14 DEF Ends
  <2>2. /\ N' = N /\ Stack'[N] = c /\ Below /\ UNCHANGED depth /\ InStep(Top)
        /\ open' = SubSeq(open, 1, Len(open) - 1)
    BY <1>14, <2>1 DEF SetsTo, Ends
  <2>3. (\E own \in [1..Len(open) -> 1..N] : Owns(own))'
    BY <2>1, <2>2, OwnersEnd
  <2> QED BY <1>2, <1>5, <1>6, <2>1, <2>2, <2>3
<1>15. CASE Finishes
  <2>1. N = 1 /\ N' = 0 /\ ~InStep(Top) /\ UNCHANGED <<open, depth>>
    BY <1>15 DEF Finishes, events
  <2>2. Len(open) = 0 /\ depth = 0
    BY <2>1, NoneOpen
  <2>3. (\E own \in [1..Len(open) -> 1..N] : Owns(own))'
    BY <2>1, <2>2, NoOwners
  <2>4. Lists(Stack', 0) = 0
    BY ListsCounted
  <2> QED BY <1>6, <2>1, <2>2, <2>3, <2>4
<1>16. CASE Waiting
  <2>1. UNCHANGED <<frames, open, depth>>
    BY <1>16 DEF Waiting, events
  <2>2. N' = N /\ Stack' = Stack
    BY <2>1 DEF N, Stack
  <2>3. Below /\ N' >= N /\ \A p \in N + 1..N' : ~InStep(Stack'[p])
    BY <1>1, <2>2 DEF Below
  <2>4. (\E own \in [1..Len(open) -> 1..N] : Owns(own))'
    BY <1>1, <2>1, <2>2, <2>3, OwnersKept
  <2> QED BY <1>2, <1>6, <2>1, <2>2, <2>4
<1> QED BY <1>7, <1>8, <1>9, <1>10, <1>11, <1>12, <1>13, <1>14, <1>15, <1>16 DEF Move

-----------------------------------------------------------------------------
(* The moves keep the rest of what is said of calls and events.             *)

LEMMA MoveIndices ==
    ASSUME TypeOK, Shape, Nesting, Indices, result = "running", Move, frames' \in Seq(Calls)
    PROVE  /\ Indices' /\ index' \in Nat /\ late' \in Nat
           /\ open' \in Seq([index : Nat, depth : Nat])
<1>1. open \in Seq([index : Nat, depth : Nat]) /\ index \in Nat /\ late \in Nat /\ depth \in Nat
      /\ Len(open) \in Nat
  BY DEF TypeOK
<1>2. ASSUME open' = open \/ (open' = SubSeq(open, 1, Len(open) - 1) /\ InStep(Top)),
             index' = index, late' = late
      PROVE  Indices' /\ open' \in Seq([index : Nat, depth : Nat])
  <2>1. CASE open' = open
    BY <1>1, <1>2, <2>1 DEF Indices
  <2>2. CASE open' = SubSeq(open, 1, Len(open) - 1) /\ InStep(Top)
    <3>1. Len(open) > 0
      <4>1. N \in 1..N /\ Stack[N] = Top
        BY Running
      <4>2. PICK owner \in [1..Len(open) -> 1..N] : Owns(owner)
        BY DEF Nesting
      <4>3. \E j \in 1..Len(open) : owner[j] = N
        BY <2>2, <4>1, <4>2 DEF Owns
      <4> QED BY <1>1, <4>3
    <3>2. /\ open' \in Seq([index : Nat, depth : Nat]) /\ Len(open') = Len(open) - 1
          /\ \A j \in 1..Len(open) - 1 : open'[j] = open[j]
      BY <1>1, <2>2, <3>1, Shortened
    <3>3. \A j \in 1..Len(open') : j \in 1..Len(open) /\ open'[j] = open[j]
      <4>1. \A j \in 1..Len(open) - 1 : j \in 1..Len(open)
        BY <1>1
      <4> QED BY <3>2, <4>1
    <3>4. \A j \in 1..Len(open') : open'[j].index < index'
      BY <1>2, <3>3 DEF Indices
    <3>5. \A j, k \in 1..Len(open') : j < k => open'[j].index < open'[k].index
      BY <3>3 DEF Indices
    <3> QED BY <3>2, <3>4, <3>5 DEF Indices
  <2> QED BY <1>2, <2>1, <2>2
<1>3. CASE Starts
  <2> DEFINE e == [index |-> index, depth |-> IF Top.at = "main" THEN 0 ELSE depth]
  <2>1. index' = index + 1 /\ open' = Append(open, e) /\ late' \in {late, late + 1}
    BY <1>3 DEF Starts
  <2>2. e \in [index : Nat, depth : Nat] /\ e.index = index
    BY <1>1
  <2> HIDE DEF e
  <2>3. /\ open' \in Seq([index : Nat, depth : Nat]) /\ Len(open') = Len(open) + 1
        /\ open'[Len(open) + 1] = e
        /\ \A j \in 1..Len(open) : open'[j] = open[j]
    BY <1>1, <2>1, <2>2
  <2>4. \A j \in 1..Len(open') : j \in 1..Len(open) \/ j = Len(open) + 1
    BY <1>1, <2>3
  <2>5. ASSUME NEW j \in 1..Len(open)
        PROVE  open[j].index \in Nat /\ open[j].index < index
    <3>1. open[j] \in [index : Nat, depth : Nat]
      BY <1>1, ElementOf
    <3> QED BY <3>1 DEF Indices
  <2>6. ASSUME NEW j \in 1..Len(open')
        PROVE  open'[j].index < index'
    <3>1. CASE j \in 1..Len(open)
      BY <1>1, <2>1, <2>3, <2>5, <3>1, SMTT(30)
    <3>2. CASE j = Len(open) + 1
      BY <1>1, <2>1, <2>2, <2>3, <3>2
    <3> QED BY <2>4, <3>1, <3>2
  <2>7. ASSUME NEW j \in 1..Len(open'), NEW k \in 1..Len(open'), j < k
        PROVE  open'[j].index < open'[k].index
    <3>1. j \in 1..Len(open)
      BY <1>1, <2>4, <2>7
    <3>2. CASE k \in 1..Len(open)
      BY <2>3, <2>7, <3>1, <3>2 DEF Indices
    <3>3. CASE k = Len(open) + 1
      BY <2>2, <2>3, <2>5, <3>1, <3>3
    <3> QED BY <2>4, <3>2, <3>3
  <2>8. index' \in Nat /\ late' \in Nat
    BY <1>1, <2>1
  <2> QED BY <2>3, <2>6, <2>7, <2>8 DEF Indices
<1>4. CASE Stays \/ CallsList \/ CallsFlow \/ Enters \/ Returns \/ Finishes \/ Waiting
  BY <1>1, <1>2, <1>4 DEF Stays, CallsList, CallsFlow, Enters, Returns, Finishes, Waiting, events
<1>5. CASE Leaves \/ Ends
  BY <1>1, <1>2, <1>5 DEF Leaves, Ends
<1> QED BY <1>3, <1>4, <1>5 DEF Move

\* Only the innermost call can be about to start a step.
LEMMA CheckedIsInnermost ==
    ASSUME TypeOK, Shape, NEW p \in 1..N, Stack[p].phase = "checked"
    PROVE  p = N
BY DEF Shape, Waits, AtStart, N, TypeOK

LEMMA LateFrom ==
    ASSUME late' = 0 \/ (late' = 1 /\ ctxDone' /\ \A p \in 1..N' : Stack'[p].phase # "checked")
    PROVE  Late'
BY DEF Late

LEMMA MoveLate ==
    ASSUME TypeOK, Shape, Shape', Late, result = "running", Move, frames' \in Seq(Calls)
    PROVE  Late'
<1>1. /\ N \in Nat \ {0} /\ Stack[N] = Top /\ N' \in Nat /\ UNCHANGED ctxDone
  BY Running DEF Move, N
<1>2. ASSUME late' = late, \A p \in 1..N - 1 : Stack'[p] = Stack[p], N' >= N - 1,
             \A p \in N..N' : Stack'[p].phase = "checked" => ~ctxDone
      PROVE  Late'
  <2>1. ASSUME late = 1, ctxDone, NEW p \in 1..N'
        PROVE  Stack'[p].phase # "checked"
    <3>1. CASE p \in 1..N - 1
      BY <1>1, <1>2, <2>1, <3>1 DEF Late
    <3>2. CASE p \in N..N'
      BY <1>2, <2>1, <3>2
    <3> QED BY <1>1, <3>1, <3>2
  <2> QED BY <1>1, <1>2, <2>1, LateFrom DEF Late
<1>3. CASE Stays
  <2>1. PICK c \in Calls : SetsTo(c) /\ (c.phase = "checked" => ~ctxDone)
    BY <1>3 DEF Stays
  <2>2. N' = N /\ late' = late /\ \A p \in N..N' : Stack'[p] = c
    BY <1>1, <1>3, <2>1 DEF SetsTo, Stays, events
  <2> QED BY <1>1, <1>2, <2>1, <2>2 DEF SetsTo, Below
<1>4. CASE Starts
  <2>1. PICK c \in Calls : SetsTo(c) /\ c.phase = "run"
    BY <1>4 DEF Starts
  <2>2. N' = N /\ Stack'[N] = c /\ (\A p \in 1..N - 1 : Stack'[p] = Stack[p])
        /\ Top.phase = "checked" /\ late' = IF ctxDone THEN late + 1 ELSE late
    BY <1>4, <2>1 DEF SetsTo, Below, Starts
  <2>3. late = 0
    <3>1. N \in 1..N
      BY <1>1
    <3> QED BY <1>1, <2>2, <3>1 DEF Late
  <2>4. ASSUME NEW p \in 1..N'
        PROVE  Stack'[p].phase # "checked"
    <3>1. CASE p = N
      BY <2>1, <2>2, <3>1
    <3>2. CASE p # N
      <4>1. p \in 1..N /\ p \in 1..N - 1
        BY <1>1, <2>2, <3>2
      <4>2. Stack[p].phase # "checked"
        BY <3>2, <4>1, CheckedIsInnermost
      <4> QED BY <2>2, <4>1, <4>2
    <3> QED BY <3>1, <3>2
  <2> QED BY <1>1, <2>2, <2>3, <2>4, LateFrom
<1>5. CASE CallsList
  <2>1. PICK c, d \in Calls :
            Nests(c, d) /\ c.phase = "call" /\ \E list \in Flows : d = Frame("steps", list)
    BY <1>5 DEF CallsList
  <2>2. d.phase = "next" /\ late' = late
    BY <1>5, <2>1, FrameTyped DEF CallsList
  <2>3. N' = N + 1 /\ \A p \in N..N' : p = N \/ p = N + 1
    BY <1>1, <2>1 DEF Nests
  <2>4. \A p \in N..N' : Stack'[p].phase # "checked"
    BY <2>1, <2>2, <2>3 DEF Nests
  <2> QED BY <1>1, <1>2, <2>1, <2>2, <2>3, <2>4 DEF Nests, Below
<1>6. CASE CallsFlow
  <2>1. PICK c, d, e \in Calls :
            NestsTwo(c, d, e) /\ c.phase = "call"
            /\ \E flow \in Flows : d = Frame("flow", flow) /\ e = Frame("pre", flow)
    BY <1>6 DEF CallsFlow
  <2>2. d.phase = "next" /\ e.phase = "next" /\ late' = late
    BY <1>6, <2>1, FrameTyped DEF CallsFlow, events
  <2>3. N' = N + 2 /\ \A p \in N..N' : p = N \/ p = N + 1 \/ p = N + 2
    BY <1>1, <2>1 DEF NestsTwo
  <2>4. \A p \in N..N' : Stack'[p].phase # "checked"
    BY <2>1, <2>2, <2>3 DEF NestsTwo
  <2> QED BY <1>1, <1>2, <2>1, <2>2, <2>3, <2>4 DEF NestsTwo, Below
<1>7. CASE Enters
  <2>1. N = 1 /\ N' = 2 /\ late' = late
        /\ Stack'[1].phase = "next" /\ Stack'[2].phase = "next"
    BY <1>7, FrameTyped DEF Enters, TypeOK, events
  <2>2. \A p \in 1..N' : Stack'[p].phase # "checked"
    <3>1. \A p \in 1..N' : p = 1 \/ p = 2
      BY <2>1
    <3> QED BY <2>1, <3>1
  <2> QED BY <1>1, <2>1, <2>2, LateFrom DEF Late
<1>8. CASE Returns \/ Leaves
  <2>1. N' = N - 1 /\ (\A p \in 1..N - 1 : Stack'[p] = Stack[p]) /\ late' = late
    BY <1>8 DEF Returns, Leaves, Pops, Below, events
  <2>2. \A p \in N..N' : FALSE
    BY <1>1, <2>1
  <2> QED BY <1>1, <1>2, <2>1, <2>2
<1>9. CASE Ends
  <2>1. PICK c \in Calls : SetsTo(c) /\ c.phase # "checked"
    BY <1>9 DEF Ends
  <2>2. N' = N /\ late' = late /\ \A p \in N..N' : Stack'[p] = c
    BY <1>1, <1>9, <2>1 DEF SetsTo, Ends
  <2> QED BY <1>1, <1>2, <2>1, <2>2 DEF SetsTo, Below
<1>10. CASE Finishes
  <2>1. N' = 0 /\ late' = late
    BY <1>10 DEF Finishes, events
  <2>2. \A p \in 1..N' : FALSE
    BY <2>1
  <2> QED BY <1>1, <2>1, <2>2, LateFrom DEF Late
<1>11. CASE Waiting
  BY <1>1, <1>11 DEF Waiting, events, Late, Stack, N
<1> QED BY <1>3, <1>4, <1>5, <1>6, <1>7, <1>8, <1>9, <1>10, <1>11 DEF Move

LEMMA UnwindingFrom ==
    ASSUME \/ result' # "running" \/ ~failed'
           \/ Stack'[N'].phase = "classify"
           \/ ret' = "fail" /\ (Stack'[N'].phase = "call" \/ AtStart(Stack'[N']))
    PROVE  Unwinding'
BY DEF Unwinding, AtStart

LEMMA MoveUnwinding ==
    ASSUME TypeOK, Shape, Unwinding, result = "running", Move, frames' \in Seq(Calls)
    PROVE  Unwinding' /\ failed' \in BOOLEAN /\ ret' \in {"none", "ok", "fail"}
           /\ result' \in {"running", "ok", "failed", "error"}
<1>1. N \in Nat \ {0} /\ Stack[N] = Top /\ failed \in BOOLEAN /\ ret \in {"none", "ok", "fail"}
  BY Running DEF TypeOK
<1>2. CASE Stays \/ Starts \/ CallsList \/ CallsFlow \/ Enters
  <2>1. ~failed /\ failed' = failed /\ result' = result /\ ret' \in {ret, "none"}
    BY <1>2 DEF Stays, Starts, CallsList, CallsFlow, Enters
  <2> QED BY <1>1, <2>1, UnwindingFrom
<1>3. CASE Returns \/ Leaves
  <2>1. /\ N > 1 /\ N' = N - 1 /\ Stack'[N - 1] = Stack[N - 1] /\ result' = result
        /\ failed' \in BOOLEAN /\ (failed' => ret' = "fail") /\ ret' \in {"ok", "fail"}
    BY <1>1, <1>3 DEF Returns, Leaves, Pops, Below
  <2>2. Waits(Stack[N - 1], Stack[N])
    <3>1. N - 1 \in 1..N /\ N - 1 < N /\ (N - 1) + 1 = N
      BY <1>1, <2>1
    <3>2. Waits(Stack[N - 1], Stack[(N - 1) + 1])
      BY <3>1 DEF Shape
    <3> QED BY <3>1, <3>2
  <2>3. Stack'[N'].phase = "call" \/ AtStart(Stack'[N'])
    BY <2>1, <2>2 DEF Waits
  <2> QED BY <2>1, <2>3, UnwindingFrom
<1>4. CASE Ends
  <2>1. PICK c \in Calls : SetsTo(c) /\ (failed' => c.phase = "classify")
    BY <1>4 DEF Ends
  <2>2. Stack'[N'] = c /\ failed' \in BOOLEAN /\ ret' = "none" /\ result' = result
    BY <1>4, <2>1 DEF SetsTo, Ends
  <2> QED BY <2>1, <2>2, UnwindingFrom
<1>5. CASE Finishes
  BY <1>1, <1>5, UnwindingFrom DEF Finishes
<1>6. CASE Waiting
  <2>1. N' = N /\ Stack' = Stack /\ failed' = failed /\ result' = result
        /\ (failed => ret' = ret) /\ ret' \in {ret, "none"}
    BY <1>6 DEF Waiting, N, Stack
  <2>2. Unwinding'
    BY <1>1, <2>1, UnwindingFrom DEF Unwinding
  <2> QED BY <1>1, <2>1, <2>2
<1> QED BY <1>2, <1>3, <1>4, <1>5, <1>6 DEF Move

\* A run goes on only while it runs.
LEMMA RunRunning ==
    ASSUME Run
    PROVE  result = "running"
BY DEF Run, Prepare, Preconditions, Steps, ProxyRequired, RequireDone, RequireUnloadable,
       RequireFlow, RequireReturns, RequiresDone, Requiring, PreDone, PreCancelled, PreSkip,
       PreAlways, PreEnsure, PreSetupReturns, PreConfirm, FlowSteps, FlowReturns, MainStart,
       MainDone, MainCancelled, NestedDone, NestedCancelled, UnknownCommand, CheckStep,
       SkipStep, StartStep, RunPlain, RunLaunch, RunCapture, RunFlow, RunBranch, StepReturns,
       Classify, AtStep, In

-----------------------------------------------------------------------------
(* The gates before the script's own steps.                                 *)

LEMMA FailedStays ==
    ASSUME Run, failed
    PROVE  failed'
BY DEF Run, Prepare, Preconditions, Steps, ProxyRequired, RequireDone, RequireUnloadable,
       RequireFlow, RequireReturns, RequiresDone, PreDone, PreCancelled, PreSkip,
       PreAlways, PreEnsure, PreSetupReturns, PreConfirm, FlowSteps, FlowReturns, MainStart,
       MainDone, MainCancelled, NestedDone, NestedCancelled, UnknownCommand, CheckStep,
       SkipStep, StartStep, RunPlain, RunLaunch, RunCapture, RunFlow, RunBranch, StepReturns,
       Classify, StepEnds, Fail

\* A move that neither enters the script nor ends the run leaves the lower calls alone.
LEMMA MoveBelow ==
    ASSUME TypeOK, Shape, result = "running", Move, ~Enters, ~Finishes
    PROVE  Below /\ N' \in Nat /\ N' >= N - 1 /\ N' >= 1 /\ (N' >= N => Stack'[N].at = Top.at)
<1>1. N \in Nat \ {0} /\ Stack[N] = Top
  BY Running
<1>2. CASE Stays \/ Starts \/ Ends
  BY <1>1, <1>2 DEF Stays, Starts, Ends, SetsTo
<1>3. CASE CallsList
  BY <1>1, <1>3 DEF CallsList, Nests
<1>4. CASE CallsFlow
  BY <1>1, <1>4 DEF CallsFlow, NestsTwo
<1>5. CASE Returns \/ Leaves
  BY <1>1, <1>5 DEF Returns, Leaves, Pops
<1>6. CASE Waiting
  <2>1. N' = N /\ Stack' = Stack
    BY <1>6 DEF Waiting, N, Stack
  <2> QED BY <1>1, <2>1 DEF Below
<1> QED BY <1>2, <1>3, <1>4, <1>5, <1>6 DEF Move

LEMMA GatesFrom ==
    ASSUME UNCHANGED main,
           N' > 0 =>
               /\ \A j \in 1..Len(Requires[main]) :
                      Stack'[1].at = "requires" => (j < Stack'[1].i => Requires[main][j] \in completed')
               /\ Stack'[1].at = "main" =>
                      /\ \A j \in 1..Len(Requires[main]) : Requires[main][j] \in completed'
                      /\ \A j \in 1..Len(Pre[main]) : j <= Reached' => Held(j)'
    PROVE  Gates'
BY DEF Gates

LEMMA ConfirmingFrom ==
    ASSUME UNCHANGED main, NEW j, NEW p \in 1..N', Stack'[p].at = "pre", Stack'[p].of = main,
           Stack'[p].i = j, Stack'[p].phase \in {"call", "confirm"}
    PROVE  Confirming(j)'
BY DEF Confirming

\* A precondition that has been dealt with stays so, if it does when its own check is
\* forgotten and when the call that is about to confirm it moves.
LEMMA HeldStays ==
    ASSUME TypeOK, Shape, result = "running", UNCHANGED <<main, override>>, Below,
           N' \in Nat, N' >= N - 1, failed => failed', NEW j, Held(j),
           <<main, j>> \in confirmed => Held(j)',
           Top.at = "pre" /\ Top.of = main /\ Top.i = j /\ Top.phase \in {"call", "confirm"} =>
               Held(j)'
    PROVE  Held(j)'
<1>1. N \in Nat \ {0} /\ Stack[N] = Top
  BY Running
<1>2. CASE Confirming(j)
  <2>1. PICK p \in 1..N : /\ Stack[p].at = "pre" /\ Stack[p].of = main /\ Stack[p].i = j
                          /\ Stack[p].phase \in {"call", "confirm"}
    BY <1>2 DEF Confirming
  <2>2. CASE p = N
    BY <1>1, <2>1, <2>2
  <2>3. CASE p # N
    <3>1. p \in 1..N - 1 /\ p \in 1..N'
      BY <1>1, <2>1, <2>3
    <3>2. Stack'[p] = Stack[p]
      BY <3>1 DEF Below
    <3>3. Confirming(j)'
      BY <2>1, <3>1, <3>2, ConfirmingFrom
    <3> QED BY <3>3 DEF Held
  <2> QED BY <2>2, <2>3
<1>3. CASE ~Confirming(j)
  BY <1>3 DEF Held, SkipsOwn
<1> QED BY <1>2, <1>3

\* What the outermost two calls are while others run.
LEMMA Outermost ==
    ASSUME TypeOK, Shape, result = "running", N >= 2, Below, N' \in Nat, N' >= N - 1
    PROVE  /\ Stack'[1] = Stack[1] /\ N' >= 1
           /\ N >= 3 => Stack'[2] = Stack[2] /\ N' >= 2
           /\ N = 2 /\ Stack[1].at = "main" /\ Stack[1].phase = "next" =>
                  Top.at = "pre" /\ Top.of = main
<1>1. N \in Nat \ {0} /\ Stack[N] = Top
  BY Running
<1>2. Stack'[1] = Stack[1] /\ (N >= 3 => Stack'[2] = Stack[2])
  BY <1>1 DEF Below
<1>3. ASSUME N = 2, Stack[1].at = "main", Stack[1].phase = "next"
      PROVE  Top.at = "pre" /\ Top.of = main
  <2>1. Waits(Stack[1], Stack[1 + 1])
    BY <1>3 DEF Shape
  <2>2. Stack[1].of = main
    BY <1>1 DEF Shape
  <2> QED BY <1>1, <1>3, <2>1, <2>2 DEF Waits, AtStart
<1> QED BY <1>1, <1>2, <1>3

\* A step or a sub-flow is innermost, and moves.
LEMMA GatesOther ==
    ASSUME TypeOK, Shape, Gates, result = "running", Top.at \in Loops \cup {"flow"},
           UNCHANGED <<main, override, confirmed, completed>>, failed => failed',
           Below, N' \in Nat, N' >= N - 1, N' >= 1, N' >= N => Stack'[N].at = Top.at
    PROVE  Gates'
<1>1. /\ N \in Nat \ {0} /\ Stack[N] = Top
      /\ Top.at \in {"requires", "main"} <=> N = 1
  BY Running
<1>2. ASSUME NEW j \in 1..Len(Pre[main]), Held(j)
      PROVE  Held(j)'
  <2>1. <<main, j>> \in confirmed => Held(j)'
    BY DEF Held
  <2> QED BY <1>2, <2>1, HeldStays DEF Loops
<1>3. CASE N = 1
  <2>1. Stack[1].at = "main" /\ Stack'[1].at = "main"
    BY <1>1, <1>3 DEF Loops
  <2>2. \A j \in 1..Len(Pre[main]) : j <= Reached
    BY <1>3 DEF Reached
  <2> QED BY <1>1, <1>2, <2>1, <2>2, GatesFrom DEF Gates
<1>4. CASE N >= 2
  <2>1. /\ Stack'[1] = Stack[1]
        /\ N >= 3 => Stack'[2] = Stack[2] /\ N' >= 2
        /\ ~(N = 2 /\ Stack[1].at = "main" /\ Stack[1].phase = "next")
    BY <1>4, Outermost DEF Loops
  <2>2. ASSUME Stack[1].at = "main", NEW j \in 1..Len(Pre[main]), j <= Reached'
        PROVE  j <= Reached
    <3>1. CASE Stack[1].phase = "next"
      BY <1>1, <1>4, <2>1, <2>2, <3>1 DEF Reached
    <3>2. CASE Stack[1].phase # "next"
      BY <3>2 DEF Reached
    <3> QED BY <3>1, <3>2
  <2> QED BY <1>1, <1>2, <1>4, <2>1, <2>2, GatesFrom DEF Gates
<1> QED BY <1>1, <1>3, <1>4

\* A list of preconditions is innermost.
LEMMA GatesPre ==
    ASSUME TypeOK, Shape, Gates, result = "running", Top.at = "pre",
           UNCHANGED <<main, completed>>, Below, N' >= N - 1, frames' \in Seq(Calls),
           \A j \in 1..Len(Pre[main]) : Held(j) => Held(j)',
           Top.of = main =>
               \A j \in 1..Len(Pre[main]) : N' < N \/ j < Stack'[N].i => j < Top.i \/ Held(j)'
    PROVE  Gates'
<1>1. /\ N \in Nat \ {0} /\ Stack[N] = Top /\ N >= 2 /\ Top \in Calls /\ N' \in Nat
  <2>1. N' \in Nat
    BY DEF N
  <2> QED BY <2>1, Running
<1>2. /\ Stack'[1] = Stack[1] /\ N' >= 1
      /\ N >= 3 => Stack'[2] = Stack[2] /\ N' >= 2
      /\ N = 2 /\ Stack[1].at = "main" /\ Stack[1].phase = "next" => Top.of = main
  BY <1>1, Outermost
<1>4. ASSUME Stack[1].at = "main", NEW j \in 1..Len(Pre[main]), j <= Reached'
      PROVE  Held(j)'
  <2>1. Held(j) => Held(j)'
    OBVIOUS
  <2>2. j <= Reached => Held(j)
    BY <1>1, <1>4 DEF Gates
  <2>3. CASE N = 2 /\ Stack[1].phase = "next"
    <3>1. Top.of = main /\ Reached = Top.i - 1
      BY <1>1, <1>2, <1>4, <2>3 DEF Reached
    <3>2. N' < N \/ j <= Stack'[N].i - 1
      BY <1>1, <1>2, <1>4, <2>3 DEF Reached
    <3>3. Top.i \in Nat /\ j \in Nat
      BY <1>1 DEF Calls
    <3>4. N' < N \/ j < Stack'[N].i
      <4>1. CASE N' < N
        BY <4>1
      <4>2. CASE N' >= N
        <5>1. N \in 1..Len(frames') /\ Len(frames') + 1 - N \in 1..Len(frames')
          BY <1>1, <4>2 DEF N
        <5>2. frames'[Len(frames') + 1 - N] \in Calls
          BY <5>1, ElementOf
        <5>3. Stack'[N] \in Calls
          BY <5>1, <5>2 DEF Stack
        <5>4. Stack'[N].i \in Nat
          BY <5>3 DEF Calls
        <5> QED BY <1>1, <3>2, <3>3, <4>2, <5>4
      <4> QED BY <1>1, <4>1, <4>2
    <3>5. j < Top.i => j <= Reached
      BY <3>1, <3>3
    <3> QED BY <2>1, <2>2, <3>1, <3>4, <3>5
  <2>4. CASE N >= 3 /\ Stack[1].phase = "next"
    BY <1>1, <1>2, <1>4, <2>1, <2>2, <2>4 DEF Reached
  <2>5. CASE Stack[1].phase # "next"
    BY <2>1, <2>2, <2>5 DEF Reached
  <2> QED BY <1>1, <2>3, <2>4, <2>5
<1> QED BY <1>1, <1>2, <1>4, GatesFrom DEF Gates

\* After a failure every precondition counts as dealt with.
LEMMA GatesFailed ==
    ASSUME TypeOK, Shape, Gates, result = "running", Top.at = "pre",
           UNCHANGED <<main, completed>>, Below, N' >= N - 1, frames' \in Seq(Calls), failed'
    PROVE  Gates'
<1>1. \A j \in 1..Len(Pre[main]) : Held(j)'
  BY DEF Held
<1> QED BY <1>1, GatesPre

\* The innermost list of preconditions goes to the setup or the confirmation of the
\* current one, or to the next one when the current one has been dealt with.
LEMMA GatesNext ==
    ASSUME TypeOK, Shape, Gates, result = "running", Top.at = "pre",
           UNCHANGED <<main, override, completed>>, failed => failed', frames' \in Seq(Calls),
           NEW c \in Calls, Below, N' >= N, Stack'[N] = c, c.at = "pre", c.of = Top.of,
           \/ /\ c.i = Top.i /\ c.phase \in {"call", "confirm"}
              /\ confirmed \ {<<Top.of, Top.i>>} \subseteq confirmed'
           \/ /\ c.i = Top.i + 1 /\ confirmed \subseteq confirmed'
              /\ Top.of = main => <<main, Top.i>> \in confirmed' \/ SkipsOwn(Top.i)
    PROVE  Gates'
<1>1. N \in Nat \ {0} /\ N \in 1..N /\ Top \in Calls /\ N' \in Nat
  <2>1. N' \in Nat
    BY DEF N
  <2> QED BY <2>1, Running
<1>2. PICK t \in Nat : t = Top.i
  BY <1>1 DEF Calls
<1>3. ASSUME Top.of = main
      PROVE  Held(t)'
  <2>1. CASE c.i = Top.i /\ c.phase \in {"call", "confirm"}
    <3>1. N \in 1..N'
      BY <1>1
    <3>2. Confirming(t)'
      BY <1>2, <1>3, <2>1, <3>1, ConfirmingFrom
    <3> QED BY <3>2 DEF Held
  <2>2. CASE <<main, t>> \in confirmed'
    BY <2>2 DEF Held
  <2>3. CASE SkipsOwn(t)
    BY <2>3 DEF Held, SkipsOwn
  <2> QED BY <1>2, <1>3, <2>1, <2>2, <2>3
<1>4. ASSUME NEW j \in 1..Len(Pre[main]), Held(j)
      PROVE  Held(j)'
  <2>1. <<main, j>> \in confirmed => Held(j)'
    <3>1. ASSUME <<main, j>> \in confirmed, <<main, j>> # <<Top.of, Top.i>>
          PROVE  Held(j)'
      BY <3>1 DEF Held
    <3>2. ASSUME <<main, j>> = <<Top.of, Top.i>>
          PROVE  Held(j)'
      BY <1>2, <1>3, <3>2
    <3> QED BY <3>1, <3>2
  <2> QED BY <1>1, <1>2, <1>3, <1>4, <2>1, HeldStays
<1>5. ASSUME Top.of = main, NEW j \in 1..Len(Pre[main]), N' < N \/ j < Stack'[N].i
      PROVE  j < Top.i \/ Held(j)'
  <2>1. j < t + 1
    BY <1>1, <1>2, <1>5
  <2>2. j < t \/ j = t
    BY <1>2, <2>1
  <2> QED BY <1>2, <1>3, <1>5, <2>2
<1> QED BY <1>1, <1>4, <1>5, GatesPre

LEMMA PreconditionGates ==
    ASSUME TypeOK, Shape, Unwinding, Gates, Preconditions
    PROVE  Gates'
<1>1. result = "running" /\ Move /\ frames' \in Seq(Calls) /\ (failed => failed')
  BY PreconditionMoves, RunRunning, FailedStays DEF Run
<1>2. Top.at = "pre" /\ UNCHANGED <<main, override, completed>>
  BY DEF Preconditions, PreDone, PreCancelled, PreSkip, PreAlways, PreEnsure, PreSetupReturns,
         PreConfirm, In, fixed, dedup
<1>3. /\ frames \in Seq(Calls) /\ frames # <<>> /\ N \in Nat \ {0} /\ Top \in Calls
  BY <1>1, Running
<1>4. ASSUME failed' = TRUE
      PROVE  Gates'
  <2>1. ~Enters /\ ~Finishes
    <3>1. N # 1
      BY <1>1, <1>2, Running
    <3> QED BY <3>1 DEF Enters, Finishes
  <2>2. Below /\ N' >= N - 1
    BY <1>1, <2>1, MoveBelow
  <2> QED BY <1>1, <1>2, <1>4, <2>2, GatesFailed
<1>5. ASSUME NEW ph \in {"call", "confirm"}, Phase(ph),
             confirmed \ {<<Top.of, Top.i>>} \subseteq confirmed'
      PROVE  Gates'
  <2>1. PICK c \in Calls : SetsTo(c) /\ c.at = Top.at /\ c.of = Top.of /\ c.i = Top.i /\ c.phase = ph
    BY <1>3, <1>5, PhaseMoves DEF Phases
  <2>2. Below /\ N' >= N /\ Stack'[N] = c
    BY <1>3, <2>1 DEF SetsTo
  <2> QED BY <1>1, <1>2, <1>5, <2>1, <2>2, GatesNext
<1>6. ASSUME NEW list \in Flows, CallSteps(list, "call"),
             confirmed \ {<<Top.of, Top.i>>} \subseteq confirmed'
      PROVE  Gates'
  <2>1. PICK c, d \in Calls :
            /\ Nests(c, d) /\ d = Frame("steps", list)
            /\ c.at = Top.at /\ c.of = Top.of /\ c.i = Top.i /\ c.phase = "call"
    BY <1>3, <1>6, ListMoves
  <2>2. Below /\ N' >= N /\ Stack'[N] = c
    BY <1>3, <2>1 DEF Nests
  <2> QED BY <1>1, <1>2, <1>6, <2>1, <2>2, GatesNext
<1>7. ASSUME Advance, confirmed \subseteq confirmed',
             Top.of = main => <<main, Top.i>> \in confirmed' \/ SkipsOwn(Top.i)
      PROVE  Gates'
  <2>1. PICK c \in Calls :
            SetsTo(c) /\ c.at = Top.at /\ c.of = Top.of /\ c.i = Top.i + 1 /\ c.phase = "next"
    BY <1>3, <1>7, AdvanceMoves
  <2>2. Below /\ N' >= N /\ Stack'[N] = c
    BY <1>3, <2>1 DEF SetsTo
  <2> QED BY <1>1, <1>2, <1>7, <2>1, <2>2, GatesNext
<1>8. Record(TRUE) => confirmed \subseteq confirmed' /\ <<Top.of, Top.i>> \in confirmed'
  BY DEF Record
<1>9. Record(FALSE) => confirmed \ {<<Top.of, Top.i>>} \subseteq confirmed'
  BY DEF Record
<1>10. CASE PreDone
  <2>1. Pops /\ UNCHANGED <<confirmed, failed>>
    BY <1>3, <1>10, ReturnMoves DEF PreDone
  <2>2. Below /\ N' >= N - 1
    BY <1>3, <2>1 DEF Pops
  <2>3. ASSUME NEW j \in 1..Len(Pre[main]), Held(j)
        PROVE  Held(j)'
    <3>1. <<main, j>> \in confirmed => Held(j)'
      BY <1>2, <2>1 DEF Held
    <3>2. Top.phase = "next" /\ N' \in Nat
      BY <1>10 DEF PreDone, In, N
    <3> QED BY <1>1, <1>2, <2>2, <2>3, <3>1, <3>2, HeldStays
  <2>4. ASSUME Top.of = main, NEW j \in 1..Len(Pre[main])
        PROVE  j < Top.i
    <3>1. Pre[main] \in Seq([setup : Flows, policy : Policies])
      BY ScriptShape DEF TypeOK
    <3>2. Len(Pre[main]) \in Nat /\ Top.i \in Nat
      BY <1>3, <3>1 DEF Calls
    <3> QED BY <1>10, <2>4, <3>2 DEF PreDone, Pending
  <2> QED BY <1>1, <1>2, <2>2, <2>3, <2>4, GatesPre
<1>11. CASE PreCancelled
  BY <1>4, <1>11 DEF PreCancelled, Fail
<1>12. CASE PreSkip
  <2>1. Top.of = main => SkipsOwn(Top.i)
    BY <1>12 DEF PreSkip, Policy, SkipsOwn, Precondition, TypeOK
  <2> QED BY <1>7, <1>12, <2>1 DEF PreSkip
<1>13. CASE PreAlways
  <2>1. Precondition.setup \in Flows
    BY <1>13, PreFacts DEF PreAlways
  <2> QED BY <1>4, <1>5, <1>6, <1>13, <2>1 DEF PreAlways, Fail
<1>14. CASE PreEnsure
  <2>1. Precondition.setup \in Flows
    BY <1>14, PreFacts DEF PreEnsure
  <2> QED BY <1>4, <1>6, <1>7, <1>8, <1>9, <1>14, <2>1 DEF PreEnsure, Fail
<1>15. CASE PreSetupReturns
  BY <1>4, <1>5, <1>15 DEF PreSetupReturns, Fail
<1>16. CASE PreConfirm
  BY <1>4, <1>7, <1>8, <1>16 DEF PreConfirm, Fail
<1> QED BY <1>10, <1>11, <1>12, <1>13, <1>14, <1>15, <1>16 DEF Preconditions

\* The list of required flows is innermost and stays on the stack.
LEMMA GatesRequires ==
    ASSUME TypeOK, Shape, Gates, result = "running", Top.at = "requires",
           UNCHANGED main, completed \subseteq completed', Stack'[1].at = "requires",
           \A j \in 1..Len(Requires[main]) :
               j < Stack'[1].i => j < Top.i \/ Requires[main][j] \in completed'
    PROVE  Gates'
<1>1. N = 1 /\ Stack[1] = Top
  BY Running
<1> QED BY <1>1, GatesFrom DEF Gates

LEMMA PrepareGates ==
    ASSUME TypeOK, Shape, Unwinding, Gates, Prepare
    PROVE  Gates'
<1>1. result = "running" /\ Move /\ frames' \in Seq(Calls)
  BY PrepareMoves, RunRunning DEF Run
<1>2. Top.at = "requires" /\ UNCHANGED main
  BY DEF Prepare, ProxyRequired, RequireDone, RequireUnloadable, RequireFlow, RequireReturns,
         RequiresDone, Requiring, In, fixed
<1>3. /\ frames \in Seq(Calls) /\ frames # <<>> /\ N = 1 /\ Top \in Calls /\ Stack[1] = Top
      /\ Top.i \in Nat
  BY <1>1, <1>2, Running DEF Calls
<1>4. ASSUME frames' = <<>>
      PROVE  Gates'
  <2>1. N' = 0
    BY <1>4 DEF N
  <2> QED BY <1>2, <2>1, GatesFrom
<1>5. ASSUME Advance, completed \subseteq completed', Required \in completed'
      PROVE  Gates'
  <2>1. PICK c \in Calls : SetsTo(c) /\ c.at = Top.at /\ c.i = Top.i + 1
    BY <1>3, <1>5, AdvanceMoves
  <2>2. Stack'[1] = c
    BY <1>3, <2>1 DEF SetsTo
  <2>3. ASSUME NEW j \in 1..Len(Requires[main]), j < Stack'[1].i
        PROVE  j < Top.i \/ Requires[main][j] \in completed'
    <3>1. j < Top.i \/ j = Top.i
      BY <1>3, <2>1, <2>2, <2>3
    <3> QED BY <1>5, <3>1 DEF Required
  <2> QED BY <1>1, <1>2, <1>5, <2>1, <2>2, <2>3, GatesRequires
<1>6. CASE ProxyRequired \/ RequireUnloadable
  BY <1>4, <1>6 DEF ProxyRequired, RequireUnloadable, Finish
<1>7. CASE RequireDone
  BY <1>5, <1>7 DEF RequireDone, dedup
<1>8. CASE RequireFlow
  <2>1. Top.i \in 1..Len(Requires[main])
    BY <1>3, <1>8 DEF RequireFlow, Calls
  <2>2. Required \in Flows
    BY <2>1, ScriptShape DEF Required, TypeOK
  <2>3. PICK c, d, e \in Calls : NestsTwo(c, d, e) /\ c.at = Top.at /\ c.i = Top.i
    BY <1>3, <1>8, <2>2, FlowMoves DEF RequireFlow
  <2>4. Stack'[1] = c
    BY <1>3, <2>3 DEF NestsTwo
  <2> QED BY <1>1, <1>2, <1>8, <2>3, <2>4, GatesRequires DEF RequireFlow, dedup
<1>9. CASE RequireReturns
  BY <1>4, <1>5, <1>9 DEF RequireReturns, Finish
<1>10. CASE RequiresDone
  <2>1. /\ frames' \in Seq(Calls) /\ Len(frames') = 2
        /\ frames'[1] = Frame("pre", main) /\ frames'[2] = Frame("main", main)
    BY <1>1, <1>10 DEF RequiresDone
  <2>2. N' = 2 /\ Stack'[1] = Frame("main", main) /\ Stack'[2] = Frame("pre", main)
    BY <2>1 DEF N, Stack
  <2>3. Stack'[1].at = "main" /\ Stack'[1].phase = "next" /\ Stack'[2].i = 1
    BY <2>2, FrameTyped DEF TypeOK
  <2>4. Reached' = 0
    BY <2>2, <2>3 DEF Reached
  <2>5. \A j \in 1..Len(Requires[main]) : Requires[main][j] \in completed'
    <3>1. Requires[main] \in Seq(Flows)
      BY ScriptShape DEF TypeOK
    <3>2. \A j \in 1..Len(Requires[main]) : j < Top.i
      BY <1>3, <1>10, <3>1 DEF RequiresDone
    <3> QED BY <1>2, <1>3, <1>10, <3>2 DEF Gates, RequiresDone, dedup
  <2> QED BY <1>2, <2>2, <2>3, <2>4, <2>5, GatesFrom
<1> QED BY <1>6, <1>7, <1>8, <1>9, <1>10 DEF Prepare

LEMMA RunGates ==
    ASSUME TypeOK, Shape, Unwinding, Gates, Run
    PROVE  Gates'
<1>1. result = "running" /\ Move /\ frames' \in Seq(Calls) /\ (failed => failed')
  BY RunMoves, RunRunning, FailedStays
<1>2. CASE Steps
  <2>1. Top.at \in Loops \cup {"flow"} /\ UNCHANGED <<main, override, confirmed, completed>>
    BY <1>2 DEF Steps, FlowSteps, FlowReturns, MainStart, MainDone, MainCancelled, NestedDone,
                NestedCancelled, UnknownCommand, CheckStep, SkipStep, StartStep, RunPlain,
                RunLaunch, RunCapture, RunFlow, RunBranch, StepReturns, Classify, AtStep, In,
                Loops, fixed, dedup
  <2>2. CASE Finishes
    BY <2>1, <2>2, GatesFrom DEF Finishes
  <2>3. CASE ~Finishes
    <3>1. ~Enters
      BY <2>1 DEF Enters, Loops
    <3>2. Below /\ N' \in Nat /\ N' >= N - 1 /\ N' >= 1 /\ (N' >= N => Stack'[N].at = Top.at)
      BY <1>1, <2>3, <3>1, MoveBelow
    <3> QED BY <1>1, <2>1, <3>2, GatesOther
  <2> QED BY <2>2, <2>3
<1> QED BY <1>2, PrepareGates, PreconditionGates DEF Run

-----------------------------------------------------------------------------
(* The capture.                                                             *)

\* What is read from the file was written after the last reset, unless that was blind.
LEMMA LinesFresh ==
    ASSUME CaptureTypeOK, Unmixed, NEW r \in Lines(Unread)
    PROVE  r \in Requests /\ r <= begun /\ (blind \/ r > mark)
<1> DEFINE s == IF Len(file) < lastSize THEN 0 ELSE lastSize
<1>1. /\ file \in Seq(Halves) /\ lastSize \in Nat /\ Len(file) \in Nat /\ s \in Nat /\ s <= Len(file)
      /\ blind \in BOOLEAN /\ begun \in Nat /\ mark \in Nat
  BY DEF CaptureTypeOK
<1>2. Unread = SubSeq(file, s + 1, Len(file))
  BY DEF Unread
<1>3. lastSize <= Len(file) => s = lastSize
  BY <1>1
<1> HIDE DEF s
<1>4. /\ Len(Unread) = Len(file) - s
      /\ \A l \in 1..Len(file) - s : Unread[l] = file[s + l]
  BY <1>1, <1>2
<1>5. PICK l \in 2..Len(Unread) : Unread[l].half = 2 /\ Unread[l - 1].half = 1 /\ r = Unread[l].request
  BY DEF Lines
<1>6. PICK k \in 1..Len(file) : k = s + l
  BY <1>1, <1>4, <1>5
<1>7. file[k] = Unread[l]
  BY <1>1, <1>4, <1>5, <1>6
<1>8. file[k] \in Halves
  BY <1>1, ElementOf
<1>9. r \in Requests /\ r <= begun
  BY <1>5, <1>7, <1>8 DEF Halves, Unmixed
<1>10. ~(lastSize <= Len(file) /\ k <= lastSize)
  BY <1>1, <1>3, <1>5, <1>6
<1>11. k # lastSize + 1
  <2>1. CASE lastSize <= Len(file)
    BY <1>1, <1>3, <1>5, <1>6, <2>1
  <2>2. CASE lastSize > Len(file)
    BY <1>1, <1>6, <2>2
  <2> QED BY <1>1, <2>1, <2>2
<1>12. ~blind => file[k].request > mark
  BY <1>10, <1>11 DEF Unmixed
<1> QED BY <1>5, <1>7, <1>9, <1>12

LEMMA UnmixedFrom ==
    ASSUME \A k \in 1..Len(file') : file'[k].request <= begun', buffer' \subseteq 1..begun',
           ~blind' =>
               /\ \A r \in buffer' : r > mark'
               /\ \A k \in 1..Len(file') :
                      \/ file'[k].request > mark'
                      \/ (lastSize' <= Len(file') /\ k <= lastSize')
                      \/ (k = lastSize' + 1 /\ file'[k].half = 2)
    PROVE  Unmixed'
BY DEF Unmixed

LEMMA LoadKeeps ==
    ASSUME CaptureTypeOK, Unmixed, NEW readable \in BOOLEAN, LoadNew(readable),
           UNCHANGED <<adapter, proxyFile, mark, blind>>
    PROVE  CaptureTypeOK' /\ Unmixed'
<1>1. UNCHANGED <<adapter, file, begun, restarts, mark, blind>>
  BY DEF proxyFile
<1>2. file \in Seq(Halves) /\ Len(file) \in Nat /\ begun \in Nat /\ buffer \subseteq Requests
  BY DEF CaptureTypeOK
<1>3. CASE readable
  <2>1. buffer' = buffer \cup Lines(Unread) /\ lastSize' = Len(file)
    BY <1>3 DEF LoadNew
  <2>2. buffer' \subseteq Requests /\ lastSize' \in Nat
    BY <1>2, <2>1, LinesFresh
  <2>3. CaptureTypeOK'
    BY <1>1, <2>2 DEF CaptureTypeOK, Requests, Halves
  <2>4. buffer' \subseteq 1..begun
    <3>1. \A r \in Lines(Unread) : r \in Nat \ {0} /\ r <= begun
      BY LinesFresh DEF Requests
    <3>2. Lines(Unread) \subseteq 1..begun
      BY <1>2, <3>1
    <3> QED BY <2>1, <3>2 DEF Unmixed
  <2>5. ~blind => \A r \in buffer' : r > mark
    BY <2>1, LinesFresh DEF Unmixed
  <2>6. \A k \in 1..Len(file) : k <= lastSize' /\ lastSize' <= Len(file)
    BY <1>2, <2>1
  <2>7. \A k \in 1..Len(file) : file[k].request <= begun
    BY DEF Unmixed
  <2> QED BY <1>1, <2>3, <2>4, <2>5, <2>6, <2>7, UnmixedFrom
<1>4. CASE ~readable
  <2>1. UNCHANGED <<buffer, lastSize>>
    BY <1>4 DEF LoadNew, reader
  <2>2. CaptureTypeOK'
    BY <1>1, <2>1 DEF CaptureTypeOK, Requests, Halves
  <2>3. Unmixed'
    BY <1>1, <2>1 DEF Unmixed
  <2> QED BY <2>2, <2>3
<1> QED BY <1>3, <1>4

LEMMA ResetKeeps ==
    ASSUME CaptureTypeOK, Unmixed, ResetCapture, UNCHANGED <<adapter, proxyFile>>
    PROVE  CaptureTypeOK' /\ Unmixed'
<1>1. UNCHANGED <<adapter, file, begun, restarts>>
  BY DEF proxyFile
<1>2. file \in Seq(Halves) /\ Len(file) \in Nat /\ begun \in Nat
  BY DEF CaptureTypeOK
<1>3. ASSUME NEW readable \in BOOLEAN, Reset(readable)
      PROVE  CaptureTypeOK' /\ Unmixed'
  <2>1. /\ buffer' = {} /\ mark' = begun /\ blind' = ~readable
        /\ lastSize' = IF readable THEN Len(file) ELSE 0
    BY <1>3 DEF Reset
  <2>2. CaptureTypeOK'
    BY <1>1, <1>2, <2>1 DEF CaptureTypeOK, Requests, Halves
  <2>3. readable => \A k \in 1..Len(file) : k <= lastSize' /\ lastSize' <= Len(file)
    BY <1>2, <2>1
  <2>4. \A k \in 1..Len(file) : file[k].request <= begun
    BY DEF Unmixed
  <2> QED BY <1>1, <2>1, <2>2, <2>3, <2>4, UnmixedFrom
<1>4. CASE UNCHANGED <<reader, mark, blind>>
  BY <1>1, <1>4 DEF reader, CaptureTypeOK, Requests, Halves, Unmixed
<1> QED BY <1>3, <1>4 DEF ResetCapture

LEMMA ProxyKeeps ==
    ASSUME CaptureTypeOK, Unmixed, Proxy
    PROVE  CaptureTypeOK' /\ Unmixed' /\ begun' >= begun /\ UNCHANGED <<mark, blind>>
<1>1. /\ file \in Seq(Halves) /\ Len(file) \in Nat /\ begun \in Nat /\ begun <= MaxRequests
      /\ MaxRequests \in Nat /\ lastSize \in Nat /\ mark \in Nat /\ mark <= begun
  BY CaptureBounds DEF CaptureTypeOK
<1>2. UNCHANGED <<adapter, buffer, lastSize, mark, blind>>
  BY DEF Proxy, WriteHalf, Restart, reader
<1>3. ASSUME NEW h \in Halves, file' = Append(file, h), begun' \in {begun, begun + 1},
             begun' <= MaxRequests, h.request = begun', UNCHANGED restarts,
             ~blind => \/ h.request > mark
                       \/ lastSize = Len(file) /\ h.half = 2
      PROVE  CaptureTypeOK' /\ Unmixed' /\ begun' >= begun
  <2>1. /\ file' \in Seq(Halves) /\ Len(file') = Len(file) + 1 /\ file'[Len(file) + 1] = h
        /\ \A k \in 1..Len(file) : file'[k] = file[k]
    BY <1>1, <1>3
  <2>2. begun' \in Nat /\ begun' >= begun
    BY <1>1, <1>3
  <2>3. CaptureTypeOK'
    BY <1>1, <1>2, <1>3, <2>1, <2>2 DEF CaptureTypeOK, Requests, Halves
  <2>4. \A k \in 1..Len(file') : k \in 1..Len(file) \/ k = Len(file) + 1
    BY <1>1, <2>1
  <2>5. ASSUME NEW k \in 1..Len(file)
        PROVE  file'[k].request <= begun'
    <3>1. file[k] \in Halves
      BY <1>1, ElementOf
    <3>2. file[k].request \in Nat /\ file[k].request <= begun
      BY <3>1 DEF Halves, Requests, Unmixed
    <3> QED BY <1>1, <2>1, <2>2, <3>2
  <2>6. \A k \in 1..Len(file') : file'[k].request <= begun'
    BY <1>3, <2>1, <2>2, <2>4, <2>5
  <2>7. ASSUME ~blind, NEW k \in 1..Len(file')
        PROVE  \/ file'[k].request > mark
               \/ (lastSize <= Len(file') /\ k <= lastSize)
               \/ (k = lastSize + 1 /\ file'[k].half = 2)
    <3>1. CASE k \in 1..Len(file)
      BY <1>1, <2>1, <2>7, <3>1 DEF Unmixed
    <3>2. CASE k = Len(file) + 1
      BY <1>1, <1>3, <2>1, <2>7, <3>2
    <3> QED BY <2>4, <3>1, <3>2
  <2>8. buffer' \subseteq 1..begun'
    BY <1>1, <1>2, <2>2 DEF Unmixed
  <2>9. ~blind => \A r \in buffer : r > mark
    BY DEF Unmixed
  <2> QED BY <1>2, <2>2, <2>3, <2>6, <2>7, <2>8, <2>9, UnmixedFrom
<1>4. CASE WriteHalf
  <2>1. CASE MidLine
    <3>1. file' = Append(file, [request |-> begun, half |-> 2]) /\ UNCHANGED <<begun, restarts>>
      BY <1>4, <2>1 DEF WriteHalf
    <3>2. Len(file) \in 1..Len(file) /\ file[Len(file)].half = 1
      BY <1>1, <2>1 DEF MidLine
    <3>3. PICK n \in 1..Len(file) : n = Len(file)
      BY <3>2
    <3>4. file[n] \in Halves
      BY <1>1, ElementOf
    <3>5. file[n].request \in Nat \ {0} /\ file[n].request <= begun
      BY <3>4 DEF Halves, Requests, Unmixed
    <3>6. [request |-> begun, half |-> 2] \in Halves
      BY <1>1, <3>5 DEF Halves, Requests
    <3>7. ~blind => begun > mark \/ lastSize = Len(file)
      BY <1>1, <3>2, <3>3, <3>5 DEF Unmixed
    <3> QED BY <1>1, <1>2, <1>3, <3>1, <3>6, <3>7
  <2>2. CASE ~MidLine
    <3>1. file' = Append(file, [request |-> begun + 1, half |-> 1]) /\ begun' = begun + 1
          /\ begun < MaxRequests /\ UNCHANGED restarts
      BY <1>4, <2>2 DEF WriteHalf
    <3>2. [request |-> begun + 1, half |-> 1] \in Halves
      BY <1>1, <3>1 DEF Halves, Requests
    <3> QED BY <1>1, <1>2, <1>3, <3>1, <3>2
  <2> QED BY <2>1, <2>2
<1>5. CASE Restart
  <2>1. file' = <<>> /\ restarts' = restarts + 1 /\ restarts < MaxRestarts /\ begun' = begun
    BY <1>5 DEF Restart
  <2>2. file' \in Seq(Halves) /\ Len(file') = 0 /\ \A k \in 1..Len(file') : FALSE
    BY <2>1
  <2>3. restarts' \in 0..MaxRestarts
    BY <2>1, CaptureBounds DEF CaptureTypeOK
  <2>4. CaptureTypeOK'
    BY <1>2, <2>1, <2>2, <2>3 DEF CaptureTypeOK, Requests, Halves
  <2>5. buffer \subseteq 1..begun /\ (~blind => \A r \in buffer : r > mark)
    BY DEF Unmixed
  <2> QED BY <1>1, <1>2, <2>1, <2>2, <2>4, <2>5, UnmixedFrom
<1> QED BY <1>2, <1>4, <1>5 DEF Proxy

\* What a run does to the capture: nothing, or a turn of a capture step.
LEMMA RunCaptures ==
    ASSUME TypeOK, Fresh, Run
    PROVE  /\ CaptureTypeOK' /\ Unmixed' /\ captured' \in 0..begun'
           /\ captured' > mark' \/ captured' = 0 \/ blind'
<1>1. /\ CaptureTypeOK /\ Unmixed /\ captured \in 0..begun /\ begun \in Nat
      /\ captured > mark \/ captured = 0 \/ blind
  BY DEF TypeOK, Fresh, CaptureTypeOK
<1>2. CASE UNCHANGED <<captured, captureVars>>
  <2>1. UNCHANGED <<captured, adapter, file, begun, restarts, buffer, lastSize, mark, blind>>
    BY <1>2 DEF captureVars, proxyFile, reader
  <2>2. CaptureTypeOK'
    BY <1>1, <2>1 DEF CaptureTypeOK, Requests, Halves
  <2>3. Unmixed'
    BY <1>1, <2>1 DEF Unmixed
  <2> QED BY <1>1, <2>1, <2>2, <2>3
<1>3. CASE RunCapture
  <2>1. UNCHANGED <<adapter, proxyFile, mark, blind, begun>>
    BY <1>3 DEF RunCapture, proxyFile
  <2>2. CASE UNCHANGED <<captured, reader>>
    BY <1>2, <2>1, <2>2 DEF captureVars
  <2>3. ASSUME NEW readable \in BOOLEAN, LoadNew(readable),
               captured' \in FindMatch(buffer') \/ UNCHANGED captured
        PROVE  /\ CaptureTypeOK' /\ Unmixed' /\ captured' \in 0..begun'
               /\ captured' > mark' \/ captured' = 0 \/ blind'
    <3>1. CaptureTypeOK' /\ Unmixed'
      BY <1>1, <2>1, <2>3, LoadKeeps
    <3>2. captured' \in buffer' =>
              captured' \in 0..begun' /\ (captured' > mark' \/ blind')
      BY <1>1, <2>1, <3>1 DEF Unmixed
    <3>3. captured' \in FindMatch(buffer') => captured' \in buffer'
      BY DEF FindMatch
    <3> QED BY <1>1, <2>1, <2>3, <3>1, <3>2, <3>3
  <2> QED BY <1>3, <2>2, <2>3 DEF RunCapture
<1>4. UNCHANGED <<captured, captureVars>> \/ RunCapture
  BY DEF Run, Prepare, Preconditions, Steps, ProxyRequired, RequireDone, RequireUnloadable,
         RequireFlow, RequireReturns, RequiresDone, PreDone, PreCancelled, PreSkip,
         PreAlways, PreEnsure, PreSetupReturns, PreConfirm, FlowSteps, FlowReturns, MainStart,
         MainDone, MainCancelled, NestedDone, NestedCancelled, UnknownCommand, CheckStep,
         SkipStep, StartStep, RunPlain, RunLaunch, RunFlow, RunBranch, StepReturns, Classify, device
<1> QED BY <1>2, <1>3, <1>4

\* The rest of a run's data keeps its types.
LEMMA RunFixes ==
    ASSUME Run
    PROVE  UNCHANGED fixed
BY DEF Run, Prepare, Preconditions, Steps, ProxyRequired, RequireDone, RequireUnloadable,
       RequireFlow, RequireReturns, RequiresDone, PreDone, PreCancelled, PreSkip,
       PreAlways, PreEnsure, PreSetupReturns, PreConfirm, FlowSteps, FlowReturns, MainStart,
       MainDone, MainCancelled, NestedDone, NestedCancelled, UnknownCommand, CheckStep,
       SkipStep, StartStep, RunPlain, RunLaunch, RunCapture, RunFlow, RunBranch, StepReturns,
       Classify

LEMMA RunData ==
    ASSUME TypeOK, Shape, Run
    PROVE  /\ completed' \subseteq Flows /\ setups' \subseteq Flows
           /\ confirmed' \subseteq Flows \X Nat
           /\ abort' \in {"none", "proxyRequired", "deviceLost"}
           /\ launched' \in {launched, entry} /\ refused' \in BOOLEAN
<1>1. /\ completed \subseteq Flows /\ setups \subseteq Flows
      /\ confirmed \subseteq Flows \X Nat
      /\ abort \in {"none", "proxyRequired", "deviceLost"} /\ refused \in BOOLEAN
  BY DEF TypeOK
<1>2. result = "running"
  BY RunRunning
<1>3. Top \in Calls /\ CallOK(Top) /\ Top.of \in Flows /\ Top.i \in Nat \ {0}
  BY <1>2, Running DEF Calls
<1>4. completed' \subseteq Flows
  <2>1. CASE RequireReturns
    <3>1. In("requires", "call")
      BY <2>1 DEF RequireReturns
    <3>2. Top.i <= Len(Requires[main])
      BY <1>3, <3>1 DEF In, CallOK
    <3>3. Requires[main] \in Seq(Flows)
      BY ScriptShape DEF TypeOK
    <3>4. Top.i \in 1..Len(Requires[main])
      BY <1>3, <3>2, <3>3
    <3>5. Required \in Flows
      BY <3>3, <3>4, ElementOf DEF Required
    <3> QED BY <1>1, <2>1, <3>5 DEF RequireReturns
  <2>2. CASE ~RequireReturns
    BY <1>1, <2>2 DEF Run, Prepare, Preconditions, Steps, ProxyRequired, RequireDone,
       RequireUnloadable, RequireFlow, RequiresDone, PreDone, PreCancelled, PreSkip,
       PreAlways, PreEnsure, PreSetupReturns, PreConfirm, FlowSteps, FlowReturns, MainStart,
       MainDone, MainCancelled, NestedDone, NestedCancelled, UnknownCommand, CheckStep,
       SkipStep, StartStep, RunPlain, RunLaunch, RunCapture, RunFlow, RunBranch, StepReturns,
       Classify, dedup
  <2> QED BY <2>1, <2>2
<1>5. setups' \subseteq Flows
  <2>1. CASE PreSetupReturns
    <3>1. Precondition.setup \in Flows
      BY <2>1, PreFacts DEF PreSetupReturns
    <3> QED BY <1>1, <2>1, <3>1 DEF PreSetupReturns
  <2>2. CASE ~PreSetupReturns
    BY <1>1, <2>2 DEF Run, Prepare, Preconditions, Steps, ProxyRequired, RequireDone,
       RequireUnloadable, RequireFlow, RequireReturns, RequiresDone, PreDone, PreCancelled,
       PreSkip, PreAlways, PreEnsure, PreConfirm, FlowSteps, FlowReturns, MainStart,
       MainDone, MainCancelled, NestedDone, NestedCancelled, UnknownCommand, CheckStep,
       SkipStep, StartStep, RunPlain, RunLaunch, RunCapture, RunFlow, RunBranch, StepReturns,
       Classify, dedup
  <2> QED BY <2>1, <2>2
<1>6. confirmed' \subseteq Flows \X Nat
  <2>1. \A holds \in BOOLEAN : Record(holds) => confirmed' \subseteq Flows \X Nat
    BY <1>1, <1>3 DEF Record
  <2>2. CASE PreEnsure \/ PreConfirm
    BY <2>1, <2>2 DEF PreEnsure, PreConfirm
  <2>3. CASE ~PreEnsure /\ ~PreConfirm
    BY <1>1, <2>3 DEF Run, Prepare, Preconditions, Steps, ProxyRequired, RequireDone,
       RequireUnloadable, RequireFlow, RequireReturns, RequiresDone, PreDone, PreCancelled,
       PreSkip, PreAlways, PreSetupReturns, FlowSteps, FlowReturns, MainStart,
       MainDone, MainCancelled, NestedDone, NestedCancelled, UnknownCommand, CheckStep,
       SkipStep, StartStep, RunPlain, RunLaunch, RunCapture, RunFlow, RunBranch, StepReturns,
       Classify
  <2> QED BY <2>2, <2>3
<1>7. abort' \in {"none", "proxyRequired", "deviceLost"}
  BY <1>1 DEF Run, Prepare, Preconditions, Steps, ProxyRequired, RequireDone, RequireUnloadable,
       RequireFlow, RequireReturns, RequiresDone, PreDone, PreCancelled, PreSkip,
       PreAlways, PreEnsure, PreSetupReturns, PreConfirm, FlowSteps, FlowReturns, MainStart,
       MainDone, MainCancelled, NestedDone, NestedCancelled, UnknownCommand, CheckStep,
       SkipStep, StartStep, RunPlain, RunLaunch, RunCapture, RunFlow, RunBranch, StepReturns,
       Classify, outcome
<1>8. launched' \in {launched, entry}
  BY DEF Run, Prepare, Preconditions, Steps, ProxyRequired, RequireDone, RequireUnloadable,
       RequireFlow, RequireReturns, RequiresDone, PreDone, PreCancelled, PreSkip,
       PreAlways, PreEnsure, PreSetupReturns, PreConfirm, FlowSteps, FlowReturns, MainStart,
       MainDone, MainCancelled, NestedDone, NestedCancelled, UnknownCommand, CheckStep,
       SkipStep, StartStep, RunPlain, RunLaunch, RunCapture, RunFlow, RunBranch, StepReturns,
       Classify, device
<1>9. refused' \in BOOLEAN
  BY <1>1 DEF Run, Prepare, Preconditions, Steps, ProxyRequired, RequireDone, RequireUnloadable,
       RequireFlow, RequireReturns, RequiresDone, PreDone, PreCancelled, PreSkip,
       PreAlways, PreEnsure, PreSetupReturns, PreConfirm, FlowSteps, FlowReturns, MainStart,
       MainDone, MainCancelled, NestedDone, NestedCancelled, UnknownCommand, CheckStep,
       SkipStep, StartStep, RunPlain, RunLaunch, RunCapture, RunFlow, RunBranch, StepReturns,
       Classify, device, Refuse
<1> QED BY <1>4, <1>5, <1>6, <1>7, <1>8, <1>9

-----------------------------------------------------------------------------
(* Every step of a run keeps the invariant.                                 *)

LEMMA TypeFrom ==
    ASSUME CaptureTypeOK', entry' \in Nat, main' \in Flows, loader' \in BOOLEAN,
           override' \in {"none", "skip", "force"}, frames' \in Seq(Calls),
           ret' \in {"none", "ok", "fail"}, depth' \in Nat, index' \in Nat, late' \in Nat,
           open' \in Seq([index : Nat, depth : Nat]), completed' \subseteq Flows,
           setups' \subseteq Flows, ctxDone' \in BOOLEAN, failed' \in BOOLEAN,
           result' \in {"idle", "running", "ok", "failed", "error"},
           abort' \in {"none", "proxyRequired", "deviceLost"}, launched' \in Nat,
           captured' \in 0..begun', confirmed' \subseteq Flows \X Nat, refused' \in BOOLEAN
    PROVE  TypeOK'
BY DEF TypeOK, CaptureTypeOK, Calls, Requests, Halves

LEMMA RunKeeps ==
    ASSUME RunnerInv, Run
    PROVE  RunnerInv'
<1>1. TypeOK /\ Shape /\ Nesting /\ Indices /\ Late /\ Unwinding /\ Gates /\ Fresh
  BY DEF RunnerInv
<1>2. result = "running" /\ Move /\ frames' \in Seq(Calls)
  BY <1>1, RunMoves, RunRunning
<1>3. Shape'
  BY <1>1, <1>2, MoveShape
<1>4. Nesting' /\ depth' \in Nat
  BY <1>1, <1>2, MoveNesting
<1>5. /\ Indices' /\ index' \in Nat /\ late' \in Nat
      /\ open' \in Seq([index : Nat, depth : Nat])
  BY <1>1, <1>2, MoveIndices
<1>6. Late'
  BY <1>1, <1>2, <1>3, MoveLate
<1>7. /\ Unwinding' /\ failed' \in BOOLEAN /\ ret' \in {"none", "ok", "fail"}
      /\ result' \in {"running", "ok", "failed", "error"}
  BY <1>1, <1>2, MoveUnwinding
<1>8. Gates'
  BY <1>1, RunGates
<1>9. /\ CaptureTypeOK' /\ Unmixed' /\ captured' \in 0..begun'
      /\ captured' > mark' \/ captured' = 0 \/ blind'
  BY <1>1, RunCaptures
<1>10. TypeOK'
  <2>1. /\ completed' \subseteq Flows /\ setups' \subseteq Flows
        /\ confirmed' \subseteq Flows \X Nat
        /\ abort' \in {"none", "proxyRequired", "deviceLost"}
        /\ launched' \in {launched, entry} /\ refused' \in BOOLEAN
    BY <1>1, RunData
  <2>2. UNCHANGED <<entry, main, loader, override, ctxDone>>
    BY RunFixes DEF fixed
  <2>3. /\ entry' \in Nat /\ main' \in Flows /\ loader' \in BOOLEAN /\ launched' \in Nat
        /\ override' \in {"none", "skip", "force"} /\ ctxDone' \in BOOLEAN
    BY <1>1, <2>1, <2>2 DEF TypeOK
  <2> QED BY <1>2, <1>4, <1>5, <1>7, <1>9, <2>1, <2>3, TypeFrom
<1>11. Fresh' /\ Dropped'
  BY <1>7, <1>9 DEF Fresh, Unmixed, Dropped
<1> QED BY <1>3, <1>4, <1>5, <1>6, <1>7, <1>8, <1>10, <1>11 DEF RunnerInv

-----------------------------------------------------------------------------
(* What happens around a run keeps it, too.                                 *)

LEMMA NoCalls ==
    ASSUME TypeOK, Shape, Nesting, result # "running"
    PROVE  N = 0 /\ frames = <<>> /\ open = <<>> /\ Len(open) = 0 /\ depth = 0
<1>1. N \in Nat /\ frames \in Seq(Calls) /\ open \in Seq([index : Nat, depth : Nat])
      /\ Len(open) \in Nat
  BY TopIsLast DEF TypeOK
<1>2. N = 0 /\ frames = <<>>
  BY <1>1, TopIsLast DEF Shape
<1>3. PICK owner \in [1..Len(open) -> 1..0] : TRUE
  BY <1>2 DEF Nesting
<1>4. Len(open) = 0
  <2>1. ASSUME NEW j \in 1..Len(open)
        PROVE  FALSE
    BY <1>3, <2>1
  <2> QED BY <1>1, <2>1
<1>5. depth = 0
  BY <1>2, ListsCounted DEF Nesting, Depth
<1> QED BY <1>1, <1>2, <1>4, <1>5

\* The calls and events of a run that has not begun, or is over.
LEMMA NothingRuns ==
    ASSUME frames' = <<>>, Len(open') = 0, depth' = 0, result' # "running"
    PROVE  Shape' /\ Nesting' /\ Indices' /\ Unwinding' /\ Gates' /\ (late' = 0 => Late')
<1>1. N' = 0
  BY DEF N
<1>2. (\A p \in 1..N' : FALSE) /\ \A j \in 1..Len(open') : FALSE
  BY <1>1
<1>3. Shape'
  BY <1>1, <1>2 DEF Shape
<1>4. (\E own \in [1..Len(open) -> 1..N] : Owns(own))'
  BY <1>2, NoOwners
<1>5. Lists(Stack', 0) = 0
  BY ListsCounted
<1>6. depth' = Lists(Stack', N')
  BY <1>1, <1>5
<1>7. Nesting'
  BY <1>4, <1>6 DEF Nesting, Depth, Lists
<1>8. Indices'
  BY <1>2 DEF Indices
<1>9. Unwinding' /\ Gates' /\ (late' = 0 => Late')
  BY <1>1 DEF Unwinding, Gates, Late
<1> QED BY <1>3, <1>7, <1>8, <1>9


\* Steps around a run leave its calls and events alone.
LEMMA CallsSame ==
    ASSUME Shape, Nesting, Indices, Late, Unwinding, Gates,
           UNCHANGED <<main, override, frames, ret, depth, index, open, late, result, completed,
                       confirmed, failed>>,
           ctxDone => ctxDone'
    PROVE  Shape' /\ Nesting' /\ Indices' /\ Late' /\ Unwinding' /\ Gates'
<1>1. N' = N /\ Stack' = Stack
  BY DEF N, Stack
<1>2. Shape'
  BY <1>1 DEF Shape, CallOK, Waits, AtStart
<1>3. Nesting'
  <2>1. \A p : Depth(p)' = Depth(p)
    BY <1>1 DEF Depth, Lists
  <2>2. ASSUME NEW owner, Owns(owner)
        PROVE  Owns(owner)'
    BY <1>1, <2>1, <2>2 DEF Owns, InStep
  <2>3. N \in Nat => (\E owner \in [1..Len(open) -> 1..N] : Owns(owner))'
    BY <1>1, <2>2 DEF Nesting
  <2> QED BY <1>1, <2>1, <2>2 DEF Nesting
<1>4. Indices' /\ Late'
  BY <1>1 DEF Indices, Late
<1>5. Unwinding'
  BY <1>1 DEF Unwinding, AtStart
<1>6. \A j : Held(j) => Held(j)'
  BY <1>1 DEF Held, SkipsOwn, Confirming
<1>7. Reached' = Reached
  BY <1>1 DEF Reached
<1>8. Gates'
  BY <1>1, <1>6, <1>7 DEF Gates
<1> QED BY <1>2, <1>3, <1>4, <1>5, <1>8

LEMMA InitRunner ==
    ASSUME RunnerInit
    PROVE  RunnerInv
<1>1. N = 0 /\ Len(open) = 0 /\ Len(frames) = 0
  BY DEF N, RunnerInit
<1>2. CaptureTypeOK /\ Unmixed
  <2>1. MaxRequests \in Nat /\ MaxRestarts \in Nat
    BY CaptureBounds
  <2>2. /\ adapter \in Adapters /\ begun \in {0, 1} /\ begun \in 0..MaxRequests
        /\ restarts = 0 /\ buffer = {} /\ lastSize = 0 /\ mark = 0 /\ blind = FALSE
    BY <2>1 DEF RunnerInit, CaptureInit
  <2>3. /\ file \in Seq(Halves) /\ \A k \in 1..Len(file) : file[k].request <= begun
        /\ \A k \in 1..Len(file) : file[k].request > 0
    <3>1. CASE begun = 0
      BY <3>1 DEF RunnerInit, CaptureInit
    <3>2. CASE begun # 0
      <4> DEFINE h(n) == [request |-> 1, half |-> n]
      <4>1. begun = 1 /\ file = <<h(1), h(2)>>
        BY <2>2, <3>2 DEF RunnerInit, CaptureInit
      <4>2. h(1) \in Halves /\ h(2) \in Halves /\ h(1).request = 1 /\ h(2).request = 1
        BY <2>1, <2>2, <4>1 DEF Halves, Requests
      <4> HIDE DEF h
      <4>3. file \in Seq(Halves) /\ Len(file) = 2 /\ file[1] = h(1) /\ file[2] = h(2)
        BY <4>1, <4>2
      <4>4. \A k \in 1..Len(file) : k = 1 \/ k = 2
        BY <4>3
      <4> QED BY <4>1, <4>2, <4>3, <4>4
    <3> QED BY <3>1, <3>2
  <2>4. CaptureTypeOK
    <3>1. restarts \in 0..MaxRestarts /\ mark \in 0..begun /\ lastSize \in Nat
      BY <2>1, <2>2
    <3>2. buffer \subseteq Requests /\ blind \in BOOLEAN
      BY <2>2
    <3> QED BY <2>2, <2>3, <3>1, <3>2 DEF CaptureTypeOK
  <2>5. \A k \in 1..Len(file) : file[k].request > mark
    BY <2>2, <2>3
  <2> QED BY <2>2, <2>3, <2>4, <2>5 DEF Unmixed
<1>3. TypeOK
  <2>1. main \in Flows
    BY ScriptShape DEF NoScript, RunnerInit
  <2>2. captured \in 0..begun
    <3>1. captured = 0 /\ begun \in 0..MaxRequests /\ MaxRequests \in Nat
      BY <1>2, CaptureBounds DEF RunnerInit, CaptureTypeOK
    <3> QED BY <3>1
  <2>3. frames \in Seq(Calls) /\ open \in Seq([index : Nat, depth : Nat])
    BY DEF RunnerInit
  <2>4. /\ entry \in Nat /\ depth \in Nat /\ index \in Nat /\ late \in Nat /\ launched \in Nat
    BY DEF RunnerInit
  <2>5. /\ loader \in BOOLEAN /\ override \in {"none", "skip", "force"}
        /\ ret \in {"none", "ok", "fail"} /\ ctxDone \in BOOLEAN /\ failed \in BOOLEAN
        /\ result \in {"idle", "running", "ok", "failed", "error"}
        /\ abort \in {"none", "proxyRequired", "deviceLost"} /\ refused \in BOOLEAN
    BY DEF RunnerInit
  <2>6. completed \subseteq Flows /\ setups \subseteq Flows /\ confirmed \subseteq Flows \X Nat
    BY DEF RunnerInit
  <2> QED BY <1>2, <2>1, <2>2, <2>3, <2>4, <2>5, <2>6 DEF TypeOK
<1>4. /\ result = "idle" /\ depth = 0 /\ late = 0 /\ failed = FALSE /\ captured = 0
  BY DEF RunnerInit
<1>5. (\A p \in 1..N : FALSE) /\ \A j \in 1..Len(open) : FALSE
  BY <1>1
<1>6. Shape /\ Indices /\ Late /\ Unwinding /\ Gates /\ Dropped
  BY <1>1, <1>4, <1>5 DEF Shape, Indices, Late, Unwinding, Gates, Dropped
<1>7. Nesting
  <2> DEFINE own == [j \in 1..0 |-> 1]
  <2>1. own \in [1..Len(open) -> 1..N]
    BY <1>1
  <2> HIDE DEF own
  <2>2. Owns(own)
    BY <1>1, <1>5 DEF Owns
  <2>3. Depth(N) = 0
    BY <1>1, ListsCounted DEF Depth
  <2> QED BY <1>4, <2>1, <2>2, <2>3 DEF Nesting
<1>8. Fresh
  BY <1>2, <1>4 DEF Fresh
<1> QED BY <1>3, <1>6, <1>7, <1>8 DEF RunnerInv

\* A run begins when none is going on.
LEMMA StartKeeps ==
    ASSUME RunnerInv, NEW script \in Flows, NEW withLoader \in BOOLEAN,
           NEW preconditions \in {"none", "skip", "force"},
           StartRun(script, withLoader, preconditions)
    PROVE  RunnerInv'
<1>1. TypeOK /\ Shape /\ Nesting /\ Indices /\ Late /\ Unwinding /\ Gates /\ Fresh /\ Dropped
  BY DEF RunnerInv
<1>2. /\ result = "idle" /\ result' = "running" /\ main' = script /\ loader' = withLoader
      /\ override' = preconditions
      /\ UNCHANGED <<entry, ret, depth, index, open, late, completed, setups, ctxDone, abort,
                     launched, captured, captureVars, confirmed, failed, refused>>
  BY DEF StartRun, events, dedup
<1>3. ~failed /\ open = <<>> /\ Len(open) = 0 /\ depth = 0
  BY <1>1, <1>2, NoCalls DEF Dropped
<1>4. Frame("requires", script) \in Calls
  BY FrameTyped
<1>5. /\ frames' \in Seq(Calls) /\ Len(frames') = 1 /\ frames'[1] = Frame("requires", script)
  BY <1>4 DEF StartRun
<1>6. N' = 1 /\ Stack'[1] = Frame("requires", script)
  BY <1>5 DEF N, Stack
<1>7. /\ Stack'[1].at = "requires" /\ Stack'[1].of = main' /\ Stack'[1].i = 1
      /\ Stack'[1].phase = "next"
  BY <1>2, <1>6, FrameTyped
<1>8. (\A p \in 1..N' : p = 1) /\ \A j \in 1..Len(open') : FALSE
  BY <1>2, <1>3, <1>6
<1>9. UNCHANGED <<adapter, file, begun, restarts, buffer, lastSize, mark, blind>>
  BY <1>2 DEF captureVars, proxyFile, reader
<1>10. CaptureTypeOK' /\ Unmixed'
  <2>1. CaptureTypeOK
    BY <1>1 DEF TypeOK
  <2>2. CaptureTypeOK'
    BY <1>9, <2>1 DEF CaptureTypeOK, Requests, Halves
  <2>3. Unmixed'
    BY <1>1, <1>9 DEF Fresh, Unmixed
  <2> QED BY <2>2, <2>3
<1>11. TypeOK'
  <2>1. /\ entry' \in Nat /\ ret' \in {"none", "ok", "fail"} /\ depth' \in Nat /\ index' \in Nat
        /\ late' \in Nat /\ open' \in Seq([index : Nat, depth : Nat])
        /\ completed' \subseteq Flows /\ setups' \subseteq Flows /\ ctxDone' \in BOOLEAN
        /\ failed' \in BOOLEAN /\ abort' \in {"none", "proxyRequired", "deviceLost"}
        /\ launched' \in Nat /\ captured' \in 0..begun' /\ confirmed' \subseteq Flows \X Nat
        /\ refused' \in BOOLEAN
    BY <1>1, <1>2, <1>9 DEF TypeOK
  <2> QED BY <1>2, <1>5, <1>10, <2>1, TypeFrom
<1>12. Shape'
  <2>1. \A p \in 1..N' : CallOK(Stack[p])' /\ (Stack'[p].at \in {"requires", "main"} <=> p = 1)
    BY <1>7, <1>8 DEF CallOK, Loops
  <2> QED BY <1>2, <1>6, <1>7, <1>8, <2>1 DEF Shape
<1>13. Nesting'
  <2>1. (\E own \in [1..Len(open) -> 1..N] : Owns(own))'
    BY <1>2, <1>3, <1>7, <1>8, NoOwners DEF InStep, Loops
  <2>2. Lists(Stack', 0 + 1) = 0
    BY <1>7, ListsCounted
  <2>3. depth' = Lists(Stack', N')
    BY <1>2, <1>3, <1>6, <2>2
  <2> QED BY <2>1, <2>3 DEF Nesting, Depth, Lists
<1>14. Indices' /\ Late' /\ Unwinding' /\ Dropped'
  BY <1>1, <1>2, <1>3, <1>7, <1>8 DEF Indices, Late, Unwinding, Dropped
<1>15. Gates'
  <2>1. Requires[main'] \in Seq(Flows)
    BY <1>2, ScriptShape
  <2>2. \A j \in 1..Len(Requires[main']) : ~(j < Stack'[1].i)
    BY <1>7, <2>1
  <2> QED BY <1>7, <2>2 DEF Gates
<1>16. Fresh'
  BY <1>1, <1>2, <1>9, <1>10 DEF Fresh
<1> QED BY <1>11, <1>12, <1>13, <1>14, <1>15, <1>16 DEF RunnerInv

\* The caller takes the result.
LEMMA DropKeeps ==
    ASSUME RunnerInv, DropRun
    PROVE  RunnerInv'
<1>1. TypeOK /\ Shape /\ Nesting /\ Indices /\ Late /\ Unwinding /\ Gates /\ Fresh /\ Dropped
  BY DEF RunnerInv
<1>2. /\ main' = NoScript /\ loader' = FALSE /\ override' = "none"
      /\ frames' = <<>> /\ ret' = "none" /\ depth' = 0 /\ index' = 0 /\ open' = <<>>
      /\ completed' = {} /\ setups' = {} /\ result' = "idle" /\ abort' = "none"
      /\ captured' = 0 /\ confirmed' = {} /\ failed' = FALSE
      /\ UNCHANGED <<entry, ctxDone, launched, captureVars, late, refused>>
  BY DEF DropRun
<1>3. UNCHANGED <<adapter, file, begun, restarts, buffer, lastSize, mark, blind>>
  BY <1>2 DEF captureVars, proxyFile, reader
<1>4. Len(open') = 0 /\ N' = 0
  BY <1>2 DEF N
<1>5. Shape' /\ Nesting' /\ Indices' /\ Unwinding' /\ Gates'
  BY <1>2, <1>4, NothingRuns
<1>6. CaptureTypeOK' /\ Unmixed' /\ begun' \in Nat
  <2>1. CaptureTypeOK
    BY <1>1 DEF TypeOK
  <2>2. CaptureTypeOK'
    BY <1>3, <2>1 DEF CaptureTypeOK, Requests, Halves
  <2>3. Unmixed'
    BY <1>1, <1>3 DEF Fresh, Unmixed
  <2> QED BY <1>3, <2>1, <2>2, <2>3 DEF CaptureTypeOK
<1>7. TypeOK'
  <2>1. main' \in Flows
    BY <1>2, ScriptShape DEF NoScript
  <2>2. frames' \in Seq(Calls) /\ open' \in Seq([index : Nat, depth : Nat])
    BY <1>2
  <2>3. captured' \in 0..begun'
    BY <1>2, <1>6
  <2>4. /\ entry' \in Nat /\ depth' \in Nat /\ index' \in Nat /\ late' \in Nat
        /\ launched' \in Nat
    BY <1>1, <1>2 DEF TypeOK
  <2>5. /\ loader' \in BOOLEAN /\ override' \in {"none", "skip", "force"}
        /\ ret' \in {"none", "ok", "fail"} /\ ctxDone' \in BOOLEAN /\ failed' \in BOOLEAN
        /\ result' \in {"idle", "running", "ok", "failed", "error"}
        /\ abort' \in {"none", "proxyRequired", "deviceLost"} /\ refused' \in BOOLEAN
    BY <1>1, <1>2 DEF TypeOK
  <2>6. completed' \subseteq Flows /\ setups' \subseteq Flows /\ confirmed' \subseteq Flows \X Nat
    BY <1>2
  <2> QED BY <1>6, <2>1, <2>2, <2>3, <2>4, <2>5, <2>6, TypeFrom
<1>8. Late'
  <2>1. \A p \in 1..N' : FALSE
    BY <1>4
  <2> QED BY <1>1, <1>2, <2>1 DEF Late
<1>9. Fresh' /\ Dropped'
  BY <1>2, <1>6 DEF Fresh, Dropped
<1> QED BY <1>5, <1>7, <1>8, <1>9 DEF RunnerInv

\* A signal, and the proxy's traffic.
LEMMA AroundKeeps ==
    ASSUME RunnerInv, Cancel \/ Traffic
    PROVE  RunnerInv'
<1>1. TypeOK /\ Shape /\ Nesting /\ Indices /\ Late /\ Unwinding /\ Gates /\ Fresh /\ Dropped
  BY DEF RunnerInv
<1>2. /\ UNCHANGED <<entry, main, loader, override, frames, ret, depth, index, open, completed,
                     setups, result, abort, launched, captured, confirmed, failed, late, refused>>
      /\ ctxDone' \in {ctxDone, TRUE}
  BY DEF Cancel, Traffic, runVars, events, dedup, outcome, device
<1>3. Shape' /\ Nesting' /\ Indices' /\ Late' /\ Unwinding' /\ Gates'
  <2>1. ctxDone => ctxDone'
    BY DEF Cancel, Traffic, runVars
  <2> QED BY <1>1, <1>2, <2>1, CallsSame
<1>4. CaptureTypeOK /\ Unmixed /\ captured \in 0..begun /\ begun \in Nat
  BY <1>1 DEF TypeOK, Fresh, CaptureTypeOK
<1>5. CaptureTypeOK' /\ Unmixed' /\ begun' >= begun /\ begun' \in Nat /\ UNCHANGED <<mark, blind>>
  <2>1. CASE Cancel
    <3>1. UNCHANGED <<adapter, file, begun, restarts, buffer, lastSize, mark, blind>>
      BY <2>1 DEF Cancel, device, captureVars, proxyFile, reader
    <3>2. CaptureTypeOK'
      BY <1>4, <3>1 DEF CaptureTypeOK, Requests, Halves
    <3>3. Unmixed'
      BY <1>4, <3>1 DEF Unmixed
    <3> QED BY <1>4, <3>1, <3>2, <3>3
  <2>2. CASE Traffic
    <3>1. CaptureTypeOK' /\ Unmixed' /\ begun' >= begun /\ UNCHANGED <<mark, blind>>
      BY <1>4, <2>2, ProxyKeeps DEF Traffic
    <3> QED BY <3>1 DEF CaptureTypeOK
  <2> QED BY <2>1, <2>2
<1>6. captured' \in 0..begun'
  BY <1>2, <1>4, <1>5
<1>7. TypeOK'
  <2>1. /\ entry' \in Nat /\ main' \in Flows /\ loader' \in BOOLEAN
        /\ override' \in {"none", "skip", "force"} /\ frames' \in Seq(Calls)
        /\ ret' \in {"none", "ok", "fail"} /\ depth' \in Nat /\ index' \in Nat /\ late' \in Nat
        /\ open' \in Seq([index : Nat, depth : Nat]) /\ completed' \subseteq Flows
        /\ setups' \subseteq Flows /\ failed' \in BOOLEAN
        /\ result' \in {"idle", "running", "ok", "failed", "error"}
        /\ abort' \in {"none", "proxyRequired", "deviceLost"} /\ launched' \in Nat
        /\ confirmed' \subseteq Flows \X Nat /\ refused' \in BOOLEAN
    BY <1>1, <1>2 DEF TypeOK
  <2>2. ctxDone' \in BOOLEAN
    BY <1>1, <1>2 DEF TypeOK
  <2> QED BY <1>5, <1>6, <2>1, <2>2, TypeFrom
<1>8. Fresh' /\ Dropped'
  BY <1>1, <1>2, <1>5 DEF Fresh, Dropped
<1> QED BY <1>3, <1>7, <1>8 DEF RunnerInv

\* Between two runs the entry changes, with or without a reset of the app and the capture.
LEMMA EntryKeeps ==
    ASSUME RunnerInv, result = "idle", entry' \in Nat,
           UNCHANGED <<main, loader, override, frames, ret, depth, index, open, completed, setups,
                       ctxDone, result, abort, captured, adapter, proxyFile, confirmed, failed,
                       late, refused>>,
           launched' \in {launched, 0},
           ResetCapture \/ UNCHANGED <<reader, mark, blind>>
    PROVE  RunnerInv'
<1>1. TypeOK /\ Shape /\ Nesting /\ Indices /\ Late /\ Unwinding /\ Gates /\ Fresh /\ Dropped
  BY DEF RunnerInv
<1>2. Shape' /\ Nesting' /\ Indices' /\ Late' /\ Unwinding' /\ Gates'
  BY <1>1, CallsSame
<1>3. captured' = 0
  BY <1>1 DEF Dropped
<1>4. CaptureTypeOK /\ Unmixed
  BY <1>1 DEF TypeOK, Fresh
<1>5. CaptureTypeOK' /\ Unmixed'
  <2>1. CASE UNCHANGED <<reader, mark, blind>>
    <3>1. UNCHANGED <<adapter, file, begun, restarts, buffer, lastSize, mark, blind>>
      BY <2>1 DEF proxyFile, reader
    <3>2. CaptureTypeOK'
      BY <1>4, <3>1 DEF CaptureTypeOK, Requests, Halves
    <3>3. Unmixed'
      BY <1>4, <3>1 DEF Unmixed
    <3> QED BY <3>2, <3>3
  <2> QED BY <1>4, <2>1, ResetKeeps
<1>6. captured' \in 0..begun'
  <2>1. begun' \in Nat
    BY <1>5 DEF CaptureTypeOK
  <2> QED BY <1>3, <2>1
<1>7. TypeOK'
  <2>1. /\ main' \in Flows /\ loader' \in BOOLEAN
        /\ override' \in {"none", "skip", "force"} /\ frames' \in Seq(Calls)
        /\ ret' \in {"none", "ok", "fail"} /\ depth' \in Nat /\ index' \in Nat /\ late' \in Nat
        /\ open' \in Seq([index : Nat, depth : Nat]) /\ completed' \subseteq Flows
        /\ setups' \subseteq Flows /\ failed' \in BOOLEAN /\ ctxDone' \in BOOLEAN
        /\ result' \in {"idle", "running", "ok", "failed", "error"}
        /\ abort' \in {"none", "proxyRequired", "deviceLost"} /\ launched' \in Nat
        /\ confirmed' \subseteq Flows \X Nat /\ refused' \in BOOLEAN
    BY <1>1 DEF TypeOK
  <2> QED BY <1>5, <1>6, <2>1, TypeFrom
<1>8. Fresh' /\ Dropped'
  BY <1>1, <1>3, <1>5 DEF Fresh, Dropped
<1> QED BY <1>2, <1>7, <1>8 DEF RunnerInv
=============================================================================
