---------------------------- MODULE MCMcpServer ----------------------------
\* Workloads for McpServer.  Each behaviour runs one of them.
EXTENDS McpServer, TLC

CONSTANTS c1, c2, c3, field, other, row, anchor, dialog, far, end, appA, appB

\* Two list pages hold the form; `far` is further down, `end` on the page after
\* the last one that can be scrolled into view.
MCPage == [e \in Elem |-> CASE e \in {field, other, dialog} -> 1 [] e = row -> 0
                            [] e = anchor -> 1 [] e = far -> 3 [] e = end -> 5]

Screen(here, focus, pos) ==
  [here |-> here, focus |-> focus, keyboard |-> FALSE, busy |-> FALSE, pos |-> pos]
Form == {field, other, row}
NoMoves == [here |-> {}, focus |-> {}, keyboard |-> {}, busy |-> {}, pos |-> {}]
Nothing == [tool |-> "none"]
Ops(a, b, c) == c1 :> a @@ c2 :> b @@ c3 :> c
Load(ops, scr, n, moves, budget, slack) ==
  [ops |-> ops, screen |-> scr, changes |-> n, moves |-> moves, selected |-> TRUE, thin |-> FALSE,
   budget |-> budget, until |-> budget + slack, installed |-> {appA, appB}, inOrder |-> FALSE, stored |-> FALSE,
   turn |-> Ops(1, 2, 3)]

Do(tool, e) == [tool |-> tool, elem |-> e, scroll |-> TRUE, absent |-> None, appear |-> None,
                fresh |-> TRUE, app |-> appA]
Launch(a, fresh) == [Do("launch", None) EXCEPT !.app = a, !.fresh = fresh]
TapAndWait(e, absent, appear) == [Do("transition", e) EXCEPT !.absent = absent, !.appear = appear]

\* Text into a field while another one holds the focus and the keyboard comes and goes.
Typing ==
  {Load(Ops(Do(t, field), Do("tap", other), Nothing), Screen(Form, other, 1), 2,
        [NoMoves EXCEPT !.focus = {field, other}, !.keyboard = BOOLEAN], 4, 1) : t \in {"type", "typeAt"}}
\* A list that moves only under the call that searches it.
Searching ==
  {[Load(Ops([Do("tap", e) EXCEPT !.scroll = s], Nothing, Nothing),
         Screen({row, field, far, end} \ h, None, p), 0, NoMoves, 5, 0) EXCEPT !.thin = t] :
     e \in {row, field, far, end}, s \in BOOLEAN, p \in 0 .. LastPage, t \in BOOLEAN,
     h \in {{}, {far}}}
\* A tap after which a row goes, an anchor or a dialog comes, and a spinner turns.
Transitions ==
  {Load(Ops(TapAndWait(field, w[1], w[2]), Nothing, Nothing), Screen({field, row}, None, 1), 2,
        [NoMoves EXCEPT !.here = {field, anchor, dialog}, !.busy = {TRUE}, !.pos = {0, 1}], 4, 0) :
     w \in {<<None, anchor>>, <<field, anchor>>, <<field, None>>}}
Waits ==
  {Load(Ops(Do("wait", anchor), Do("read", anchor), Do("disconnect", None)), Screen(Form, None, 1), 2,
        [NoMoves EXCEPT !.here = {anchor}], 3, 1)}
Sessions ==
  {[Load(Ops(Do("select", None), Do(w[1], None), Do(w[2], anchor)), Screen(Form, None, 1), 0, NoMoves, 1, 1)
     EXCEPT !.selected = (w[2] # "select")] :
     w \in {<<"select", "read">>, <<"disconnect", "swipe">>, <<"disconnect", "select">>, <<"pressKey", "swipe">>}}
Launches ==
  {[Load(Ops(Launch(appA, FALSE), Launch(a, FALSE), Launch(appA, f)), Screen(Form, None, 1), 0, NoMoves, 1, 1)
     EXCEPT !.installed = i] : a \in Apps, f \in BOOLEAN, i \in {{}, {appA, appB}}}
Unselected ==
  {[Load(Ops(Do(t, anchor), Nothing, Nothing), Screen(Form, None, 1), 0, NoMoves, 1, 0) EXCEPT !.selected = FALSE] :
     t \in {"tap", "type", "typeAt", "transition", "wait", "launch", "read"}}
Start == [tool |-> "start"]
Bug == [tool |-> "bug"]
Finish1 == [tool |-> "finish"]
On(tool, r) == [tool |-> tool, record |-> r]
\* Runs and bugs, with a device for the screenshot and without one.
Records ==
  {[Load(w, Screen(Form, None, 1), 0, NoMoves, 1, 1) EXCEPT !.selected = b, !.inOrder = b, !.turn = Ops(1, 2, 2)] :
     w \in {Ops(Start, t, u) : t \in {Start, Bug}, u \in {Finish1, Bug}}, b \in BOOLEAN}
InStorage(w) == [Load(w, Screen(Form, None, 1), 0, NoMoves, 1, 1) EXCEPT !.stored = TRUE]
BugDeletions == {InStorage(Ops(On("deleteBug", <<Earlier, 1>>), On("deleteBug", <<Earlier, 1>>), On("deleteRun", Earlier)))}
Stored == {InStorage(Ops(On("deleteRun", Earlier), On("updateRun", Earlier), [tool |-> "list"]))} \cup BugDeletions

MCWorkloads == Typing \cup Searching \cup Transitions \cup Waits \cup Sessions \cup Launches \cup Records
               \cup Stored \cup Unselected
=============================================================================
