-------------------------- MODULE MCSidecarRuntime --------------------------
(* Workloads for SidecarRuntime.  Each behaviour runs one of them. *)
EXTENDS SidecarRuntime

CONSTANTS r1, r2, s1, q1, q2, q3

Ask(a, b, c) == (q1 :> a) @@ (q2 :> b) @@ (q3 :> c)
\* Of the surroundings, only what a workload is about moves.
Load(methods, selected) ==
    [sent |-> DOMAIN methods, received |-> {}, methods |-> methods, selected |-> selected,
     stops |-> FALSE, agents |-> {}, until |-> 0]

\* All at once: a handler that starts late is one whose request came late.
AtOnce(w) == [w EXCEPT !.received = w.sent]

\* Two runs and a stop; a run, a stop and the end of the runtime.
Scripts == {AtOnce([Load(<<>>, None) EXCEPT !.sent = {r1, r2, s1}]),
            [Load(<<>>, None) EXCEPT !.sent = {r1, s1}, !.stops = TRUE]}
\* A tree asked for while another one is captured or thrown away.
Captures == {[AtOnce(Load(Ask(<<"tree", Phone>>, <<"freshTree", Phone>>, <<"invalidate", Phone>>), Phone))
               EXCEPT !.until = MaxTime]}
\* Input for one device while another one is selected.
Taps == {AtOnce(Load(Ask(<<"mirrorPinch", Sim>>, <<"select", Phone>>, <<"mirrorSwipe", Phone>>), Sim)),
         Load((q1 :> <<"tap", Sim>>) @@ (q2 :> <<"select", Phone>>), Sim)}
        \cup {[Load((q1 :> <<"mirrorPinch", Phone>>) @@ (q2 :> <<"mirrorText", Sim>>), Sim) EXCEPT !.agents = {Sim}]}
\* The phases of one touch, on the simulator and where they are not supported.
Drag == {AtOnce(Load((q1 :> <<"down", Sim>>) @@ (q2 :> <<"move", Sim>>), Sim)),
         Load((q1 :> <<"up", Sim>>), Sim)}
\* Selections that share, replace or leave the simulator's helper.
Helpers == {[Load((q1 :> <<"select", Sim>>) @@ (q2 :> <<"select", Sim>>), None) EXCEPT !.stops = TRUE],
            AtOnce(Load(Ask(<<"select", Sim>>, <<"deselect", Sim>>, <<"select", Sim>>), None)),
            [Load((q1 :> <<"select", Sim>>) @@ (q2 :> <<"mirrorTap", Sim>>), Sim) EXCEPT !.stops = TRUE]}
Others == {[Load((q1 :> <<"screenshot", Sim>>) @@ (q2 :> <<"down", Phone>>), Phone) EXCEPT !.stops = TRUE]}

MCWorkloads == Scripts \cup Captures \cup Taps \cup Drag \cup Helpers \cup Others
=============================================================================
