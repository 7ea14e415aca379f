--------------------------- MODULE MCSuiteRunner ----------------------------
(* Command lines and scripts for TLC.  `checkout` uses every kind of nesting: it    *)
(* requires a flow twice, runs a sub-flow with a precondition of its own, a branch  *)
(* and an app launch; two setups are shared.  The files of the suites hold shorter  *)
(* scripts: a launch and a capture, alone or in scenarios of either kind.           *)
EXTENDS SuiteRunner

CONSTANTS checkout, required, sub, block, login, reset, pay, ship, deliver  \* flows
CONSTANTS shop, smoke, journey, sweep, draft, notes                  \* files

MCFlows == {checkout, required, sub, block, login, reset, pay, ship, deliver}
MCInFile == {required, sub, login}
MCNeedsProxy == {deliver}

Do(kind) == [kind |-> kind, flow |-> checkout]
Nest(kind, flow) == [kind |-> kind, flow |-> flow]
By(flow, policy) == [setup |-> flow, policy |-> policy]

MCRequires ==
    [f \in MCFlows |->
        CASE f = checkout -> <<required, required>>
          [] f = deliver -> <<required>>
          [] OTHER -> <<>>]

MCPre ==
    [f \in MCFlows |->
        CASE f = checkout -> <<By(reset, "always"), By(login, "ensure"), By(reset, "skip")>>
          [] f = required -> <<By(reset, "always")>>
          [] f = sub -> <<By(login, "ensure")>>
          [] f = ship -> <<By(reset, "ensure")>>
          [] OTHER -> <<>>]

MCBody ==
    [f \in MCFlows |->
        CASE f = checkout -> <<Do("launch"), Nest("runFlow", sub), Nest("branch", block)>>
          [] f = required -> <<Do("plain")>>
          [] f = sub -> <<Do("plain"), Nest("branch", block)>>
          [] f = block -> <<Do("plain"), Do("launch")>>
          [] f = login -> <<Do("launch"), Do("plain")>>
          [] f = reset -> <<Do("plain")>>
          [] f = pay -> <<Do("launch"), Do("capture")>>
          [] f = ship -> <<Do("launch"), Nest("branch", login)>>
          [] f = deliver -> <<Do("launch")>>]

MCFiles == {shop, smoke, journey, sweep, draft, notes}
MCSorted == <<draft, journey, smoke, sweep, shop, notes>>
MCPath ==
    [f \in MCFiles |->
        CASE f = draft -> <<".drafts", "e2e", "draft">>
          [] f = journey -> <<"flows", "e2e", "journey">>
          [] f = smoke -> <<"flows", "smoke">>
          [] f = sweep -> <<"flows", "sweep">>
          [] f = shop -> <<"shop">>
          [] f = notes -> <<"flows", "e2e", "notes">>]
MCTags == [f \in MCFiles |-> IF f \in {journey, draft} THEN {"nightly"} ELSE {}]

Script(flow) == [kind |-> "script", scripts |-> <<flow>>, onFailure |-> "stop", pre |-> "none"]
Scenario(flows, onFailure, pre) ==
    [kind |-> "scenario", scripts |-> flows, onFailure |-> onFailure, pre |-> pre]

MCTestFile ==
    [f \in MCFiles |->
        CASE f = shop -> Script(checkout)
          [] f = smoke -> Script(pay)
          [] f = journey -> Scenario(<<pay, ship>>, "stop", "force")
          [] f = sweep -> Scenario(<<deliver, pay>>, "continue", "none")
          [] OTHER -> Script(reset)]

RunOf(f) == [name |-> "run", file |-> f]
SuiteOf(roots, globs, tags) ==
    [name |-> "suite", testRoots |-> roots, globs |-> globs, tags |-> tags]

MCCommands ==
    {RunOf(shop), RunOf(smoke), RunOf(journey)} \cup
    {SuiteOf({<<"flows">>}, {<<"*">>}, {}),                  \* smoke, sweep
     SuiteOf({<<>>, <<"flows">>}, {<<"flows", "e2e", "*">>, <<"smoke">>}, {}),  \* both once
     SuiteOf({<<>>, <<"flows">>}, {<<"**", "smoke">>, <<"smoke">>}, {}),
     SuiteOf({<<".drafts">>}, {}, {"nightly"}),
     SuiteOf({}, {<<"**">>}, {"nightly"}),
     SuiteOf({}, {}, {"nightly"})}
=============================================================================
