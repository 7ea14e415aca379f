------------------------------ MODULE McpServer ------------------------------
(***************************************************************************)
(* The MCP server of core/internal/mcp: tool calls arrive concurrently,    *)
(* each under a deadline of its own, and share one device session and one  *)
(* active test run.  What a tool does on the device is the module          *)
(* Orchestra; this module adds where calls come from, which driver they    *)
(* get, what becomes of drivers and of run records, and how calls end.     *)
(***************************************************************************)
EXTENDS RunRecords

vars == <<orchestraVars, session, store>>
OrchestraOnly(c) == OrchestraStep(c) /\ UNCHANGED <<session, store>>

Init == OrchestraInit /\ SessionInit /\ StoreInit

------------------------------------------------------------------------------
(* The tools that act on the device.                                        *)

TapTool(c) == Arrives(c, {"tap"}) /\ OnDevice(c, "find") /\ LayerUnchanged
InputTextTool(c) == Arrives(c, {"type"}) /\ OnDevice(c, "find") /\ LayerUnchanged
InputTextAtTool(c) == Arrives(c, {"typeAt"}) /\ OnDevice(c, "tap") /\ LayerUnchanged
SingleCallTool(c) ==
  Arrives(c, {"read", "swipe", "pressKey"}) /\ OnDevice(c, "single") /\ LayerUnchanged
TapAndWaitTransitionTool(c) == Arrives(c, {"transition"}) /\ OnDevice(c, "before") /\ LayerUnchanged
WaitForElementTool(c) ==
  /\ Arrives(c, {"wait"})
  /\ \/ NoDevice(c)
     \/ /\ active # 0
        /\ call' = [call EXCEPT ![c] = Waiting(Arriving(c), "find", SoftTimeout)]
  /\ LayerUnchanged
LaunchAppTool(c) ==
  /\ Arrives(c, {"launch"})
  /\ \/ NoDevice(c) /\ UNCHANGED launched
     \/ /\ active # 0
        /\ call' = [call EXCEPT ![c] = EnterLaunch(Arriving(c), op(c))]
        /\ launched' = [launched EXCEPT ![active] = Claimed(active, op(c))]
  /\ UNCHANGED <<load, now, changes, connected, device, keyboardHint>>

DeviceTool(c) ==
  /\ \/ TapTool(c) \/ InputTextTool(c) \/ InputTextAtTool(c) \/ SingleCallTool(c)
     \/ TapAndWaitTransitionTool(c) \/ WaitForElementTool(c) \/ LaunchAppTool(c)
  /\ UNCHANGED <<session, store>>

\* The middleware answers with its own result when the context ran out by the
\* time the tool returned, whatever the tool did.
Answer(c) ==
  /\ call[c].pc = "done"
  /\ call' = [call EXCEPT ![c] = [IdleCall EXCEPT !.pc = "answered", !.bug = call[c].bug,
                  !.result = IF now >= call[c].budget THEN "overtime" ELSE call[c].result]]
  /\ LayerUnchanged /\ UNCHANGED <<session, store>>

------------------------------------------------------------------------------
World == (AppChanges \/ Tick) /\ UNCHANGED <<session, store>>

Next ==
  \/ \E c \in Calls : \/ DeviceTool(c) \/ OrchestraOnly(c) \/ Answer(c)
                      \/ SessionStep(c) /\ UNCHANGED store
                      \/ StoreStep(c)
  \/ World

\* Go runs every goroutine that can run and fires every timer; a driver call
\* that the device never answers ends when its context does.  Storage and
\* Disconnect return.
LocalStep(c) ==
  \/ Answer(c)
  \/ (Drop(c) \/ DeviceInfo(c) \/ Install(c)) /\ UNCHANGED store
  \/ StoreWork(c) /\ LayerUnchanged /\ UNCHANGED session
  \/ (Wakes(c) \/ SleepEnds(c)) /\ UNCHANGED <<session, store>>
ContextEnds(c) ==
  /\ now >= call[c].budget
  /\ \/ DriverFails(c) /\ UNCHANGED <<session, store>>
     \/ BuildFails(c) /\ UNCHANGED store
Fairness ==
  /\ WF_vars(Tick /\ UNCHANGED <<session, store>>)
  /\ \A c \in Calls : WF_vars(LocalStep(c)) /\ WF_vars(ContextEnds(c))
                      /\ WF_vars(Erase(c) /\ UNCHANGED <<session, store>>)

Spec == Init /\ [][Next]_vars /\ Fairness

------------------------------------------------------------------------------
\* Every variable holds a value of its type.
TypeOK == OrchestraTypeOK /\ SessionTypeOK /\ StoreTypeOK

\* The middleware's promise: every call is answered, even when the device never
\* answers the driver call it waits for.
CallsAnswered == \A c \in Calls : call[c].pc # "idle" ~> call[c].pc = "answered"
=============================================================================
