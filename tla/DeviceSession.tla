--------------------------- MODULE DeviceSession ---------------------------
(***************************************************************************)
(* mcp.DeviceSession: the one driver every tool call uses.  select_device  *)
(* and disconnect_device replace it in separate critical sections, with    *)
(* nothing held while the old driver is dropped and the new one is built.  *)
(* How any tool call arrives and picks up its driver is here too.          *)
(***************************************************************************)
EXTENDS Orchestra

\* There is a driver for each select, and for the one a behaviour may begin with.
ASSUME DriversAssumption ==
  /\ IsFiniteSet(Calls) /\ IsFiniteSet(Drivers) /\ Drivers = 1 .. Cardinality(Drivers)
  /\ \A w \in Workloads :
       Cardinality({c \in Calls : w.ops[c].tool = "select"}) + (IF w.selected THEN 1 ELSE 0)
         <= Cardinality(Drivers)

VARIABLES active,     \* DeviceSession.active: a driver, or 0
          built,      \* drivers built so far
          overlapped, \* the session calls during which another one was in progress
          left        \* left[c]: the driver call c left connected and to nobody, or 0

session == <<active, built, overlapped, left>>
LayerUnchanged == UNCHANGED <<load, now, screen, changes, front, connected, launched, keyboardHint>>

SessionInit ==
  /\ active = Cardinality(connected) /\ built = active
  /\ overlapped = {} /\ left = [c \in Calls |-> 0]

------------------------------------------------------------------------------
(* A call arrives: the middleware gives it a context, the tool its driver.  *)

Arriving(c) == [call[c] EXCEPT !.budget = now + load.budget, !.drv = active]
Arrives(c, tools) ==
  /\ call[c].pc = "idle"
  /\ op(c).tool \in tools
  /\ now + load.budget <= load.until
  /\ load.inOrder => \A d \in Calls : load.turn[d] < load.turn[c] => call[d].pc = "answered"
Begin(c, pc) == call' = [call EXCEPT ![c] = [Arriving(c) EXCEPT !.pc = pc]]
\* orchestraOrFail
NoDevice(c) == active = 0 /\ call' = [call EXCEPT ![c] = Done(Arriving(c), "error")]
OnDevice(c, pc) == NoDevice(c) \/ (active # 0 /\ Begin(c, pc))

------------------------------------------------------------------------------
SessionPcs == {"drop", "build", "handshake", "info", "install"}
\* Call c begins, and the session calls that are in progress overlap it.
Overlapping(c) ==
  LET others == {d \in Calls : call[d].pc \in SessionPcs}
  IN IF others = {} THEN {} ELSE others \cup {c}
\* Take the driver out of the session.  `held` is the driver to disconnect.
TakeKeeps(c) ==
  /\ Arrives(c, {"select", "disconnect"})
  /\ call' = [call EXCEPT ![c] = [Arriving(c) EXCEPT !.pc = "drop", !.held = active]]
  /\ overlapped' = overlapped \cup Overlapping(c)
  /\ LayerUnchanged /\ UNCHANGED <<active, built, left>>
Take(c) ==
  /\ Arrives(c, {"select", "disconnect"})
  /\ call' = [call EXCEPT ![c] = [Arriving(c) EXCEPT !.pc = "drop", !.held = active]]
  /\ active' = 0
  /\ overlapped' = overlapped \cup Overlapping(c)
  /\ LayerUnchanged /\ UNCHANGED <<built, left>>

\* Disconnect what was taken; its error is logged only.
Drop(c) ==
  /\ call[c].pc = "drop"
  /\ connected' = connected \ {call[c].held}
  /\ IF op(c).tool = "select" THEN Goto(c, "build") ELSE Finish(c, "ok")
  /\ UNCHANGED <<load, now, screen, changes, front, launched, keyboardHint, session>>

\* Factory.Build: the driver opens its control channel, and pings the agent.
Build(c) ==
  /\ call[c].pc = "build"
  /\ now < call[c].budget
  /\ built' = built + 1
  /\ connected' = connected \cup {built'}
  /\ call' = [call EXCEPT ![c].pc = "handshake", ![c].drv = built']
  /\ UNCHANGED <<load, now, screen, changes, front, launched, keyboardHint, active, overlapped, left>>
Connects(c) ==
  /\ call[c].pc = "handshake"
  /\ now < call[c].budget
  /\ Goto(c, "info")
  /\ LayerUnchanged /\ UNCHANGED session
\* Connect fails, before the channel is open or after; Build returns its error without
\* a Disconnect, and the driver with its open channel is dropped.
BuildFails(c) ==
  /\ call[c].pc \in {"build", "handshake"}
  /\ left' = IF call[c].pc = "handshake" THEN [left EXCEPT ![c] = drv(c)] ELSE left
  /\ Finish(c, "error")
  /\ LayerUnchanged /\ UNCHANGED <<active, built, overlapped>>
\* Its error falls back to the requested kind.
DeviceInfo(c) ==
  /\ call[c].pc = "info"
  /\ Goto(c, "install")
  /\ LayerUnchanged /\ UNCHANGED session

\* The context is not looked at again: a select that ran out of time installs.  Nor
\* is the session: the driver it may hold by now is overwritten, not disconnected.
Install(c) ==
  /\ call[c].pc = "install"
  /\ active' = drv(c)
  /\ left' = [left EXCEPT ![c] = active]
  /\ Finish(c, "ok")
  /\ LayerUnchanged /\ UNCHANGED <<built, overlapped>>

SessionStep(c) ==
  Take(c) \/ Drop(c) \/ Build(c) \/ Connects(c) \/ BuildFails(c) \/ DeviceInfo(c) \/ Install(c)

------------------------------------------------------------------------------
SessionTypeOK ==
  /\ active \in Drivers \cup {0} /\ built \in Nat
  /\ overlapped \in SUBSET Calls /\ left \in [Calls -> Drivers \cup {0}]

\* A select or disconnect in progress holds driver d.
HeldByCall(d) ==
  \E c \in Calls : \/ call[c].pc = "drop" /\ call[c].held = d
                   \/ call[c].pc \in {"handshake", "info", "install"} /\ drv(c) = d
\* Call c is over, and its caller was told of an error, or another session call ran
\* at the same time.
FailedOrOverlapped(c) ==
  /\ call[c].pc \in {"done", "answered"}
  /\ call[c].result # "ok" \/ c \in overlapped

\* DeviceSession: the active driver is connected, so none is used dead; and a driver
\* that is connected is the active one, or in the hands of a call in progress, or one
\* of the two that the code leaves without an owner: a build failed after it opened the
\* channel (factory.go:101 returns without a Disconnect) and the caller was told of an
\* error, or an install overwrote the active driver (device_session.go:186), which only
\* a call does that overlapped another one.
DriversAccounted ==
  /\ active # 0 => active \in connected
  /\ \A d \in connected :
       \/ d = active
       \/ HeldByCall(d)
       \/ \E c \in Calls : left[c] = d /\ FailedOrOverlapped(c)
=============================================================================
