---------------------- MODULE AgentProvisioning_proofs ----------------------
(***************************************************************************)
(* AgentProvisioning is type correct, launches one agent per device at a   *)
(* time, loses the handle on a process it spawned to nothing but a panic   *)
(* and waits for no exit that was received already, for any set of devices *)
(* and any number of launches.                                             *)
(***************************************************************************)
EXTENDS AgentProvisioning, TLAPS

USE DEF Launches

\* The record fields every action touches, in the form the provers need.
LaunchType == [dev : Devices, pc : Positions, event : States]
Procs == {"none", "running", "cancelled", "exited"}

\* Cancelling a process keeps the table's type, and leaves none running that ran
\* not before.
LEMMA CancelType ==
    ASSUME TypeOK, NEW n \in Launches
    PROVE  /\ Cancel(n) \in [Launches -> Procs]
           /\ \A m \in Launches : /\ Cancel(n)[m] = "running" => proc[m] = "running" /\ m # n
                                  /\ Cancel(n)[m] = "none" <=> proc[m] = "none"
                                  /\ proc[m] # "running" => Cancel(n)[m] = proc[m]
                                  /\ m # n => Cancel(n)[m] = proc[m]
  BY DEF TypeOK, Cancel, Procs

\* Moving a launch to another position keeps the table's type.
LEMMA GotoType ==
    ASSUME TypeOK, NEW n \in Launches, NEW pc \in Positions, Goto(n, pc)
    PROVE  /\ launch' \in [Launches -> LaunchType]
           /\ launch'[n].pc = pc
           /\ \A m \in Launches : /\ m # n => launch'[m] = launch[m]
                                  /\ launch'[m].dev = launch[m].dev
  BY DEF TypeOK, Goto, LaunchType

-----------------------------------------------------------------------------
\* The positions at which a launch's process may be running, and those at which
\* the launch has written its outcome.
Waiting == {"wait", "markReady"}
Over == {"marked", "announce", "done"}
Dead == {"cancelled", "exited"}

\* Somebody can stop the process of launch n (as in ProcessOwned).
Owned(n) == launch[n].pc \in Waiting \/ entry[Dev(n)].kill = n

\* A device with an active launch is building, whose launch alone writes it.
ActiveBuilds ==
    \A n \in Launches : launch[n].pc \in Active => entry[Dev(n)].state = "building"

\* A kill is kept in a ready entry, which no later Ensure replaces.
KillsAreReady == \A d \in Devices : entry[d].kill # 0 => entry[d].state = "ready"

\* A launch that was not started has no process.
FreshHasNone == \A n \in Launches : launch[n].pc = "none" => proc[n] = "none"

\* Whoever calls the kill of n may wait for its process: the launch that spawned
\* it is over, and nobody received its exit.
Killable(n) == n \in Launches /\ launch[n].pc \in Over /\ proc[n] # "none" /\ n \notin received

\* An exit is received by a launch that fails for it or by Dispose, and the kills
\* the entries hold before shutdown are as Dispose will want them.
KillsKept ==
    /\ \A n \in received : launch[n].pc \in Over \cup {"markFailed"}
    /\ \A d \in Devices : dispose = "no" /\ entry[d].kill # 0 => Killable(entry[d].kill)

\* Each kill that Dispose has collected can be called, and the one that was
\* called has been told to stop.
KillsTaken ==
    /\ \A n \in kills.left : Killable(n) /\ n # kills.waiting
    /\ kills.waiting # 0 => Killable(kills.waiting) /\ proc[kills.waiting] \in Dead

IInv ==
    /\ TypeOK
    /\ ActiveBuilds /\ OneLaunchPerDevice
    /\ KillsAreReady /\ KillsKept /\ KillsTaken
    /\ FreshHasNone

\* What a step of launch n keeps that only moves n to another position.
LEMMA MovePreserves ==
    ASSUME IInv, NEW n \in Launches, NEW pc \in Positions, Goto(n, pc),
           UNCHANGED <<entry, port, dispose, kills>>,
           launch[n].pc \notin {"none", "markFailed"}, pc # "none",
           heard' \in [Devices -> States],
           received' = received \/ (received' = received \cup {n} /\ pc = "markFailed"),
           launch[n].pc \in Over => pc \in Over /\ proc' = proc,
           proc' \in [Launches -> Procs],
           \A m \in Launches : m # n => proc'[m] = proc[m],
           pc \in Active => launch[n].pc \in Active
    PROVE  IInv'
<1>1. /\ launch' \in [Launches -> LaunchType]
      /\ launch'[n].pc = pc
      /\ \A m \in Launches : m # n => launch'[m] = launch[m]
      /\ \A m \in Launches : launch'[m].dev = launch[m].dev
  BY GotoType DEF IInv
<1>2. TypeOK'
  BY <1>1 DEF IInv, TypeOK, LaunchType, Procs
<1>3. \A m \in Launches : launch'[m].pc \in Active => launch[m].pc \in Active
  BY <1>1
<1>4. ActiveBuilds'
  BY <1>1, <1>3 DEF IInv, ActiveBuilds, Dev
<1>5. OneLaunchPerDevice'
  BY <1>1, <1>3 DEF IInv, OneLaunchPerDevice, Dev
<1>6. KillsAreReady'
  BY DEF IInv, KillsAreReady
<1>7. FreshHasNone'
  BY <1>1 DEF IInv, FreshHasNone
<1>8. ASSUME NEW m, Killable(m)  PROVE Killable(m)' /\ proc'[m] = proc[m]
  <2>1. CASE m = n
    BY <1>1, <1>8, <2>1 DEF Killable, Over
  <2>2. CASE m # n
    BY <1>1, <1>8, <2>2 DEF Killable
  <2> QED  BY <2>1, <2>2
<1>9. KillsKept'
  BY <1>1, <1>8 DEF IInv, KillsKept, TypeOK, Over
<1>10. KillsTaken'
  BY <1>8 DEF IInv, KillsTaken
<1> QED  BY <1>2, <1>4, <1>5, <1>6, <1>7, <1>9, <1>10 DEF IInv

-----------------------------------------------------------------------------
LEMMA InitIInv == Init => IInv
  BY LaunchBound, SomeDevice
  DEF Init, IInv, TypeOK, Idle, NoKills, Entries, States, Positions, Active,
      ActiveBuilds, OneLaunchPerDevice, KillsAreReady, KillsKept, KillsTaken, FreshHasNone

\* A device that is given a launch is neither building nor ready: no launch of its
\* is active and its old entry holds no kill.
LEMMA EnsurePreserves ==
    ASSUME IInv, NEW d \in Devices, Ensure(d)
    PROVE  IInv'
<1>1. PICK n \in Launches :
         /\ launch[n].pc = "none"
         /\ launch' = [launch EXCEPT ![n] = [dev |-> d, pc |-> "claimed", event |-> "idle"]]
  <2>1. PICK n \in Launches :
           /\ \A m \in Launches : launch[m].pc = "none" <=> m >= n
           /\ launch' = [launch EXCEPT ![n] = [dev |-> d, pc |-> "claimed", event |-> "idle"]]
    BY DEF Ensure
  <2>2. launch[n].pc = "none"
    BY <2>1, LaunchBound
  <2> QED  BY <2>1, <2>2
<1>2. /\ entry' = [entry EXCEPT ![d] = [state |-> "building", kill |-> 0]]
      /\ entry[d].state \notin {"building", "ready"}
      /\ UNCHANGED <<proc, received, port, heard, dispose, kills>>
  BY DEF Ensure
<1>3. /\ launch'[n] = [dev |-> d, pc |-> "claimed", event |-> "idle"]
      /\ \A m \in Launches : m # n => launch'[m] = launch[m]
      /\ proc[n] = "none"
  BY <1>1 DEF IInv, TypeOK, FreshHasNone
<1>4. TypeOK'
  BY <1>1, <1>2, LaunchBound DEF IInv, TypeOK, Entries, States, Positions
<1>5. ActiveBuilds'
  BY <1>2, <1>3 DEF IInv, TypeOK, ActiveBuilds, Dev
<1>6. \A m \in Launches : launch[m].pc \in Active => Dev(m) # d
  BY <1>2 DEF IInv, ActiveBuilds
<1>7. OneLaunchPerDevice'
  BY <1>3, <1>6 DEF IInv, OneLaunchPerDevice, Dev
<1>8. KillsAreReady'
  BY <1>2 DEF IInv, TypeOK, KillsAreReady
<1>9. FreshHasNone'
  BY <1>2, <1>3 DEF IInv, FreshHasNone
<1>10. \A m : Killable(m) => Killable(m)'
  BY <1>1, <1>2, <1>3 DEF Killable, Over
<1>11. KillsKept'
  BY <1>1, <1>2, <1>3, <1>10 DEF IInv, TypeOK, KillsKept, Over
<1>12. KillsTaken'
  BY <1>2, <1>10 DEF IInv, KillsTaken
<1> QED  BY <1>4, <1>5, <1>7, <1>8, <1>9, <1>11, <1>12 DEF IInv

\* Reading the status fills in an event and moves the launch on.
LEMMA ReadStatusPreserves ==
    ASSUME IInv, NEW n \in Launches, ReadStatus(n)
    PROVE  IInv'
<1>1. PICK pc \in {"announceBuilding", "announce"} :
         /\ launch' = [launch EXCEPT ![n] =
               [dev |-> launch[n].dev, pc |-> pc, event |-> entry[Dev(n)].state]]
         /\ pc = "announceBuilding" <=> launch[n].pc = "claimed"
         /\ launch[n].pc \in {"claimed", "marked"}
  BY DEF IInv, TypeOK, ReadStatus, At
<1>2. UNCHANGED <<entry, proc, received, port, heard, dispose, kills>>
  BY DEF ReadStatus
<1>3. /\ launch'[n] = [dev |-> launch[n].dev, pc |-> pc, event |-> entry[Dev(n)].state]
      /\ \A m \in Launches : m # n => launch'[m] = launch[m]
      /\ entry[Dev(n)].state \in States
  BY <1>1 DEF IInv, TypeOK, Entries, Dev
<1>4. TypeOK'
  BY <1>1, <1>2, <1>3 DEF IInv, TypeOK, Positions
<1>5. \A m \in Launches : /\ launch'[m].pc \in Active => launch[m].pc \in Active
                          /\ launch'[m].dev = launch[m].dev
  BY <1>1, <1>3 DEF Active
<1>6. ActiveBuilds' /\ OneLaunchPerDevice'
  BY <1>2, <1>5 DEF IInv, ActiveBuilds, OneLaunchPerDevice, Dev
<1>7. KillsAreReady' /\ FreshHasNone'
  BY <1>1, <1>2, <1>3 DEF IInv, KillsAreReady, FreshHasNone
<1>8. \A m : Killable(m) => Killable(m)'
  BY <1>1, <1>2, <1>3 DEF Killable, Over
<1>9. KillsKept' /\ KillsTaken'
  BY <1>1, <1>2, <1>3, <1>8 DEF IInv, TypeOK, KillsKept, KillsTaken, Over
<1> QED  BY <1>4, <1>6, <1>7, <1>9 DEF IInv

\* An active launch writes its own device's entry, which is building and holds no
\* kill; what markReady puts there is the kill of a process nobody waits for.
LEMMA MarkPreserves ==
    ASSUME IInv, NEW n \in Launches, MarkReady(n) \/ MarkFailed(n)
    PROVE  IInv'
<1>1. /\ Goto(n, "marked")
      /\ launch[n].pc \in {"markReady", "markFailed"}
      /\ UNCHANGED <<proc, received, port, heard, dispose, kills>>
  BY DEF MarkReady, MarkFailed, At
<1>2. /\ Dev(n) \in Devices /\ launch[n].pc \in Active
      /\ entry[Dev(n)] \in Entries /\ entry[Dev(n)].kill = 0
  <2>1. Dev(n) \in Devices /\ launch[n].pc \in Active /\ entry[Dev(n)] \in Entries
    BY <1>1 DEF IInv, TypeOK, Dev, Active
  <2> QED  BY <2>1 DEF IInv, ActiveBuilds, KillsAreReady
<1>3. PICK e \in Entries :
         /\ entry' = [entry EXCEPT ![Dev(n)] = e]
         /\ e.kill # 0 => /\ e.state = "ready" /\ e.kill = n
                          /\ launch[n].pc = "markReady" /\ proc[n] # "none"
  <2>1. CASE MarkReady(n)
    <3> DEFINE e == [state |-> "ready", kill |-> IF proc[n] = "none" THEN 0 ELSE n]
    <3>1. e \in Entries
      BY LaunchBound DEF Entries, States
    <3>2. entry' = [entry EXCEPT ![Dev(n)] = e] /\ launch[n].pc = "markReady"
      BY <2>1 DEF MarkReady, At
    <3> QED  BY <3>1, <3>2
  <2>2. CASE MarkFailed(n)
    <3> DEFINE e == [entry[Dev(n)] EXCEPT !.state = "failed"]
    <3>1. e \in Entries /\ e.kill = 0
      BY <1>2 DEF Entries, States
    <3>2. entry' = [entry EXCEPT ![Dev(n)] = e]
      BY <2>2 DEF MarkFailed
    <3> QED  BY <3>1, <3>2
  <2> QED  BY <2>1, <2>2
<1>4. /\ launch' \in [Launches -> LaunchType]
      /\ launch'[n].pc = "marked"
      /\ \A m \in Launches : m # n => launch'[m] = launch[m]
      /\ \A m \in Launches : launch'[m].dev = launch[m].dev
  BY <1>1, GotoType DEF IInv, Positions
<1>5. TypeOK'
  BY <1>1, <1>2, <1>3, <1>4 DEF IInv, TypeOK, LaunchType
<1>6. \A m \in Launches : launch'[m].pc \in Active =>
         m # n /\ launch[m].pc \in Active /\ Dev(m) # Dev(n)
  BY <1>2, <1>4 DEF IInv, OneLaunchPerDevice, Active
<1>7. ActiveBuilds'
  BY <1>3, <1>4, <1>6 DEF IInv, TypeOK, ActiveBuilds, Dev
<1>8. OneLaunchPerDevice'
  BY <1>4, <1>6 DEF IInv, OneLaunchPerDevice, Dev
<1>9. KillsAreReady'
  BY <1>3 DEF IInv, TypeOK, KillsAreReady
<1>10. FreshHasNone'
  BY <1>1, <1>4 DEF IInv, FreshHasNone
<1>11. \A m : Killable(m) => Killable(m)'
  BY <1>1, <1>4 DEF Killable, Over
<1>12. launch[n].pc = "markReady" /\ proc[n] # "none" => Killable(n)'
  BY <1>1, <1>4 DEF IInv, KillsKept, Killable, Over
<1>13. KillsKept'
  <2>1. \A m \in received' : launch'[m].pc \in Over \cup {"markFailed"}
    BY <1>1, <1>4 DEF IInv, TypeOK, KillsKept, Over
  <2>2. ASSUME NEW d \in Devices, dispose' = "no", entry'[d].kill # 0
        PROVE  Killable(entry[d].kill)'
    <3>1. CASE d = Dev(n)
      BY <1>2, <1>3, <1>12, <2>2, <3>1 DEF IInv, TypeOK
    <3>2. CASE d # Dev(n)
      <4>1. entry'[d] = entry[d] /\ dispose = "no"
        BY <1>1, <1>3, <2>2, <3>2 DEF IInv, TypeOK
      <4> QED  BY <1>11, <2>2, <4>1 DEF IInv, KillsKept
    <3> QED  BY <3>1, <3>2
  <2> QED  BY <2>1, <2>2 DEF KillsKept
<1>14. KillsTaken'
  BY <1>1, <1>11 DEF IInv, KillsTaken
<1> QED  BY <1>5, <1>7, <1>8, <1>9, <1>10, <1>13, <1>14 DEF IInv

\* A launch on its way moves from position to position; its process runs from
\* the end of "prepare" to the end of the wait.
LEMMA ProceedPreserves ==
    ASSUME IInv, NEW n \in Launches, Proceed(n)
    PROVE  IInv'
<1> USE DEF At, Active, Over, Positions
<1>1. /\ proc \in [Launches -> Procs] /\ received \in SUBSET Launches
      /\ heard \in [Devices -> States] /\ launch[n].event \in States /\ Dev(n) \in Devices
  BY DEF IInv, TypeOK, Procs, Dev
<1>2. CASE ReadStatus(n)
  BY <1>2, ReadStatusPreserves
<1>3. CASE Emit(n)
  <2>1. heard' \in [Devices -> States]
    BY <1>1, <1>3 DEF Emit
  <2> QED  BY <1>1, <1>3, <2>1, MovePreserves DEF Emit
<1>4. CASE Probe(n)
  <2>1. PICK pc \in {"markReady", "prepare"} : Goto(n, pc)
    BY <1>4 DEF Probe
  <2> QED  BY <1>1, <1>4, <2>1, MovePreserves DEF Probe
<1>5. CASE Prepare(n)
  <2>1. /\ proc' \in [Launches -> Procs]
        /\ \A m \in Launches : m # n => proc'[m] = proc[m]
    BY <1>1, <1>5 DEF Prepare, Procs
  <2> QED  BY <1>1, <1>5, <2>1, MovePreserves DEF Prepare
<1>6. CASE PrepareFails(n)
  BY <1>1, <1>6, MovePreserves DEF PrepareFails
<1>7. CASE WaitReady(n)
  BY <1>1, <1>7, MovePreserves DEF WaitReady
<1>8. CASE WaitExited(n)
  BY <1>1, <1>8, MovePreserves DEF WaitExited, Exited
<1>9. CASE WaitTimeout(n)
  <2>1. /\ proc' \in [Launches -> Procs]
        /\ \A m \in Launches : m # n => proc'[m] = proc[m]
    BY <1>9, CancelType DEF WaitTimeout, IInv
  <2>2. PICK pc \in {"reap", "markFailed"} : Goto(n, pc)
    BY <1>9 DEF WaitTimeout
  <2> QED  BY <1>1, <1>9, <2>1, <2>2, MovePreserves DEF WaitTimeout
<1>10. CASE Reap(n)
  BY <1>1, <1>10, MovePreserves DEF Reap, Exited
<1>11. CASE MarkReady(n) \/ MarkFailed(n)
  BY <1>11, MarkPreserves
<1> QED  BY <1>2, <1>3, <1>4, <1>5, <1>6, <1>7, <1>8, <1>9, <1>10, <1>11 DEF Proceed

\* Steps of the processes, of shutdown and of the fallback start no process and
\* touch neither launches nor entries.
LEMMA ProcessPreserves ==
    ASSUME IInv, UNCHANGED <<entry, launch>>, TypeOK', KillsKept', KillsTaken',
           \A m \in Launches : proc'[m] = "none" <=> proc[m] = "none"
    PROVE  IInv'
  BY DEF IInv, ActiveBuilds, OneLaunchPerDevice, KillsAreReady, FreshHasNone, Dev

\* A process that moves on by itself, or is told to stop, stays killable.
LEMMA RuntimePreserves ==
    ASSUME IInv, UNCHANGED <<entry, launch, received, dispose, kills>>, TypeOK',
           \A m \in Launches : /\ proc'[m] = "none" <=> proc[m] = "none"
                               /\ proc[m] \in Dead => proc'[m] \in Dead
    PROVE  IInv'
<1>1. \A m : Killable(m) => Killable(m)' /\ m \in Launches
  BY DEF Killable
<1>2. KillsKept' /\ KillsTaken'
  BY <1>1 DEF IInv, KillsKept, KillsTaken
<1> QED  BY <1>2, ProcessPreserves

\* Dispose collects the kills of the entries, calls one after the other, and
\* receives the exit of each before it calls the next.
LEMMA DisposePreserves ==
    ASSUME IInv, DisposeCollects \/ Dispose
    PROVE  IInv'
<1>1. TypeOK /\ KillsKept /\ KillsTaken
  BY DEF IInv
<1>2. CASE DisposeCollects
  <2> DEFINE held == {entry[d].kill : d \in Devices} \ {0}
  <2>1. /\ dispose = "no" /\ kills' = [left |-> held, waiting |-> 0]
        /\ UNCHANGED <<entry, launch, proc, received, port, heard>> /\ dispose' = "killing"
    BY <1>2 DEF DisposeCollects
  <2>2. \A n \in held : Killable(n) /\ Killable(n)' /\ n # 0
    <3>1. \A n : Killable(n) => Killable(n)'
      BY <2>1 DEF Killable
    <3> QED  BY <1>1, <2>1, <3>1 DEF KillsKept
  <2>3. kills' \in [left : SUBSET Launches, waiting : 0..MaxLaunches]
    BY <2>1, <2>2, LaunchBound DEF Killable
  <2>4. TypeOK'
    BY <1>1, <2>1, <2>3 DEF TypeOK
  <2>5. KillsKept' /\ KillsTaken'
    BY <1>1, <2>1, <2>2 DEF KillsKept, KillsTaken
  <2> QED  BY <2>1, <2>4, <2>5, ProcessPreserves
<1>3. ASSUME NEW n \in Launches, DisposeKills(n)  PROVE IInv'
  <2>1. /\ dispose = "killing" /\ n \in kills.left /\ proc' = Cancel(n)
        /\ kills' = [left |-> kills.left \ {n}, waiting |-> n]
        /\ UNCHANGED <<entry, launch, received, port, heard, dispose>>
    BY <1>3 DEF DisposeKills
  <2>2. kills' \in [left : SUBSET Launches, waiting : 0..MaxLaunches]
    BY <1>1, <2>1, LaunchBound DEF TypeOK
  <2>3. /\ proc' \in [Launches -> Procs]
        /\ \A m \in Launches : proc'[m] = "none" <=> proc[m] = "none"
    BY <1>1, <2>1, CancelType
  <2>4. TypeOK'
    BY <1>1, <2>1, <2>2, <2>3 DEF TypeOK, Procs
  <2>5. \A m : Killable(m) => Killable(m)'
    BY <2>1, <2>3 DEF Killable
  <2>6. KillsKept'
    BY <1>1, <2>1, <2>5 DEF KillsKept
  <2>7. Killable(n) /\ proc'[n] \in Dead
    BY <1>1, <2>1 DEF TypeOK, KillsTaken, Killable, Cancel, Dead
  <2>8. KillsTaken'
    BY <1>1, <2>1, <2>5, <2>7 DEF KillsTaken
  <2> QED  BY <2>1, <2>3, <2>4, <2>6, <2>8, ProcessPreserves
<1>4. CASE DisposeReaps
  <2> DEFINE n == kills.waiting
  <2>1. /\ dispose = "killing" /\ n # 0 /\ received' = received \cup {n}
        /\ kills' = [kills EXCEPT !.waiting = 0]
        /\ UNCHANGED <<entry, launch, proc, port, heard, dispose>>
    BY <1>4 DEF DisposeReaps
  <2>2. Killable(n)
    BY <1>1, <2>1 DEF KillsTaken
  <2>3. kills' \in [left : SUBSET Launches, waiting : 0..MaxLaunches] /\ kills'.left = kills.left
        /\ kills'.waiting = 0
    BY <1>1, <2>1, LaunchBound DEF TypeOK
  <2>4. TypeOK'
    BY <1>1, <2>1, <2>2, <2>3 DEF TypeOK, Killable
  <2>5. \A m : Killable(m) /\ m # n => Killable(m)' /\ m # 0
    BY <2>1, LaunchBound DEF Killable
  <2>6. KillsKept'
    BY <1>1, <2>1, <2>2 DEF KillsKept, Killable
  <2>7. KillsTaken'
    BY <1>1, <2>3, <2>5 DEF KillsTaken
  <2> QED  BY <2>1, <2>4, <2>6, <2>7, ProcessPreserves
<1>5. CASE ExitProcess
  <2>1. TypeOK' /\ UNCHANGED <<entry, launch, proc, received, kills>> /\ dispose = "killing"
        /\ dispose' = "exited"
    BY <1>1, <1>5 DEF ExitProcess, TypeOK
  <2>2. \A m : Killable(m) => Killable(m)'
    BY <2>1 DEF Killable
  <2>3. KillsKept' /\ KillsTaken'
    BY <1>1, <2>1, <2>2 DEF KillsKept, KillsTaken
  <2> QED  BY <2>1, <2>3, ProcessPreserves
<1> QED  BY <1>2, <1>3, <1>4, <1>5 DEF Dispose

LEMMA NextPreserves ==
    ASSUME IInv, [Next]_vars
    PROVE  IInv'
<1> USE DEF Procs
<1>1. TypeOK
  BY DEF IInv
<1>2. CASE \E d \in Devices : Ensure(d)
  BY <1>2, EnsurePreserves
<1>3. ASSUME NEW n \in Launches, Proceed(n)  PROVE IInv'
  BY <1>3, ProceedPreserves
<1>4. ASSUME NEW n \in Launches, Panic(n)  PROVE IInv'
  <2>1. launch[n].pc \in Active \ {"markFailed"} \/ launch[n].pc = "markFailed"
    BY <1>4, PanicsInLaunch DEF Panic
  <2>2. CASE launch[n].pc = "markFailed"
    <3>1. UNCHANGED vars
      BY <1>1, <1>4, <2>2 DEF Panic, Goto, TypeOK, vars
    <3> QED  BY <1>1, <3>1, RuntimePreserves DEF vars, TypeOK
  <2>3. CASE launch[n].pc \in Active \ {"markFailed"}
    <3>1. launch[n].pc \notin {"none", "markFailed"} \cup Over /\ "markFailed" \in Positions
      BY <2>3 DEF Active, Positions, Over
    <3>2. proc \in [Launches -> Procs] /\ heard \in [Devices -> States]
      BY <1>1 DEF TypeOK
    <3> QED  BY <1>4, <2>3, <3>1, <3>2, MovePreserves DEF Panic
  <2> QED  BY <2>1, <2>2, <2>3
<1>5. ASSUME NEW n \in Launches, Listen(n)  PROVE IInv'
  <2>1. TypeOK'
    BY <1>1, <1>5, LaunchBound DEF Listen, TypeOK
  <2> QED  BY <1>5, <2>1, RuntimePreserves DEF Listen
<1>6. ASSUME NEW n \in Launches, ProcessDies(n) \/ ProcessCrashes(n)  PROVE IInv'
  <2>1. Exit(n) /\ proc[n] \in {"cancelled", "running"}
    BY <1>6 DEF ProcessDies, ProcessCrashes
  <2>2. /\ proc' = [proc EXCEPT ![n] = "exited"]
        /\ UNCHANGED <<entry, launch, received, dispose, kills>>
    BY <2>1 DEF Exit
  <2>3. TypeOK'
    BY <1>1, <2>1, LaunchBound DEF Exit, TypeOK
  <2>4. \A m \in Launches : /\ proc'[m] = "none" <=> proc[m] = "none"
                            /\ proc[m] \in Dead => proc'[m] \in Dead
    BY <1>1, <2>1, <2>2 DEF TypeOK, Dead
  <2> QED  BY <2>2, <2>3, <2>4, RuntimePreserves
<1>7. ASSUME NEW n \in Launches, RunFallback(n)  PROVE IInv'
  <2>1. TypeOK'
    BY <1>1, <1>7, CancelType DEF RunFallback, TypeOK
  <2>2. \A m \in Launches : /\ proc'[m] = "none" <=> proc[m] = "none"
                            /\ proc[m] \in Dead => proc'[m] \in Dead
    BY <1>1, <1>7, CancelType DEF RunFallback, Dead
  <2> QED  BY <1>7, <2>1, <2>2, RuntimePreserves DEF RunFallback
<1>8. CASE DisposeCollects \/ Dispose
  BY <1>8, DisposePreserves
<1>9. CASE UNCHANGED vars
  BY <1>9, <1>1, RuntimePreserves DEF vars, TypeOK
<1> QED  BY <1>2, <1>3, <1>4, <1>5, <1>6, <1>7, <1>8, <1>9 DEF Next

LEMMA Inductive == Spec => []IInv
<1>1. IInv /\ [Next]_vars => IInv'
  BY NextPreserves
<1> QED  BY InitIInv, <1>1, PTL DEF Spec

-----------------------------------------------------------------------------
\* The variables keep their types, for any devices and any number of launches.
THEOREM TypeCorrect == Spec => []TypeOK
<1>1. IInv => TypeOK
  BY DEF IInv
<1> QED  BY <1>1, Inductive, PTL

\* Ensure never lets two launches provision one device at the same time, so a
\* launch's outcome is never written over another's entry.
THEOREM OneLaunch == Spec => []OneLaunchPerDevice
<1>1. IInv => OneLaunchPerDevice
  BY DEF IInv
<1> QED  BY <1>1, Inductive, PTL

\* Dispose, having told a process to stop, finds its exit still to be received:
\* neither the launch that spawned it nor an earlier kill has taken it.  Hence a
\* shutdown waits for nothing but processes that were killed.
KillsReturn ==
    kills.waiting # 0 => proc[kills.waiting] = "cancelled" \/ Exited(kills.waiting)

THEOREM EveryKillReturns == Spec => []KillsReturn
<1>1. IInv => KillsReturn
  BY DEF IInv, KillsTaken, Killable, Dead, KillsReturn, Exited
<1> QED  BY <1>1, Inductive, PTL

-----------------------------------------------------------------------------
\* A step of launch n itself leaves its running process with an owner, unless it
\* is a panic.
LEMMA OwnLaunchStep ==
    ASSUME IInv, NEW n \in Launches, Proceed(n), proc'[n] = "running",
           proc[n] = "running" => Owned(n)
    PROVE  Owned(n)'
<1> USE DEF At, Waiting
<1>1. /\ TypeOK /\ Dev(n) \in Devices /\ launch[n].pc \in Positions
      /\ entry[Dev(n)] \in Entries
  BY DEF IInv, TypeOK, Dev
<1>2. Dev(n)' = Dev(n)
  <2>1. ASSUME NEW pc, Goto(n, pc)  PROVE Dev(n)' = Dev(n)
    BY <1>1, <2>1 DEF Goto, Dev, TypeOK
  <2>2. CASE ReadStatus(n)
    BY <1>1, <2>2 DEF ReadStatus, Dev, TypeOK
  <2> QED  BY <2>1, <2>2 DEF Proceed, Emit, Probe, Prepare, PrepareFails, WaitReady,
             WaitExited, WaitTimeout, Reap, MarkReady, MarkFailed
<1>3. CASE entry' = entry /\ launch[n].pc \notin Waiting
  <2>1. CASE proc' = proc
    BY <1>2, <1>3, <2>1 DEF Owned
  <2>2. CASE Prepare(n)
    BY <1>1, <2>2 DEF Prepare, Goto, Owned, TypeOK
  <2> QED  BY <1>3, <2>1, <2>2 DEF Proceed, ReadStatus, Emit, Probe, PrepareFails, WaitReady,
             WaitExited, WaitTimeout, Reap, MarkReady, MarkFailed
<1>4. CASE launch[n].pc \in Waiting
  <2>1. CASE WaitReady(n)
    BY <1>1, <2>1 DEF WaitReady, Goto, Owned, TypeOK
  <2>2. CASE WaitExited(n)
    BY <1>1, <2>2 DEF WaitExited, Exited
  <2>3. CASE WaitTimeout(n)
    BY <1>1, <2>3, CancelType DEF WaitTimeout
  <2>4. CASE MarkReady(n)
    BY <1>1, <1>2, <2>4 DEF MarkReady, Owned, TypeOK
  <2> QED  BY <1>4, <2>1, <2>2, <2>3, <2>4 DEF Proceed, ReadStatus, Emit, Probe, Prepare,
             PrepareFails, Reap, MarkFailed
<1>5. CASE MarkFailed(n)
  BY <1>1, <1>2, <1>5 DEF MarkFailed, Owned, TypeOK, Entries
<1> QED  BY <1>3, <1>4, <1>5 DEF Proceed, ReadStatus, Emit, Probe, Prepare, PrepareFails,
           WaitReady, WaitExited, WaitTimeout, Reap, MarkReady

\* A step of another launch writes the entry of that launch's device only, which
\* is building and so holds no kill that could be lost.
LEMMA OtherLaunchStep ==
    ASSUME IInv, NEW n \in Launches, NEW m \in Launches \ {n}, Proceed(m) \/ Panic(m)
    PROVE  /\ proc'[n] = proc[n]
           /\ proc[n] = "running" /\ Owned(n) => Owned(n)'
<1>1. /\ TypeOK /\ Dev(m) \in Devices /\ Dev(n) \in Devices
      /\ entry[Dev(n)] \in Entries
  BY DEF IInv, TypeOK, Dev
<1>2. launch'[n] = launch[n] /\ Dev(n)' = Dev(n)
  BY <1>1 DEF Proceed, ReadStatus, Emit, Probe, Prepare, PrepareFails, WaitReady, WaitExited,
        WaitTimeout, Reap, MarkReady, MarkFailed, Panic, Goto, Dev, TypeOK
<1>3. proc'[n] = proc[n]
  <2>1. CASE WaitTimeout(m)
    BY <1>1, <2>1, CancelType DEF WaitTimeout
  <2>2. CASE Prepare(m)
    BY <1>1, <2>2 DEF Prepare, TypeOK
  <2> QED  BY <2>1, <2>2 DEF Proceed, ReadStatus, Emit, Probe, PrepareFails, WaitReady,
             WaitExited, Reap, MarkReady, MarkFailed, Panic
<1>4. CASE entry' = entry
  BY <1>2, <1>3, <1>4 DEF Owned
<1>5. CASE MarkReady(m) \/ MarkFailed(m)
  <2>1. entry[Dev(m)].kill = 0
    BY <1>1, <1>5 DEF MarkReady, MarkFailed, At, Active, IInv, ActiveBuilds, KillsAreReady
  <2>2. Dev(n) # Dev(m) => entry'[Dev(n)] = entry[Dev(n)]
    BY <1>1, <1>5 DEF MarkReady, MarkFailed, TypeOK
  <2> QED  BY <1>2, <1>3, <2>1, <2>2 DEF Owned
<1> QED  BY <1>3, <1>4, <1>5 DEF Proceed, ReadStatus, Emit, Probe, Prepare, PrepareFails,
           WaitReady, WaitExited, WaitTimeout, Reap, Panic

\* Whatever could take a running process from those who can stop it (the launch
\* goes past its wait, its device's entry is written or replaced) does not, but
\* for a panic of the launch while its process runs.
LEMMA OwnershipStep ==
    ASSUME IInv, [Next]_vars, NEW n \in Launches,
           proc[n] = "running" => Owned(n), proc'[n] = "running",
           ~(Panic(n) /\ launch[n].pc \in Waiting)
    PROVE  Owned(n)'
<1>1. TypeOK /\ Dev(n) \in Devices
  BY DEF IInv, TypeOK, Dev
<1>2. ASSUME NEW d \in Devices, Ensure(d)  PROVE Owned(n)'
  <2>1. /\ proc' = proc /\ entry[d].state # "ready"
        /\ entry' = [entry EXCEPT ![d] = [state |-> "building", kill |-> 0]]
        /\ Owned(n)
    BY <1>2 DEF Ensure
  <2>2. launch'[n] = launch[n] /\ Dev(n)' = Dev(n)
    <3>1. PICK m \in Launches :
             /\ \A k \in Launches : launch[k].pc = "none" <=> k >= m
             /\ launch' = [launch EXCEPT ![m] = [dev |-> d, pc |-> "claimed", event |-> "idle"]]
      BY <1>2 DEF Ensure
    <3>2. launch[m].pc = "none"
      BY <3>1, LaunchBound
    <3>3. m # n
      BY <2>1, <3>2 DEF IInv, FreshHasNone
    <3> QED  BY <1>1, <3>1, <3>3 DEF TypeOK, Dev
  <2>3. entry[Dev(n)].kill = n => d # Dev(n)
    BY <1>1, <2>1 DEF IInv, KillsAreReady
  <2> QED  BY <1>1, <2>1, <2>2, <2>3 DEF Owned, TypeOK
<1>3. ASSUME NEW m \in Launches \ {n}, Proceed(m) \/ Panic(m)  PROVE Owned(n)'
  BY <1>3, OtherLaunchStep
<1>4. CASE Proceed(n)
  BY <1>4, OwnLaunchStep
<1>5. CASE Panic(n)
  <2>1. /\ launch[n].pc \notin Waiting /\ Dev(n)' = Dev(n) /\ entry' = entry /\ proc' = proc
    BY <1>1, <1>5 DEF Panic, Goto, TypeOK, Dev
  <2> QED  BY <2>1 DEF Owned
<1>6. CASE UNCHANGED <<entry, launch>> /\ (proc'[n] = "running" => proc[n] = "running")
  BY <1>6 DEF Owned, Dev
<1>7. ASSUME NEW m \in Launches, ProcessDies(m) \/ ProcessCrashes(m)
      PROVE  proc'[n] = "running" => proc[n] = "running"
  BY <1>1, <1>7 DEF ProcessDies, ProcessCrashes, Exit, TypeOK
<1>8. ASSUME NEW m \in Launches, RunFallback(m) \/ DisposeKills(m)
      PROVE  proc'[n] = "running" => proc[n] = "running"
  BY <1>1, <1>8, CancelType DEF RunFallback, DisposeKills
<1>9. ASSUME NEW m \in Launches,
             Listen(m) \/ ProcessDies(m) \/ ProcessCrashes(m) \/ RunFallback(m) \/ DisposeKills(m)
      PROVE  Owned(n)'
  BY <1>6, <1>7, <1>8, <1>9
     DEF Listen, ProcessDies, ProcessCrashes, Exit, RunFallback, DisposeKills
<1>10. CASE DisposeCollects \/ DisposeReaps \/ ExitProcess \/ UNCHANGED vars
  BY <1>6, <1>10 DEF DisposeCollects, DisposeReaps, ExitProcess, vars
<1> QED  BY <1>2, <1>3, <1>4, <1>5, <1>9, <1>10 DEF Next, Dispose

\* A process that somebody can stop runs on without an owner after no step but a
\* panic of its own launch between the spawn and markReady: failures, time-outs,
\* retries, other devices' launches and shutdown hand it on (recoverEnsurePanic
\* alone forgets it).
LostToPanicOnly ==
    [][\A n \in Launches :
          (proc[n] = "running" => Owned(n)) /\ proc'[n] = "running" /\ ~Owned(n)'
          => Panic(n) /\ launch[n].pc \in Waiting]_vars

THEOREM PanicAloneOrphans == Spec => LostToPanicOnly
<1>1. IInv /\ [Next]_vars =>
         [\A n \in Launches :
             (proc[n] = "running" => Owned(n)) /\ proc'[n] = "running" /\ ~Owned(n)'
             => Panic(n) /\ launch[n].pc \in Waiting]_vars
  BY OwnershipStep
<1> QED  BY <1>1, Inductive, PTL DEF Spec, LostToPanicOnly

\* Hence, where provisioning code does not panic once its process was spawned, no
\* xcodebuild process is lost: its launch waits for it or its device's entry
\* holds its kill, through failures, retries and time-outs.
PanicsBeforeSpawn == PanicAt \cap Waiting = {}
AllOwned == \A n \in Launches : proc[n] = "running" => Owned(n)

THEOREM NoProcessLost == PanicsBeforeSpawn => (Spec => []ProcessOwned)
<1> SUFFICES ASSUME PanicsBeforeSpawn  PROVE Spec => []ProcessOwned
  OBVIOUS
<1>1. Init => AllOwned
  BY DEF Init, AllOwned
<1>2. IInv /\ AllOwned /\ [Next]_vars => AllOwned'
  <2> SUFFICES ASSUME IInv, AllOwned, [Next]_vars, NEW n \in Launches, proc'[n] = "running"
               PROVE  Owned(n)'
    BY DEF AllOwned
  <2>1. ~(Panic(n) /\ launch[n].pc \in Waiting)
    BY DEF Panic, PanicsBeforeSpawn
  <2> QED  BY <2>1, OwnershipStep DEF AllOwned
<1>3. AllOwned => ProcessOwned
  BY DEF AllOwned, Owned, ProcessOwned, Waiting
<1> QED  BY <1>1, <1>2, <1>3, Inductive, PTL DEF Spec
=============================================================================
