------------------------- MODULE AgentProvisioning -------------------------
(***************************************************************************)
(* Bringing agents up: IosAgentService and AndroidAgentService keep one    *)
(* provisioning entry per device and run each launch in a goroutine of its *)
(* own.  An iOS launch (XctestLauncher) spawns an xcodebuild process that  *)
(* has to outlive it and is stopped through the kill the service keeps; an *)
(* Android launch (AgentLauncher) installs an app and leaves no process    *)
(* behind.  All iOS launches poll one fixed port.  The process shuts down  *)
(* through Dispose.  "building" stands for Android's "installing" too.     *)
(***************************************************************************)
EXTENDS Naturals, FiniteSets

CONSTANTS
    Ios, Android,   \* the devices
    MaxLaunches,    \* bound on the launches of a run
    PanicAt,        \* the positions at which provisioning code may panic
    Crashes         \* an xcodebuild process may also exit by itself

Devices == Ios \cup Android
Launches == 1..MaxLaunches

ASSUME LaunchBound == MaxLaunches \in Nat
ASSUME SomeDevice == Devices # {} /\ Ios \cap Android = {}

VARIABLES
    entry,      \* device -> its iosAgentEntry or androidAgentEntry
    launch,     \* launch -> its device, its position, the event it publishes
    proc,       \* launch -> its xcodebuild process
    received,   \* launches whose exited channel was received from
    port,       \* the launch whose runner answers on the iOS port, or 0
    heard,      \* device -> the last status event the host received
    dispose,    \* shutdown: not begun, stopping agents, process gone
    kills       \* what Dispose still has to kill, and what it waits for

vars == <<entry, launch, proc, received, port, heard, dispose, kills>>

States == {"idle", "building", "ready", "failed"}
Positions == {"none", "claimed", "announceBuilding", "probe", "prepare", "wait", "reap",
              "markReady", "markFailed", "marked", "announce", "done"}
\* The launch owns its device's entry: the service starts no second one.
Active == {"claimed", "announceBuilding", "probe", "prepare", "wait", "reap",
           "markReady", "markFailed"}
ASSUME PanicsInLaunch == PanicAt \subseteq Active

\* kill = 0 stands for no kill and for noopKill.
Entries == [state : States, kill : 0..MaxLaunches]
Idle == [state |-> "idle", kill |-> 0]
NoKills == [left |-> {}, waiting |-> 0]

TypeOK ==
    /\ entry \in [Devices -> Entries]
    /\ launch \in [Launches -> [dev : Devices, pc : Positions, event : States]]
    /\ proc \in [Launches -> {"none", "running", "cancelled", "exited"}]
    /\ received \subseteq Launches
    /\ port \in 0..MaxLaunches
    /\ heard \in [Devices -> States]
    /\ dispose \in {"no", "killing", "exited"}
    /\ kills \in [left : SUBSET Launches, waiting : 0..MaxLaunches]

Init ==
    /\ entry = [d \in Devices |-> Idle]
    /\ launch = [n \in Launches |-> [dev |-> CHOOSE d \in Devices : TRUE,
                                     pc |-> "none", event |-> "idle"]]
    /\ proc = [n \in Launches |-> "none"]
    /\ received = {} /\ port = 0
    /\ heard = [d \in Devices |-> "idle"]
    /\ dispose = "no" /\ kills = NoKills

-----------------------------------------------------------------------------
Alive == dispose # "exited"
At(n, pc) == Alive /\ launch[n].pc = pc
Goto(n, pc) == launch' = [launch EXCEPT ![n].pc = pc]
Dev(n) == launch[n].dev
IsIos(n) == Dev(n) \in Ios
Exited(n) == proc[n] = "exited" /\ n \notin received
Cancel(n) == [proc EXCEPT ![n] = IF @ = "running" THEN "cancelled" ELSE @]

\* Mutant: any Ensure starts a launch.
EnsureAlways(d) ==
    /\ dispose = "no"
    /\ \E n \in Launches :
          /\ \A m \in Launches : launch[m].pc = "none" <=> m >= n
          /\ launch' = [launch EXCEPT ![n] = [dev |-> d, pc |-> "claimed", event |-> "idle"]]
    /\ entry' = [entry EXCEPT ![d] = [state |-> "building", kill |-> 0]]
    /\ UNCHANGED <<proc, received, port, heard, dispose, kills>>

\* An entry that is building or ready is returned as it is.
Ensure(d) ==
    /\ dispose = "no" /\ entry[d].state \notin {"building", "ready"}
    /\ \E n \in Launches :
          /\ \A m \in Launches : launch[m].pc = "none" <=> m >= n
          /\ launch' = [launch EXCEPT ![n] = [dev |-> d, pc |-> "claimed", event |-> "idle"]]
    /\ entry' = [entry EXCEPT ![d] = [state |-> "building", kill |-> 0]]
    /\ UNCHANGED <<proc, received, port, heard, dispose, kills>>

\* emit reads Status under the lock and publishes after it.
ReadStatus(n) ==
    /\ At(n, "claimed") \/ At(n, "marked")
    /\ launch' = [launch EXCEPT ![n].event = entry[Dev(n)].state,
           ![n].pc = IF @ = "claimed" THEN "announceBuilding" ELSE "announce"]
    /\ UNCHANGED <<entry, proc, received, port, heard, dispose, kills>>

Emit(n) ==
    /\ At(n, "announceBuilding") \/ At(n, "announce")
    /\ heard' = [heard EXCEPT ![Dev(n)] = launch[n].event]
    /\ Goto(n, IF At(n, "announce") THEN "done" ELSE "probe")
    /\ UNCHANGED <<entry, proc, received, port, dispose, kills>>

-----------------------------------------------------------------------------
(* EnsureRunning.  The Android agent's health is asked of the device.       *)

Probe(n) ==
    /\ At(n, "probe")
    /\ \E answered \in IF IsIos(n) THEN {port # 0} ELSE BOOLEAN :
          Goto(n, IF answered THEN "markReady" ELSE "prepare")
    /\ UNCHANGED <<entry, proc, received, port, heard, dispose, kills>>

\* No project, no APK, no signing team, a failed build or install.
PrepareFails(n) ==
    /\ At(n, "prepare") /\ Goto(n, "markFailed")
    /\ UNCHANGED <<entry, proc, received, port, heard, dispose, kills>>

\* Build and spawn, or install, rebind and start the service.
Prepare(n) ==
    /\ At(n, "prepare") /\ Goto(n, "wait")
    /\ proc' = IF IsIos(n) THEN [proc EXCEPT ![n] = "running"] ELSE proc
    /\ UNCHANGED <<entry, received, port, heard, dispose, kills>>

WaitReady(n) ==
    /\ At(n, "wait") /\ (IsIos(n) => port # 0)
    /\ Goto(n, "markReady")
    /\ UNCHANGED <<entry, proc, received, port, heard, dispose, kills>>

\* Mutant: the exit that ended the wait is waited for again.
WaitExitedDrains(n) ==
    /\ At(n, "wait") /\ Exited(n)
    /\ received' = received \cup {n}
    /\ Goto(n, "reap")
    /\ UNCHANGED <<entry, proc, port, heard, dispose, kills>>

WaitExited(n) ==
    /\ At(n, "wait") /\ Exited(n)
    /\ received' = received \cup {n}
    /\ Goto(n, "markFailed")
    /\ UNCHANGED <<entry, proc, port, heard, dispose, kills>>

\* Mutant: a launch that times out leaves its process running.
WaitTimeoutAbandons(n) ==
    /\ At(n, "wait") /\ ~Exited(n)
    /\ Goto(n, "markFailed")
    /\ UNCHANGED <<entry, proc, received, port, heard, dispose, kills>>

WaitTimeout(n) ==
    /\ At(n, "wait") /\ ~Exited(n)
    /\ proc' = Cancel(n)
    /\ Goto(n, IF IsIos(n) THEN "reap" ELSE "markFailed")
    /\ UNCHANGED <<entry, received, port, heard, dispose, kills>>

Reap(n) ==
    /\ At(n, "reap") /\ Exited(n)
    /\ received' = received \cup {n}
    /\ Goto(n, "markFailed")
    /\ UNCHANGED <<entry, proc, port, heard, dispose, kills>>

\* recoverEnsurePanic: the entry fails and nothing else is undone.
Panic(n) ==
    /\ Alive /\ launch[n].pc \in PanicAt
    /\ Goto(n, "markFailed")
    /\ UNCHANGED <<entry, proc, received, port, heard, dispose, kills>>

MarkReady(n) ==
    /\ At(n, "markReady")
    /\ entry' = [entry EXCEPT ![Dev(n)] =
           [state |-> "ready", kill |-> IF proc[n] = "none" THEN 0 ELSE n]]
    /\ Goto(n, "marked")
    /\ UNCHANGED <<proc, received, port, heard, dispose, kills>>

MarkFailed(n) ==
    /\ At(n, "markFailed")
    /\ entry' = [entry EXCEPT ![Dev(n)].state = "failed"]
    /\ Goto(n, "marked")
    /\ UNCHANGED <<proc, received, port, heard, dispose, kills>>

-----------------------------------------------------------------------------
(* The xcodebuild processes.                                                *)

Listen(n) ==
    /\ proc[n] = "running" /\ port = 0 /\ port' = n
    /\ UNCHANGED <<entry, launch, proc, received, heard, dispose, kills>>

Exit(n) ==
    /\ proc' = [proc EXCEPT ![n] = "exited"]
    /\ port' = IF port = n THEN 0 ELSE port
    /\ UNCHANGED <<entry, launch, received, heard, dispose, kills>>

ProcessDies(n) == proc[n] = "cancelled" /\ Exit(n)
ProcessCrashes(n) == Crashes /\ proc[n] = "running" /\ Exit(n)

\* Exec.Run bounds a command whose context has no deadline, and runCtx has none.
RunFallback(n) ==
    /\ Alive /\ proc[n] = "running"
    /\ proc' = Cancel(n)
    /\ UNCHANGED <<entry, launch, received, port, heard, dispose, kills>>

-----------------------------------------------------------------------------
(* Shutdown: main drains the handlers, Dispose stops what the entries name, *)
(* and the process ends with every goroutine in it.                         *)

DisposeCollects ==
    /\ dispose = "no"
    /\ \A n \in Launches : launch[n].pc \notin {"claimed", "announceBuilding"}
    /\ dispose' = "killing"
    /\ kills' = [left |-> {entry[d].kill : d \in Devices} \ {0}, waiting |-> 0]
    /\ UNCHANGED <<entry, launch, proc, received, port, heard>>

DisposeKills(n) ==
    /\ dispose = "killing" /\ kills.waiting = 0 /\ n \in kills.left
    /\ proc' = Cancel(n)
    /\ kills' = [left |-> kills.left \ {n}, waiting |-> n]
    /\ UNCHANGED <<entry, launch, received, port, heard, dispose>>

\* Mutant: the next device's kill has to wait for this one's channel twice.
DisposeReapsTwice ==
    /\ dispose = "killing" /\ kills.waiting # 0 /\ Exited(kills.waiting)
    /\ received' = received \cup {kills.waiting}
    /\ kills' = IF kills.left = {} THEN [kills EXCEPT !.waiting = 0] ELSE kills
    /\ UNCHANGED <<entry, launch, proc, port, heard, dispose>>

DisposeReaps ==
    /\ dispose = "killing" /\ kills.waiting # 0 /\ Exited(kills.waiting)
    /\ received' = received \cup {kills.waiting}
    /\ kills' = [kills EXCEPT !.waiting = 0]
    /\ UNCHANGED <<entry, launch, proc, port, heard, dispose>>

ExitProcess ==
    /\ dispose = "killing" /\ kills = NoKills
    /\ dispose' = "exited"
    /\ UNCHANGED <<entry, launch, proc, received, port, heard, kills>>

-----------------------------------------------------------------------------
\* What a launch does by itself; its wait ends, one way or another.
Proceed(n) ==
    \/ ReadStatus(n) \/ Emit(n) \/ Probe(n) \/ Prepare(n) \/ PrepareFails(n)
    \/ WaitReady(n) \/ WaitExited(n) \/ WaitTimeout(n) \/ Reap(n)
    \/ MarkReady(n) \/ MarkFailed(n)

Dispose ==
    \/ (\E n \in Launches : DisposeKills(n)) \/ DisposeReaps \/ ExitProcess

Next ==
    \/ \E d \in Devices : Ensure(d)
    \/ \E n \in Launches :
          \/ Proceed(n) \/ Panic(n) \/ Listen(n)
          \/ ProcessDies(n) \/ ProcessCrashes(n) \/ RunFallback(n)
    \/ DisposeCollects \/ Dispose

Spec == Init /\ [][Next]_vars

\* Goroutines run on; a killed process dies (Exec kills it with SIGKILL).
Fairness ==
    /\ \A n \in Launches : WF_vars(Proceed(n)) /\ WF_vars(ProcessDies(n))
    /\ WF_vars(Dispose)

FairSpec == Spec /\ Fairness

-----------------------------------------------------------------------------
\* Two launches never provision one device at the same time, so the outcome of
\* a launch is never written over the entry of another (markReady and
\* markFailed find the entry by device id alone).
OneLaunchPerDevice ==
    \A m, n \in Launches :
        launch[m].pc \in Active /\ launch[n].pc \in Active /\ Dev(m) = Dev(n) => m = n

\* While the service lives, somebody can stop every xcodebuild process: its
\* launch is still waiting for it, or its device's entry holds its kill.  (A
\* retry after a failure replaces the entry.)
ProcessOwned ==
    \A n \in Launches : Alive /\ proc[n] = "running" =>
        launch[n].pc \in {"wait", "markReady"} \/ entry[Dev(n)].kill = n

\* Every launch comes to an end: no device stays "building".
AgentsSettle ==
    \A d \in Devices : entry[d].state = "building" ~>
        entry[d].state # "building" \/ dispose = "exited"

\* Shutdown waits for every process it kills and still returns: no kill waits
\* on an exit that its launch or an earlier kill received already.
DisposeReturns == dispose = "killing" ~> dispose = "exited"

\* A driver that its entry calls ready runs until its kill is called
\* (xctest_launcher.go: "the spawned driver process must keep running past this
\* call returning, and past ctx being canceled, until the returned kill
\* function stops it explicitly").
ReadyDriverRuns ==
    \A d \in Devices :
        entry[d].state = "ready" /\ entry[d].kill # 0 /\ dispose = "no" =>
            proc[entry[d].kill] = "running"
=============================================================================
