-------------------------- MODULE DeviceSelection ---------------------------
(***************************************************************************)
(* Device selection in the sidecar runtime: Session, deviceService and     *)
(* DriverFactory.Build, with the connect and disconnect paths of the       *)
(* Android driver (an adb forward on one host port) and of the iOS driver  *)
(* (an iproxy tunnel or a simulator's runner on another host port, then a  *)
(* TCP socket).  The transport dispatches every request line in its own    *)
(* goroutine, so any number of Select and Deselect calls overlap, and a    *)
(* handler keeps the selection it read for as long as it runs.             *)
(***************************************************************************)
EXTENDS Naturals, FiniteSets

CONSTANTS
    Android, Physical, Simulators,  \* the devices, by connect path
    Requests,       \* goroutines serving device.select and device.deselect
    Users,          \* handlers and runs that act on the selected device
    Provisioned,    \* Android devices whose agent the host asks to ensure
    MaxBuilds,      \* bound on the drivers the factory builds
    None

Devices == Android \cup Physical \cup Simulators
Drivers == 1..MaxBuilds

ASSUME DistinctDevices ==
    /\ None \notin Devices
    /\ Android \cap (Physical \cup Simulators) = {}
    /\ Physical \cap Simulators = {}
    /\ Provisioned \subseteq Android
ASSUME BuildBound == MaxBuilds \in Nat
ASSUME NoRequestIsNone == None \notin Requests

VARIABLES
    device,     \* Session.device: the driver of the installed selection, or 0
    selectMu,   \* the request that holds deviceService.selectMu, or None
    req,        \* request -> its position, its device and its driver
    driver,     \* driver -> the fields of its AndroidDriver or IosDriver
    built,      \* drivers the factory has built
    user,       \* user -> the driver it took from the session, or 0
    forward,    \* the device adb forwards the Android host port to, or None
    listener,   \* who listens on the iOS host port: device reached, process
    dying,      \* drivers whose iproxy was told to stop and still runs
    stopped,    \* the process ran its shutdown
    reliable    \* every agent that is reached completes its handshake

vars == <<device, selectMu, req, driver, built, user, forward, listener,
          dying, stopped, reliable>>
host == <<forward, listener, dying, reliable>>

NoListener == [to |-> None, by |-> 0]
\* by = 0 is the runner of a booted simulator, which listens on the host itself.
Listeners == [to : Devices \cup {None}, by : 0..MaxBuilds]
Positions == {"idle", "lock", "check", "disposeOutgoing", "disposeLast", "build",
              "forwards", "forward", "health", "probe", "spawn", "dial", "ping",
              "install"}

Idle == [pc |-> "idle", dev |-> None, drv |-> 0]
Unbuilt == [dev |-> None, connected |-> FALSE, owns |-> FALSE, sock |-> NoListener]

TypeOK ==
    /\ device \in 0..MaxBuilds
    /\ selectMu \in Requests \cup {None}
    /\ req \in [Requests -> [pc : Positions, dev : Devices \cup {None}, drv : 0..MaxBuilds]]
    /\ driver \in [Drivers -> [dev : Devices \cup {None}, connected : BOOLEAN,
                               owns : BOOLEAN, sock : Listeners]]
    /\ built \in 0..MaxBuilds
    /\ user \in [Users -> 0..MaxBuilds]
    /\ forward \in Android \cup {None}
    /\ listener \in Listeners
    /\ dying \subseteq Drivers
    /\ stopped \in BOOLEAN /\ reliable \in BOOLEAN

\* A forward may have been left by an operator or an earlier process.
Init ==
    /\ device = 0 /\ selectMu = None /\ built = 0
    /\ req = [r \in Requests |-> Idle]
    /\ driver = [k \in Drivers |-> Unbuilt]
    /\ user = [u \in Users |-> 0]
    /\ forward \in Android \cup {None}
    /\ listener = NoListener /\ dying = {} /\ stopped = FALSE
    /\ reliable \in BOOLEAN

-----------------------------------------------------------------------------
At(r, pc) == req[r].pc = pc
Goto(r, pc) == req' = [req EXCEPT ![r].pc = pc]
Return(r) == req' = [req EXCEPT ![r] = Idle] /\ selectMu' = None

IsAndroid(k) == driver[k].dev \in Android
\* Driver.IsConnected: Android remembers its handshake, iOS asks its socket.
IsConnected(k) ==
    IF IsAndroid(k) THEN driver[k].connected ELSE driver[k].sock # NoListener

\* Driver.Disconnect.  Stopping iproxy cancels its context and does not wait.
Disconnect(k) ==
    LET a == driver[k]
        removes == IsAndroid(k) /\ a.connected /\ a.owns /\ forward = a.dev
    IN  /\ driver' = [driver EXCEPT ![k] =
               IF IsAndroid(k) /\ ~a.connected THEN a ELSE [Unbuilt EXCEPT !.dev = a.dev]]
        /\ forward' = IF removes THEN None ELSE forward
        /\ dying' = IF ~IsAndroid(k) /\ a.owns /\ listener.by = k THEN dying \cup {k} ELSE dying

-----------------------------------------------------------------------------
(* deviceService: Select, Deselect, selectKnown.  Builds still to come are  *)
(* counted when a Select starts, so that MaxBuilds cuts no call short.      *)

Starting == {r \in Requests : req[r].dev # None /\
                req[r].pc \in {"lock", "check", "disposeOutgoing", "build"}}

Select(r, d) ==
    /\ ~stopped /\ At(r, "idle") /\ built + Cardinality(Starting) < MaxBuilds
    /\ req' = [req EXCEPT ![r] = [pc |-> "lock", dev |-> d, drv |-> 0]]
    /\ UNCHANGED <<device, selectMu, driver, built, user, host, stopped>>

Deselect(r) ==
    /\ ~stopped /\ At(r, "idle")
    /\ req' = [req EXCEPT ![r].pc = "lock"]
    /\ UNCHANGED <<device, selectMu, driver, built, user, host, stopped>>

\* Mutant: selectKnown runs without selectMu.
LockSelectUnguarded(r) ==
    /\ At(r, "lock")
    /\ selectMu' = r /\ Goto(r, "check")
    /\ UNCHANGED <<device, driver, built, user, host, stopped>>

LockSelect(r) ==
    /\ At(r, "lock") /\ selectMu = None
    /\ selectMu' = r /\ Goto(r, "check")
    /\ UNCHANGED <<device, driver, built, user, host, stopped>>

\* The device is selected already and its driver says it is connected.
SelectKnownFastPath(r) ==
    /\ At(r, "check") /\ device # 0
    /\ driver[device].dev = req[r].dev /\ IsConnected(device)
    /\ Return(r)
    /\ UNCHANGED <<device, driver, built, user, host, stopped>>

\* Mutant: the outgoing device is disposed by SetDevice after the build.
SelectKnownBuildsFirst(r) ==
    /\ At(r, "check") /\ device # 0
    /\ ~(driver[device].dev = req[r].dev /\ IsConnected(device))
    /\ IF req[r].dev = None
       THEN device' = 0 /\ req' = [req EXCEPT ![r].drv = device, ![r].pc = "disposeLast"]
       ELSE Goto(r, "build") /\ UNCHANGED device
    /\ UNCHANGED <<selectMu, driver, built, user, host, stopped>>

\* SetDevice(nil): swap under Session.mu, then dispose what was there.
SelectKnownClears(r) ==
    /\ At(r, "check") /\ device # 0
    /\ ~(driver[device].dev = req[r].dev /\ IsConnected(device))
    /\ device' = 0
    /\ req' = [req EXCEPT ![r].drv = device,
                          ![r].pc = IF req[r].dev = None THEN "disposeLast" ELSE "disposeOutgoing"]
    /\ UNCHANGED <<selectMu, driver, built, user, host, stopped>>

SelectKnownEmpty(r) ==
    /\ At(r, "check") /\ device = 0
    /\ IF req[r].dev = None THEN Return(r) ELSE Goto(r, "build") /\ UNCHANGED selectMu
    /\ UNCHANGED <<device, driver, built, user, host, stopped>>

Dispose(r) ==
    /\ req[r].pc \in {"disposeOutgoing", "disposeLast"}
    /\ Disconnect(req[r].drv)
    /\ IF At(r, "disposeLast") THEN Return(r)
       ELSE req' = [req EXCEPT ![r].pc = "build", ![r].drv = 0] /\ UNCHANGED selectMu
    /\ UNCHANGED <<device, built, user, listener, stopped, reliable>>

\* Session.SetDevice with a fresh selection; the loser is disposed after.
Install(r) ==
    LET k == req[r].drv
        redundant == device # 0 /\ driver[device].dev = driver[k].dev
        loser == IF redundant THEN k ELSE device
    IN  /\ At(r, "install")
        /\ device' = IF redundant THEN device ELSE k
        /\ IF loser = 0 THEN Return(r)
           ELSE /\ req' = [req EXCEPT ![r].pc = "disposeLast", ![r].drv = loser]
                /\ UNCHANGED selectMu
        /\ UNCHANGED <<driver, built, user, host, stopped>>

-----------------------------------------------------------------------------
(* DriverFactory.Build: a fresh driver, then its Connect.  A Connect that   *)
(* fails returns the error and nobody disconnects the driver.               *)

BuildDriver(r) ==
    /\ At(r, "build")
    /\ built' = built + 1
    /\ driver' = [driver EXCEPT ![built + 1].dev = req[r].dev]
    /\ req' = [req EXCEPT ![r].drv = built + 1,
           ![r].pc = CASE req[r].dev \in Android -> "forwards"
                       [] req[r].dev \in Physical -> "probe"
                       [] OTHER -> "dial"]
    /\ UNCHANGED <<device, selectMu, user, host, stopped>>

\* adb and iproxy may be missing, the context may be done, the device busy
\* with a foreign automation session: all before this driver holds anything.
ConnectRefused(r) ==
    /\ req[r].pc \in {"build", "forwards", "forward", "probe", "spawn"}
    /\ Return(r)
    /\ UNCHANGED <<device, driver, built, user, host, stopped>>

\* AndroidDriver.Connect: adb forward --list decides among free, mine, foreign.
ListForwards(r) ==
    /\ At(r, "forwards")
    /\ CASE forward = None -> Goto(r, "forward") /\ UNCHANGED selectMu
         [] forward = req[r].dev -> Goto(r, "health") /\ UNCHANGED selectMu
         [] OTHER -> Return(r)
    /\ UNCHANGED <<device, driver, built, user, host, stopped>>

CreateForward(r) ==
    /\ At(r, "forward")
    /\ forward' = req[r].dev
    /\ driver' = [driver EXCEPT ![req[r].drv].owns = TRUE]
    /\ Goto(r, "health")
    /\ UNCHANGED <<device, selectMu, built, user, listener, dying, stopped, reliable>>

Health(r) ==
    /\ At(r, "health")
    /\ driver' = [driver EXCEPT ![req[r].drv].connected = TRUE]
    /\ Goto(r, "install")
    /\ UNCHANGED <<device, selectMu, built, user, host, stopped>>

\* IosDriver.Connect: launchIproxy reuses any listener that answers a ping.
ProbePort(r) ==
    /\ At(r, "probe")
    /\ Goto(r, IF listener = NoListener THEN "spawn" ELSE "dial")
    /\ UNCHANGED <<device, selectMu, driver, built, user, host, stopped>>

\* The port may have been taken since the probe; readiness only asks whether
\* somebody listens, so the launch still counts as up.
SpawnIproxy(r) ==
    LET k == req[r].drv
    IN  /\ At(r, "spawn")
        /\ listener' = IF listener = NoListener THEN [to |-> req[r].dev, by |-> k] ELSE listener
        /\ driver' = [driver EXCEPT ![k].owns = TRUE]
        /\ Goto(r, "dial")
        /\ UNCHANGED <<device, selectMu, built, user, forward, dying, stopped, reliable>>

Dial(r) ==
    /\ At(r, "dial")
    /\ IF listener = NoListener
       THEN Return(r) /\ UNCHANGED driver
       ELSE /\ driver' = [driver EXCEPT ![req[r].drv].sock = listener]
            /\ Goto(r, "ping") /\ UNCHANGED selectMu
    /\ UNCHANGED <<device, built, user, host, stopped>>

Ping(r) ==
    /\ At(r, "ping")
    /\ IF driver[req[r].drv].sock = NoListener THEN Return(r)
       ELSE Goto(r, "install") /\ UNCHANGED selectMu
    /\ UNCHANGED <<device, driver, built, user, host, stopped>>

\* The agent was reached and does not complete the handshake.
HandshakeFailed(r) ==
    /\ ~reliable /\ req[r].pc \in {"health", "dial", "ping"}
    /\ Return(r)
    /\ UNCHANGED <<device, driver, built, user, host, stopped>>

-----------------------------------------------------------------------------
(* The rest of the process and of the host.                                 *)

\* A handler or a run reads the selection once and acts through it until done.
RequireDevice(u) ==
    /\ user[u] = 0 /\ device # 0 /\ user' = [user EXCEPT ![u] = device]
    /\ UNCHANGED <<device, selectMu, req, driver, built, host, stopped>>

Release(u) ==
    /\ user[u] # 0 /\ user' = [user EXCEPT ![u] = 0]
    /\ UNCHANGED <<device, selectMu, req, driver, built, host, stopped>>

\* main waits for every dispatched request, then calls Session.Dispose.
Shutdown ==
    /\ ~stopped /\ \A r \in Requests : At(r, "idle")
    /\ \A u \in Users : user[u] = 0
    /\ stopped' = TRUE /\ device' = 0
    /\ IF device # 0 THEN Disconnect(device) ELSE UNCHANGED <<driver, forward, dying>>
    /\ UNCHANGED <<selectMu, req, built, user, listener, reliable>>

\* AgentLauncher.EnsureRunning forwards the host port whoever holds it.
EnsureForward(d) ==
    /\ forward # d /\ forward' = d
    /\ UNCHANGED <<device, selectMu, req, driver, built, user, listener, dying, stopped, reliable>>

\* Sockets that went through the listener close with it.
Unlisten ==
    /\ listener' = NoListener /\ dying' = dying \ {listener.by}
    /\ driver' = [k \in Drivers |-> IF driver[k].sock = listener
                                    THEN [driver[k] EXCEPT !.sock = NoListener] ELSE driver[k]]
    /\ UNCHANGED <<device, selectMu, req, built, user, forward, stopped, reliable>>

\* Told to stop, unplugged, or killed by Exec.Run's fallback time-out, which
\* bounds every command whose context has no deadline.
IproxyExits == listener.by # 0 /\ Unlisten

RunnerStops == listener.to \in Simulators /\ Unlisten

RunnerStarts(s) ==
    /\ listener = NoListener /\ listener' = [to |-> s, by |-> 0]
    /\ UNCHANGED <<device, selectMu, req, driver, built, user, forward, dying, stopped, reliable>>

\* The agent closes one socket, or the socket breaks; before the handshake is
\* over that is one way for the handshake to fail.
SocketDrops(k) ==
    /\ driver[k].sock # NoListener
    /\ ~reliable \/ \A r \in Requests : ~(At(r, "ping") /\ req[r].drv = k)
    /\ driver' = [driver EXCEPT ![k].sock = NoListener]
    /\ UNCHANGED <<device, selectMu, req, built, user, host, stopped>>

-----------------------------------------------------------------------------
\* What the request does by itself once it holds selectMu.
Serve(r) ==
    \/ SelectKnownFastPath(r) \/ SelectKnownClears(r) \/ SelectKnownEmpty(r)
    \/ Dispose(r) \/ BuildDriver(r) \/ ListForwards(r) \/ CreateForward(r) \/ Health(r)
    \/ ProbePort(r) \/ SpawnIproxy(r) \/ Dial(r) \/ Ping(r) \/ Install(r)

Next ==
    \/ \E r \in Requests :
          \/ \E d \in Devices : Select(r, d)
          \/ Deselect(r) \/ LockSelect(r) \/ Serve(r)
          \/ ConnectRefused(r) \/ HandshakeFailed(r)
    \/ \E u \in Users : RequireDevice(u) \/ Release(u)
    \/ Shutdown \/ IproxyExits \/ RunnerStops
    \/ \E d \in Provisioned : EnsureForward(d)
    \/ \E s \in Simulators : RunnerStarts(s)
    \/ \E k \in Drivers : SocketDrops(k)

Spec == Init /\ [][Next]_vars

\* Every goroutine runs on, and Go's mutex hands over to a waiter that starves.
Fairness == \A r \in Requests : WF_vars(Serve(r)) /\ SF_vars(LockSelect(r))

FairSpec == Spec /\ Fairness

-----------------------------------------------------------------------------
\* The driver occupies its platform's control channel: an open socket or a
\* forward of its own, or a tunnel nobody told to stop.
Holds(k) ==
    \/ IsConnected(k)
    \/ IsAndroid(k) /\ driver[k].owns
    \/ listener.by = k /\ k \notin dying

\* No channel is left behind by an agent that answers: a driver that holds one is the selected driver or
\* is in the hands of the call that owns selectMu (device_service.go: without
\* the mutex "the losing call's live driver connection is never disposed").
NoChannelLeaks ==
    \A k \in Drivers : reliable /\ Holds(k) =>
        \/ k = device
        \/ \E r \in Requests : selectMu = r /\ req[r].drv = k

\* With agents that complete their handshake, selection implements the promise
\* of ControlChannel: every channel is opened while no other is open.
Channel == INSTANCE ControlChannel WITH holders <- {k \in Drivers : reliable /\ Holds(k)}
ImplementsChannel == Channel!Spec

\* The device a command sent through driver k arrives at.
Reaches(k) == IF IsAndroid(k) THEN forward ELSE driver[k].sock.to

\* Whoever acts through a driver acts on the device that driver was built for,
\* or on none: nobody takes the host port of a session in use (AndroidDriver's
\* Connect refuses to: "Silently replacing it could sever a session").
DriverReachesOwnDevice ==
    \A u \in Users : user[u] # 0 => Reaches(user[u]) \in {None, driver[user[u]].dev}

=============================================================================
