----------------------- MODULE DeviceSelection_proofs ------------------------
(***************************************************************************)
(* Device selection is type correct, leaves no control channel behind when *)
(* agents complete their handshake, and implements ControlChannel: for any *)
(* devices, any number of requests and any bound on the drivers built.     *)
(***************************************************************************)
EXTENDS DeviceSelection, FiniteSetTheorems, TLAPS

-----------------------------------------------------------------------------
(* The inductive invariant.                                                 *)

Waits == {"idle", "lock"}
EmptyHanded == {"idle", "lock", "check", "build"}
Disposing == {"disposeOutgoing", "disposeLast"}
AndroidConnect == {"forwards", "forward", "health"}
IosConnect == {"probe", "spawn", "dial", "ping"}
Connecting == AndroidConnect \cup IosConnect \cup {"install"}
\* Positions at which the driver that is being built has no channel yet.
Untouched == {"forwards", "forward", "probe", "spawn"}

\* A request serves exactly while it holds selectMu, and an idle one keeps nothing.
MutexHeld ==
    \A r \in Requests : /\ req[r].pc \notin Waits <=> selectMu = r
                        /\ req[r].pc = "idle" => req[r] = Idle

\* From the outgoing device's removal to the installation of the new one the
\* session has no device.
SessionEmpty ==
    \A r \in Requests : req[r].pc \notin Waits \cup {"check"} => device = 0

\* A request has a driver in hand exactly at the positions that work on one.
Hands ==
    \A r \in Requests :
        /\ req[r].pc \in EmptyHanded <=> req[r].drv = 0
        /\ req[r].pc \in Connecting \cup {"disposeOutgoing", "build"} => req[r].dev # None

\* The driver at work is built for the device the request names, of the kind
\* whose connect path it is on.
RightPath ==
    \A r \in Requests :
        /\ req[r].pc \in Connecting => driver[req[r].drv].dev = req[r].dev
        /\ req[r].pc \in AndroidConnect => req[r].dev \in Android
        /\ req[r].pc \in IosConnect => req[r].dev \notin Android

\* A driver not yet built is blank, and nobody has or serves it.
Unmade ==
    /\ device \in 0..built /\ listener.by \in 0..built
    /\ \A r \in Requests : req[r].drv \in 0..built
    /\ \A k \in Drivers \ 1..built : driver[k] = Unbuilt

\* A driver at the beginning of its Connect holds nothing.
NothingYet ==
    \A r \in Requests :
        /\ req[r].pc \in Untouched =>
              /\ ~driver[req[r].drv].connected /\ ~driver[req[r].drv].owns
              /\ driver[req[r].drv].sock = NoListener
              /\ listener.by # req[r].drv
        /\ req[r].pc = "dial" => driver[req[r].drv].sock = NoListener

\* An Android driver that finished its Connect says so, or Disconnect would skip it.
Finished(k) == IsAndroid(k) => driver[k].connected
Settled ==
    /\ device # 0 => Finished(device)
    /\ \A r \in Requests : req[r].pc \in Disposing \cup {"install"} => Finished(req[r].drv)

\* A tunnel has an iOS driver that will stop it, or has been told to stop.
TunnelOwned ==
    \A k \in Drivers : listener.by = k => ~IsAndroid(k) /\ (driver[k].owns \/ k \in dying)

\* A handshake that finds its socket closed has no tunnel left either.
PingWatched ==
    reliable => \A r \in Requests :
        req[r].pc = "ping" /\ listener.by = req[r].drv => driver[req[r].drv].sock # NoListener

\* The builds to come fit the bound.
BuildsFit == IsFiniteSet(Starting) /\ built + Cardinality(Starting) <= MaxBuilds

IInv ==
    /\ TypeOK /\ MutexHeld /\ SessionEmpty /\ Hands /\ RightPath /\ Unmade
    /\ NothingYet /\ Settled /\ TunnelOwned /\ PingWatched /\ BuildsFit
    /\ NoChannelLeaks

USE DEF Drivers, At, host, Waits, EmptyHanded, Disposing, AndroidConnect, IosConnect,
        Connecting, Untouched

-----------------------------------------------------------------------------
(* What the record updates of the actions do.                               *)

RequestType == [pc : Positions, dev : Devices \cup {None}, drv : 0..MaxBuilds]
DriverType == [dev : Devices \cup {None}, connected : BOOLEAN, owns : BOOLEAN, sock : Listeners]

\* Only r's record changes, and becomes e.
Becomes(r, e) ==
    /\ req' \in [Requests -> RequestType]
    /\ req'[r] = e
    /\ \A q \in Requests : q # r => req'[q] = req[q]

\* Only driver k's record changes, and becomes a.
DriverBecomes(k, a) ==
    /\ driver' \in [Drivers -> DriverType]
    /\ driver'[k] = a
    /\ \A j \in Drivers : j # k => driver'[j] = driver[j]

LEMMA ReturnEffect ==
    ASSUME TypeOK, NEW r \in Requests, Return(r)
    PROVE  Becomes(r, Idle) /\ selectMu' = None
  BY BuildBound DEF TypeOK, Return, Becomes, RequestType, Idle, Positions

LEMMA GotoEffect ==
    ASSUME TypeOK, NEW r \in Requests, NEW pc \in Positions, Goto(r, pc)
    PROVE  Becomes(r, [pc |-> pc, dev |-> req[r].dev, drv |-> req[r].drv])
  BY DEF TypeOK, Goto, Becomes, RequestType

LEMMA DriverFields ==
    ASSUME TypeOK, NEW k \in Drivers
    PROVE  driver[k] = [dev |-> driver[k].dev, connected |-> driver[k].connected,
                        owns |-> driver[k].owns, sock |-> driver[k].sock]
  BY DEF TypeOK

\* What is in hand is a driver.
LEMMA InHand ==
    ASSUME TypeOK, Hands
    PROVE  /\ \A r \in Requests : req[r].pc \in Connecting \cup Disposing => req[r].drv \in Drivers
           /\ device # 0 => device \in Drivers
<1>1. \A k \in 0..MaxBuilds : k # 0 => k \in Drivers
  BY BuildBound
<1>2. \A r \in Requests : req[r].drv \in 0..MaxBuilds
  BY DEF TypeOK
<1>3. \A r \in Requests : req[r].pc \in Connecting \cup Disposing => req[r].drv # 0
  BY DEF Hands
<1> QED  BY <1>1, <1>2, <1>3 DEF TypeOK

\* No channel is opened in this step.
NothingOpens == \A k \in Drivers : Holds(k)' => Holds(k)

-----------------------------------------------------------------------------
(* The builds to come.                                                      *)

\* A request that leaves Starting, or stays, makes no room scarcer.
LEMMA StartingShrinks ==
    ASSUME TypeOK, BuildsFit, built' = built, Starting' \subseteq Starting
    PROVE  BuildsFit'
<1>1. IsFiniteSet(Starting') /\ Cardinality(Starting') <= Cardinality(Starting)
  BY FS_Subset DEF BuildsFit
<1>2. Cardinality(Starting) \in Nat /\ Cardinality(Starting') \in Nat
  BY <1>1, FS_CardinalityType DEF BuildsFit
<1> QED  BY <1>1, <1>2, BuildBound DEF TypeOK, BuildsFit

\* A request that builds its driver was counted, and no longer is.
LEMMA StartingBuilds ==
    ASSUME TypeOK, BuildsFit, NEW r \in Starting, built' = built + 1, Starting' = Starting \ {r}
    PROVE  BuildsFit' /\ built' <= MaxBuilds
<1>1. /\ IsFiniteSet(Starting')
      /\ Cardinality(Starting') = Cardinality(Starting) - 1
  BY FS_RemoveElement DEF BuildsFit
<1>2. Cardinality(Starting) \in Nat /\ Cardinality(Starting') \in Nat
  BY <1>1, FS_CardinalityType DEF BuildsFit
<1> QED  BY <1>1, <1>2, BuildBound DEF TypeOK, BuildsFit

\* Select counts the request it starts.
LEMMA StartingGrows ==
    ASSUME TypeOK, BuildsFit, NEW r, built' = built, Starting' = Starting \cup {r},
           built + Cardinality(Starting) < MaxBuilds
    PROVE  BuildsFit'
<1>1. /\ IsFiniteSet(Starting')
      /\ Cardinality(Starting') \in {Cardinality(Starting), Cardinality(Starting) + 1}
  BY FS_AddElement DEF BuildsFit
<1>2. Cardinality(Starting) \in Nat /\ Cardinality(Starting') \in Nat
  BY <1>1, FS_CardinalityType DEF BuildsFit
<1> QED  BY <1>1, <1>2, BuildBound DEF TypeOK, BuildsFit

-----------------------------------------------------------------------------
(* A request that gives up selectMu, or only moves on.                      *)

\* Returning keeps the invariant if no channel was in the request's hands.
LEMMA ReturnPreserves ==
    ASSUME IInv, NEW r \in Requests, Return(r), selectMu = r,
           UNCHANGED <<device, driver, built, user, host, stopped>>,
           reliable /\ req[r].drv # 0 => ~Holds(req[r].drv)
    PROVE  IInv'
<1>1. Becomes(r, Idle) /\ selectMu' = None
  BY ReturnEffect DEF IInv
<1>2. TypeOK'
  BY <1>1 DEF IInv, TypeOK, Becomes, RequestType
<1>3. MutexHeld' /\ SessionEmpty' /\ Hands'
  BY <1>1, NoRequestIsNone DEF IInv, MutexHeld, SessionEmpty, Hands, Becomes, Idle
<1>4. RightPath' /\ Unmade'
  <2>1. RightPath'
    BY <1>1 DEF IInv, RightPath, Becomes, Idle
  <2>2. Unmade'
    BY <1>1, BuildBound DEF IInv, TypeOK, Unmade, Becomes, Idle
  <2> QED  BY <2>1, <2>2
<1>5. NothingYet' /\ Settled'
  BY <1>1 DEF IInv, NothingYet, Settled, Finished, IsAndroid, Becomes, Idle
<1>6. TunnelOwned' /\ PingWatched'
  BY <1>1 DEF IInv, TunnelOwned, PingWatched, IsAndroid, Becomes, Idle
<1>7. BuildsFit'
  <2>1. Starting' \subseteq Starting
    BY <1>1 DEF Starting, Becomes, Idle
  <2> QED  BY <2>1, StartingShrinks DEF IInv
<1>8. NoChannelLeaks'
  BY <1>1 DEF IInv, NoChannelLeaks, Holds, IsConnected, IsAndroid
<1> QED  BY <1>2, <1>3, <1>4, <1>5, <1>6, <1>7, <1>8 DEF IInv

\* Moving on with what it has keeps the invariant if the new position suits it.
LEMMA GotoPreserves ==
    ASSUME IInv, NEW r \in Requests, NEW pc \in Positions \ Waits, Goto(r, pc), selectMu = r,
           UNCHANGED <<device, selectMu, driver, built, user, host, stopped>>,
           pc # "check" => device = 0,
           pc \in EmptyHanded <=> req[r].drv = 0,
           pc \in Connecting \cup {"disposeOutgoing", "build"} => req[r].dev # None,
           pc \in Connecting => driver[req[r].drv].dev = req[r].dev,
           pc \in AndroidConnect => req[r].dev \in Android,
           pc \in IosConnect => req[r].dev \notin Android,
           pc \in Untouched => req[r].pc \in Untouched,
           pc = "dial" => driver[req[r].drv].sock = NoListener,
           pc \in Disposing \cup {"install"} => Finished(req[r].drv),
           pc # "ping",
           pc \in {"lock", "check", "disposeOutgoing", "build"} =>
               req[r].pc \in {"lock", "check", "disposeOutgoing", "build"}
    PROVE  IInv'
<1>1. Becomes(r, [pc |-> pc, dev |-> req[r].dev, drv |-> req[r].drv])
  BY GotoEffect DEF IInv
<1>2. TypeOK'
  BY <1>1 DEF IInv, TypeOK, Becomes, RequestType
<1>3. MutexHeld' /\ SessionEmpty' /\ Hands'
  BY <1>1 DEF IInv, MutexHeld, SessionEmpty, Hands, Becomes
<1>4. RightPath' /\ Unmade'
  <2>1. RightPath'
    BY <1>1 DEF IInv, RightPath, Becomes
  <2>2. \A q \in Requests : req'[q].drv = req[q].drv
    BY <1>1 DEF Becomes
  <2>3. Unmade'
    BY <2>2 DEF IInv, Unmade
  <2> QED  BY <2>1, <2>3
<1>5. NothingYet' /\ Settled'
  BY <1>1 DEF IInv, NothingYet, Settled, Finished, IsAndroid, Becomes
<1>6. TunnelOwned' /\ PingWatched'
  BY <1>1 DEF IInv, TunnelOwned, PingWatched, IsAndroid, Becomes
<1>7. BuildsFit'
  <2>1. Starting' \subseteq Starting
    BY <1>1 DEF Starting, Becomes
  <2> QED  BY <2>1, StartingShrinks DEF IInv
<1>8. NoChannelLeaks'
  BY <1>1 DEF IInv, NoChannelLeaks, Holds, IsConnected, IsAndroid, Becomes
<1> QED  BY <1>2, <1>3, <1>4, <1>5, <1>6, <1>7, <1>8 DEF IInv
-----------------------------------------------------------------------------
(* The service positions that change no driver.                             *)

\* A driver at the beginning of its Connect holds no channel.
LEMMA UntouchedHoldsNothing ==
    ASSUME IInv, NEW r \in Requests, req[r].pc \in Untouched
    PROVE  ~Holds(req[r].drv)
  BY DEF IInv, NothingYet, Holds, IsConnected

LEMMA EarlyReturnPreserves ==
    ASSUME IInv, NEW r \in Requests,
           SelectKnownFastPath(r) \/ ConnectRefused(r) \/ HandshakeFailed(r)
    PROVE  IInv'
<1>1. /\ Return(r) /\ req[r].pc \notin Waits
      /\ UNCHANGED <<device, driver, built, user, host, stopped>>
  BY DEF SelectKnownFastPath, ConnectRefused, HandshakeFailed
<1>2. selectMu = r
  BY <1>1 DEF IInv, MutexHeld
<1>3. reliable /\ req[r].drv # 0 => req[r].pc \in Untouched
  BY DEF IInv, Hands, SelectKnownFastPath, ConnectRefused, HandshakeFailed
<1> QED  BY <1>1, <1>2, <1>3, UntouchedHoldsNothing, ReturnPreserves

LEMMA SelectKnownEmptyPreserves ==
    ASSUME IInv, NEW r \in Requests, SelectKnownEmpty(r)
    PROVE  IInv'
<1>1. /\ At(r, "check") /\ device = 0 /\ req[r].drv = 0 /\ selectMu = r
      /\ UNCHANGED <<device, driver, built, user, host, stopped>>
  BY DEF IInv, MutexHeld, Hands, SelectKnownEmpty
<1>2. CASE req[r].dev = None
  BY <1>1, <1>2, ReturnPreserves DEF SelectKnownEmpty
<1>3. CASE req[r].dev # None
  <2>1. Goto(r, "build") /\ UNCHANGED selectMu
    BY <1>3 DEF SelectKnownEmpty
  <2> QED  BY <1>1, <1>3, <2>1, GotoPreserves DEF Positions
<1> QED  BY <1>2, <1>3

LEMMA ListForwardsPreserves ==
    ASSUME IInv, NEW r \in Requests, ListForwards(r)
    PROVE  IInv'
<1>1. /\ At(r, "forwards") /\ device = 0 /\ req[r].drv # 0 /\ selectMu = r
      /\ req[r].dev \in Android /\ driver[req[r].drv].dev = req[r].dev
      /\ UNCHANGED <<device, driver, built, user, host, stopped>>
  BY DEF IInv, MutexHeld, SessionEmpty, Hands, RightPath, ListForwards
<1>2. PICK pc \in {"forward", "health", "none"} :
         IF pc = "none" THEN Return(r) ELSE Goto(r, pc) /\ UNCHANGED selectMu
  BY DEF ListForwards
<1>3. CASE pc = "none"
  BY <1>1, <1>2, <1>3, UntouchedHoldsNothing, ReturnPreserves
<1>4. CASE pc # "none"
  <2>1. pc \in Positions \ Waits
    BY <1>4 DEF Positions
  <2> QED  BY <1>1, <1>2, <1>4, <2>1, DistinctDevices, GotoPreserves DEF Devices
<1> QED  BY <1>3, <1>4

LEMMA ProbePortPreserves ==
    ASSUME IInv, NEW r \in Requests, ProbePort(r)
    PROVE  IInv'
<1>1. PICK pc \in {"spawn", "dial"} : Goto(r, pc)
  BY DEF ProbePort
<1>2. /\ At(r, "probe") /\ device = 0 /\ req[r].drv # 0 /\ selectMu = r
      /\ req[r].dev \notin Android \cup {None} /\ driver[req[r].drv].dev = req[r].dev
      /\ driver[req[r].drv].sock = NoListener
      /\ UNCHANGED <<device, selectMu, driver, built, user, host, stopped>>
  BY DEF IInv, MutexHeld, SessionEmpty, Hands, RightPath, NothingYet, ProbePort
<1>3. pc \in Positions \ Waits
  BY DEF Positions
<1> QED  BY <1>1, <1>2, <1>3, GotoPreserves

\* A closed socket at the handshake leaves no channel: its tunnel went with it.
LEMMA PingPreserves ==
    ASSUME IInv, NEW r \in Requests, Ping(r)
    PROVE  IInv'
<1>1. /\ At(r, "ping") /\ device = 0 /\ req[r].drv # 0 /\ selectMu = r
      /\ req[r].dev \notin Android \cup {None} /\ driver[req[r].drv].dev = req[r].dev
      /\ UNCHANGED <<device, driver, built, user, host, stopped>>
  BY DEF IInv, MutexHeld, SessionEmpty, Hands, RightPath, Ping
<1>2. CASE driver[req[r].drv].sock = NoListener
  <2>1. Return(r)
    BY <1>2 DEF Ping
  <2>2. reliable => ~Holds(req[r].drv)
    BY <1>1, <1>2 DEF IInv, PingWatched, Holds, IsConnected, IsAndroid
  <2> QED  BY <1>1, <2>1, <2>2, ReturnPreserves
<1>3. CASE driver[req[r].drv].sock # NoListener
  <2>1. Goto(r, "install") /\ UNCHANGED selectMu
    BY <1>3 DEF Ping
  <2>2. Finished(req[r].drv)
    BY <1>1 DEF Finished, IsAndroid
  <2> QED  BY <1>1, <2>1, <2>2, GotoPreserves DEF Positions
<1> QED  BY <1>2, <1>3
-----------------------------------------------------------------------------
(* Requests come and go, and the session's device with them.                *)

LEMMA SelectPreserves ==
    ASSUME IInv, NEW r \in Requests, NEW d \in Devices, Select(r, d)
    PROVE  IInv'
<1>1. /\ Becomes(r, [pc |-> "lock", dev |-> d, drv |-> 0])
      /\ At(r, "idle") /\ built + Cardinality(Starting) < MaxBuilds
      /\ UNCHANGED <<device, selectMu, driver, built, user, host, stopped>>
  BY BuildBound DEF IInv, TypeOK, Select, Becomes, RequestType, Positions
<1>2. TypeOK'
  BY <1>1 DEF IInv, TypeOK, Becomes, RequestType
<1>3. MutexHeld' /\ SessionEmpty' /\ Hands'
  BY <1>1 DEF IInv, MutexHeld, SessionEmpty, Hands, Becomes
<1>4. RightPath' /\ Unmade'
  <2>1. RightPath'
    BY <1>1 DEF IInv, RightPath, Becomes
  <2>2. 0 \in 0..built
    BY BuildBound DEF IInv, TypeOK
  <2>3. Unmade'
    BY <1>1, <2>2 DEF IInv, Unmade, Becomes
  <2> QED  BY <2>1, <2>3
<1>5. NothingYet' /\ Settled'
  BY <1>1 DEF IInv, NothingYet, Settled, Finished, IsAndroid, Becomes
<1>6. TunnelOwned' /\ PingWatched'
  BY <1>1 DEF IInv, TunnelOwned, PingWatched, IsAndroid, Becomes
<1>7. BuildsFit'
  <2>1. Starting' = Starting \cup {r}
    BY <1>1, DistinctDevices DEF Starting, Becomes
  <2> QED  BY <1>1, <2>1, StartingGrows DEF IInv
<1>8. NoChannelLeaks'
  <2>1. req[r].drv = 0 /\ 0 \notin Drivers
    BY <1>1, BuildBound DEF IInv, Hands
  <2> QED  BY <1>1, <2>1 DEF IInv, NoChannelLeaks, Holds, IsConnected, IsAndroid, Becomes
<1> QED  BY <1>2, <1>3, <1>4, <1>5, <1>6, <1>7, <1>8 DEF IInv

\* A Deselect arrives or a request takes the mutex: no driver is touched.
LEMMA ArrivalPreserves ==
    ASSUME IInv, NEW r \in Requests, Deselect(r) \/ LockSelect(r)
    PROVE  IInv'
<1>1. PICK pc \in {"lock", "check"} :
         /\ Becomes(r, [pc |-> pc, dev |-> req[r].dev, drv |-> req[r].drv])
         /\ selectMu' = IF pc = "check" THEN r ELSE selectMu
         /\ pc = "check" => selectMu = None
         /\ IF pc = "lock" THEN At(r, "idle") ELSE At(r, "lock")
  <2>1. CASE Deselect(r)
    <3>1. Goto(r, "lock") /\ "lock" \in Positions
      BY <2>1 DEF Deselect, Goto, Positions
    <3> QED  BY <2>1, <3>1, GotoEffect DEF IInv, Deselect
  <2>2. CASE LockSelect(r)
    <3>1. Goto(r, "check") /\ "check" \in Positions
      BY <2>2 DEF LockSelect, Positions
    <3> QED  BY <2>2, <3>1, GotoEffect DEF IInv, LockSelect
  <2> QED  BY <2>1, <2>2
<1>2. UNCHANGED <<device, driver, built, user, host, stopped>>
  BY DEF Deselect, LockSelect
<1>3. req[r].drv = 0 /\ 0 \notin Drivers
  BY <1>1, BuildBound DEF IInv, Hands
<1>4. TypeOK'
  BY <1>1, <1>2 DEF IInv, TypeOK, Becomes, RequestType
<1>5. MutexHeld' /\ SessionEmpty' /\ Hands'
  BY <1>1, <1>2, <1>3, NoRequestIsNone DEF IInv, MutexHeld, SessionEmpty, Hands, Becomes, Idle
<1>6. RightPath' /\ Unmade'
  <2>1. RightPath'
    BY <1>1, <1>2 DEF IInv, RightPath, Becomes
  <2>2. \A q \in Requests : req'[q].drv = req[q].drv
    BY <1>1 DEF Becomes
  <2>3. Unmade'
    BY <1>2, <2>2 DEF IInv, Unmade
  <2> QED  BY <2>1, <2>3
<1>7. NothingYet' /\ Settled'
  BY <1>1, <1>2 DEF IInv, NothingYet, Settled, Finished, IsAndroid, Becomes
<1>8. TunnelOwned' /\ PingWatched'
  BY <1>1, <1>2 DEF IInv, TunnelOwned, PingWatched, IsAndroid, Becomes
<1>9. BuildsFit'
  <2>1. Starting' \subseteq Starting
    BY <1>1 DEF IInv, MutexHeld, Starting, Becomes, Idle
  <2> QED  BY <1>2, <2>1, StartingShrinks DEF IInv
<1>10. NoChannelLeaks'
  BY <1>1, <1>2, <1>3, NoRequestIsNone
  DEF IInv, NoChannelLeaks, Holds, IsConnected, IsAndroid, Becomes
<1> QED  BY <1>4, <1>5, <1>6, <1>7, <1>8, <1>9, <1>10 DEF IInv

\* The outgoing driver passes from the session to the hands of the request.
LEMMA SelectKnownClearsPreserves ==
    ASSUME IInv, NEW r \in Requests, SelectKnownClears(r)
    PROVE  IInv'
<1>1. PICK pc \in Disposing :
         /\ Becomes(r, [pc |-> pc, dev |-> req[r].dev, drv |-> device])
         /\ pc = "disposeOutgoing" => req[r].dev # None
  BY DEF IInv, TypeOK, SelectKnownClears, Becomes, RequestType, Positions
<1>2. /\ At(r, "check") /\ device # 0 /\ device' = 0 /\ selectMu = r
      /\ UNCHANGED <<selectMu, driver, built, user, host, stopped>>
  BY DEF IInv, MutexHeld, SelectKnownClears
<1>3. TypeOK'
  BY <1>1, <1>2, BuildBound DEF IInv, TypeOK, Becomes, RequestType
<1>4. MutexHeld' /\ SessionEmpty' /\ Hands'
  BY <1>1, <1>2 DEF IInv, MutexHeld, SessionEmpty, Hands, Becomes
<1>5. RightPath' /\ Unmade'
  <2>1. RightPath'
    BY <1>1, <1>2 DEF IInv, RightPath, Becomes
  <2>2. 0 \in 0..built
    BY BuildBound DEF IInv, TypeOK
  <2>3. Unmade'
    BY <1>1, <1>2, <2>2 DEF IInv, Unmade, Becomes
  <2> QED  BY <2>1, <2>3
<1>6. NothingYet' /\ Settled'
  BY <1>1, <1>2 DEF IInv, NothingYet, Settled, Finished, IsAndroid, Becomes
<1>7. TunnelOwned' /\ PingWatched'
  BY <1>1, <1>2 DEF IInv, TunnelOwned, PingWatched, IsAndroid, Becomes
<1>8. BuildsFit'
  <2>1. Starting' \subseteq Starting
    BY <1>1, <1>2 DEF Starting, Becomes
  <2> QED  BY <1>2, <2>1, StartingShrinks DEF IInv
<1>9. NoChannelLeaks'
  <2>1. req[r].drv = 0 /\ 0 \notin Drivers
    BY <1>2, BuildBound DEF IInv, Hands
  <2> QED  BY <1>1, <1>2, <2>1
           DEF IInv, NoChannelLeaks, Holds, IsConnected, IsAndroid, Becomes
<1> QED  BY <1>3, <1>4, <1>5, <1>6, <1>7, <1>8, <1>9 DEF IInv

\* The session was empty, so that no other driver loses its place.
LEMMA InstallPreserves ==
    ASSUME IInv, NEW r \in Requests, Install(r)
    PROVE  IInv'
<1>1. /\ device = 0 /\ device' = req[r].drv /\ req[r].drv # 0 /\ Return(r)
      /\ Finished(req[r].drv) /\ At(r, "install") /\ selectMu = r
      /\ UNCHANGED <<driver, built, user, host, stopped>>
  BY DEF IInv, MutexHeld, SessionEmpty, Hands, Settled, Install
<1>2. Becomes(r, Idle) /\ selectMu' = None
  BY <1>1, ReturnEffect DEF IInv
<1>3. TypeOK'
  BY <1>1, <1>2 DEF IInv, TypeOK, Becomes, RequestType
<1>4. MutexHeld' /\ SessionEmpty' /\ Hands'
  <2>1. \A q \in Requests : q # r => req[q].pc \in Waits
    BY <1>1 DEF IInv, MutexHeld
  <2> QED  BY <1>1, <1>2, <2>1, NoRequestIsNone
           DEF IInv, MutexHeld, SessionEmpty, Hands, Becomes, Idle
<1>5. RightPath' /\ Unmade'
  <2>1. RightPath'
    BY <1>1, <1>2 DEF IInv, RightPath, Becomes, Idle
  <2>2. 0 \in 0..built
    BY BuildBound DEF IInv, TypeOK
  <2>3. Unmade'
    BY <1>1, <1>2, <2>2 DEF IInv, Unmade, Becomes, Idle
  <2> QED  BY <2>1, <2>3
<1>6. NothingYet' /\ Settled'
  BY <1>1, <1>2 DEF IInv, NothingYet, Settled, Finished, IsAndroid, Becomes, Idle
<1>7. TunnelOwned' /\ PingWatched'
  BY <1>1, <1>2 DEF IInv, TunnelOwned, PingWatched, IsAndroid, Becomes, Idle
<1>8. BuildsFit'
  <2>1. Starting' \subseteq Starting
    BY <1>2 DEF Starting, Becomes, Idle
  <2> QED  BY <1>1, <2>1, StartingShrinks DEF IInv
<1>9. NoChannelLeaks'
  BY <1>1 DEF IInv, NoChannelLeaks, Holds, IsConnected, IsAndroid
<1> QED  BY <1>3, <1>4, <1>5, <1>6, <1>7, <1>8, <1>9 DEF IInv
-----------------------------------------------------------------------------
(* Building a driver and connecting it.                                     *)

LEMMA BuildDriverPreserves ==
    ASSUME IInv, NEW r \in Requests, BuildDriver(r)
    PROVE  IInv' /\ NothingOpens
<1>1. /\ At(r, "build") /\ device = 0 /\ req[r].drv = 0 /\ selectMu = r
      /\ req[r].dev \in Devices /\ r \in Starting
      /\ built' = built + 1 /\ UNCHANGED <<device, selectMu, user, host, stopped>>
  BY DEF IInv, TypeOK, MutexHeld, SessionEmpty, Hands, BuildDriver, Starting
<1>2. PICK pc \in {"forwards", "probe", "dial"} :
         /\ req' = [req EXCEPT ![r] = [pc |-> pc, dev |-> req[r].dev, drv |-> built + 1]]
         /\ pc = "forwards" <=> req[r].dev \in Android
  BY DistinctDevices DEF IInv, TypeOK, BuildDriver, Devices
<1>3. /\ Starting' = Starting \ {r}
      /\ \A q \in Requests : q # r => req'[q] = req[q]
  BY <1>1, <1>2 DEF IInv, TypeOK, Starting
<1>4. BuildsFit' /\ built' <= MaxBuilds
  BY <1>1, <1>3, StartingBuilds DEF IInv
<1>5. built + 1 \in Drivers /\ built \in Nat
  BY <1>1, <1>4, BuildBound DEF IInv, TypeOK
<1>6. Becomes(r, [pc |-> pc, dev |-> req[r].dev, drv |-> built + 1])
  BY <1>2, <1>3, <1>5 DEF IInv, TypeOK, Becomes, RequestType, Positions
<1>7. DriverBecomes(built + 1, [Unbuilt EXCEPT !.dev = req[r].dev])
  <2>1. driver[built + 1] = Unbuilt
    BY <1>5 DEF IInv, Unmade
  <2>2. driver' = [driver EXCEPT ![built + 1] = [Unbuilt EXCEPT !.dev = req[r].dev]]
    BY <2>1, <1>5 DEF IInv, TypeOK, BuildDriver
  <2> QED  BY <1>1, <1>5, <2>2, BuildBound
           DEF IInv, TypeOK, DriverBecomes, DriverType, Unbuilt, NoListener, Listeners
<1>8. listener.by # built + 1 /\ device # built + 1 /\ \A q \in Requests : req[q].drv # built + 1
  BY <1>5 DEF IInv, Unmade
<1>9. TypeOK'
  BY <1>1, <1>4, <1>5, <1>6, <1>7 DEF IInv, TypeOK, Becomes, DriverBecomes, RequestType, DriverType
<1>10. MutexHeld' /\ SessionEmpty' /\ Hands'
  BY <1>1, <1>5, <1>6, DistinctDevices DEF IInv, MutexHeld, SessionEmpty, Hands, Becomes
<1>11. RightPath'
  BY <1>2, <1>6, <1>7, <1>8, <1>1, <1>5 DEF IInv, MutexHeld, RightPath, Becomes, DriverBecomes, Unbuilt
<1>12. Unmade'
  <2>1. 0..built \subseteq 0..(built + 1) /\ built + 1 \in 0..(built + 1)
    BY <1>5
  <2>2. \A q \in Requests : req'[q].drv \in 0..(built + 1)
    BY <1>6, <2>1 DEF IInv, Unmade, Becomes
  <2>3. \A k \in Drivers \ 1..(built + 1) : driver'[k] = Unbuilt
    BY <1>5, <1>7 DEF IInv, Unmade, DriverBecomes
  <2> QED  BY <1>1, <2>1, <2>2, <2>3 DEF IInv, Unmade
<1>13. NothingYet' /\ Settled'
  BY <1>1, <1>6, <1>7, <1>8
  DEF IInv, MutexHeld, NothingYet, Settled, Finished, IsAndroid, Becomes, DriverBecomes, Unbuilt
<1>14. TunnelOwned' /\ PingWatched'
  BY <1>1, <1>6, <1>7, <1>8
  DEF IInv, MutexHeld, TunnelOwned, PingWatched, IsAndroid, Becomes, DriverBecomes, Unbuilt
<1>15. NothingOpens
  BY <1>1, <1>5, <1>7, <1>8
  DEF NothingOpens, Holds, IsConnected, IsAndroid, DriverBecomes, Unbuilt
<1>16. NoChannelLeaks'
  BY <1>1, <1>6, <1>15, BuildBound DEF IInv, NoChannelLeaks, NothingOpens, Becomes
<1> QED  BY <1>4, <1>9, <1>10, <1>11, <1>12, <1>13, <1>14, <1>15, <1>16 DEF IInv

\* A step of Connect: the driver in hand takes what the step gave it, and only
\* the forward and the listener may change with it, the listener into its own.
LEMMA ConnectPreserves ==
    ASSUME IInv, NEW r \in Requests, NEW pc \in Connecting \ Untouched, Goto(r, pc),
           req[r].pc \in Connecting \ {"install"},
           NEW a \in DriverType, DriverBecomes(req[r].drv, a), a.dev = req[r].dev,
           listener' \in Listeners, forward' \in Android \cup {None},
           UNCHANGED <<device, selectMu, built, user, dying, stopped, reliable>>,
           listener' = listener \/ listener'.by = req[r].drv,
           listener'.by = req[r].drv =>
               req[r].dev \notin Android /\ (a.owns \/ req[r].drv \in dying),
           pc \in AndroidConnect => req[r].dev \in Android,
           pc \in IosConnect => req[r].dev \notin Android,
           pc = "dial" => a.sock = NoListener,
           pc = "ping" => a.sock # NoListener,
           pc = "install" => (req[r].dev \in Android => a.connected)
    PROVE  IInv'
<1>1. Becomes(r, [pc |-> pc, dev |-> req[r].dev, drv |-> req[r].drv])
  <2>1. pc \in Positions
    BY DEF Positions
  <2> QED  BY <2>1, GotoEffect DEF IInv
<1>2. /\ device = 0 /\ selectMu = r /\ req[r].drv # 0 /\ req[r].dev # None
      /\ \A q \in Requests : q # r => req[q].pc \in Waits /\ req[q].drv = 0
  BY DEF IInv, MutexHeld, SessionEmpty, Hands
<1>3. TypeOK'
  BY <1>1 DEF IInv, TypeOK, Becomes, DriverBecomes, RequestType, DriverType
<1>4. MutexHeld' /\ SessionEmpty' /\ Hands'
  BY <1>1, <1>2 DEF IInv, MutexHeld, SessionEmpty, Hands, Becomes
<1>5. RightPath'
  BY <1>1, <1>2 DEF IInv, RightPath, Becomes, DriverBecomes
<1>6. Unmade'
  <2>1. \A q \in Requests : req'[q].drv = req[q].drv
    BY <1>1 DEF Becomes
  <2>2. req[r].drv \in 1..built
    BY <1>2 DEF IInv, TypeOK, Unmade
  <2>3. listener'.by \in 0..built
    BY <2>2 DEF IInv, Unmade
  <2> QED  BY <2>1, <2>2, <2>3 DEF IInv, Unmade, DriverBecomes
<1>7. NothingYet' /\ Settled'
  BY <1>1, <1>2 DEF IInv, NothingYet, Settled, Finished, IsAndroid, Becomes, DriverBecomes
<1>8. TunnelOwned' /\ PingWatched'
  BY <1>1, <1>2 DEF IInv, TunnelOwned, PingWatched, IsAndroid, Becomes, DriverBecomes
<1>9. BuildsFit'
  <2>1. Starting' \subseteq Starting
    BY <1>1 DEF Starting, Becomes
  <2> QED  BY <2>1, StartingShrinks DEF IInv
<1>10. NoChannelLeaks'
  <2>1. \A k \in Drivers : k # req[r].drv /\ Holds(k)' => Holds(k)
    BY DEF Holds, IsConnected, IsAndroid, DriverBecomes
  <2> QED  BY <1>1, <1>2, <2>1 DEF IInv, NoChannelLeaks, Becomes
<1> QED  BY <1>3, <1>4, <1>5, <1>6, <1>7, <1>8, <1>9, <1>10 DEF IInv
LEMMA CreateForwardPreserves ==
    ASSUME IInv, NEW r \in Requests, CreateForward(r)
    PROVE  IInv'
<1> DEFINE k == req[r].drv
           a == [driver[k] EXCEPT !.owns = TRUE]
<1>1. /\ At(r, "forward") /\ k \in Drivers /\ req[r].dev \in Android
      /\ driver[k].dev = req[r].dev /\ listener.by # k
  BY BuildBound DEF IInv, TypeOK, Hands, RightPath, NothingYet, CreateForward
<1>2. a \in DriverType /\ a.dev = req[r].dev /\ DriverBecomes(k, a)
  BY <1>1 DEF IInv, TypeOK, CreateForward, DriverBecomes, DriverType
<1>3. /\ Goto(r, "health") /\ forward' = req[r].dev
      /\ UNCHANGED <<device, selectMu, built, user, listener, dying, stopped, reliable>>
  BY DEF CreateForward
<1>4. listener' \in Listeners /\ forward' \in Android \cup {None}
  BY <1>1, <1>3 DEF IInv, TypeOK
<1> HIDE DEF a
<1> QED  BY <1>1, <1>2, <1>3, <1>4, ConnectPreserves

LEMMA HealthPreserves ==
    ASSUME IInv, NEW r \in Requests, Health(r)
    PROVE  IInv'
<1> DEFINE k == req[r].drv
           a == [driver[k] EXCEPT !.connected = TRUE]
<1>1. /\ At(r, "health") /\ k \in Drivers /\ req[r].dev \in Android
      /\ driver[k].dev = req[r].dev
  BY BuildBound DEF IInv, TypeOK, Hands, RightPath, Health
<1>2. a \in DriverType /\ a.dev = req[r].dev /\ a.connected /\ DriverBecomes(k, a)
  <2>1. driver \in [Drivers -> DriverType] /\ driver' = [driver EXCEPT ![k] = a]
    BY <1>1 DEF IInv, TypeOK, Health, DriverType
  <2>2. a \in DriverType /\ a.dev = req[r].dev /\ a.connected
    BY <1>1, <2>1 DEF DriverType
  <2> HIDE DEF a
  <2> QED  BY <1>1, <2>1, <2>2 DEF DriverBecomes
<1>3. /\ Goto(r, "install")
      /\ UNCHANGED <<device, selectMu, built, user, forward, listener, dying, stopped, reliable>>
  BY DEF Health
<1>4. listener.by # k
  BY <1>1 DEF IInv, TunnelOwned, IsAndroid
<1>5. listener' \in Listeners /\ forward' \in Android \cup {None}
  BY <1>3 DEF IInv, TypeOK
<1>6. \/ listener' = listener \/ listener'.by = k
  BY <1>3
<1> HIDE DEF a
<1> QED  BY <1>1, <1>2, <1>3, <1>4, <1>5, <1>6, ConnectPreserves

LEMMA SpawnIproxyPreserves ==
    ASSUME IInv, NEW r \in Requests, SpawnIproxy(r)
    PROVE  IInv'
<1> DEFINE k == req[r].drv
           a == [driver[k] EXCEPT !.owns = TRUE]
<1>1. /\ At(r, "spawn") /\ k \in Drivers /\ req[r].dev \in Devices \ Android
      /\ driver[k].dev = req[r].dev /\ driver[k].sock = NoListener
  <2>1. At(r, "spawn")
    BY DEF SpawnIproxy
  <2>2. k \in Drivers
    BY <2>1, BuildBound DEF IInv, TypeOK, Hands
  <2>3. req[r].dev \in Devices \ Android /\ driver[k].dev = req[r].dev
    BY <2>1, <2>2 DEF IInv, TypeOK, Hands, RightPath
  <2> QED  BY <2>1, <2>2, <2>3 DEF IInv, NothingYet
<1>2. a \in DriverType /\ a.dev = req[r].dev /\ a.owns /\ a.sock = NoListener /\ DriverBecomes(k, a)
  BY <1>1 DEF IInv, TypeOK, SpawnIproxy, DriverBecomes, DriverType
<1>3. /\ Goto(r, "dial")
      /\ UNCHANGED <<device, selectMu, built, user, forward, dying, stopped, reliable>>
  BY DEF SpawnIproxy
<1>4. /\ listener' \in Listeners
      /\ listener' = listener \/ listener'.by = k
      /\ forward' \in Android \cup {None}
  BY <1>1, <1>3 DEF IInv, TypeOK, SpawnIproxy, Listeners
<1> HIDE DEF a
<1> QED  BY <1>1, <1>2, <1>3, <1>4, ConnectPreserves

\* Dialling fails where nobody listens, and then no tunnel of the driver is left.
LEMMA DialPreserves ==
    ASSUME IInv, NEW r \in Requests, Dial(r)
    PROVE  IInv'
<1> DEFINE k == req[r].drv
           a == [driver[k] EXCEPT !.sock = listener]
<1>1. /\ At(r, "dial") /\ k \in Drivers /\ req[r].dev \in Devices \ Android
      /\ driver[k].dev = req[r].dev /\ driver[k].sock = NoListener /\ selectMu = r
      /\ UNCHANGED <<device, built, user, host, stopped>>
  BY BuildBound DEF IInv, TypeOK, MutexHeld, Hands, RightPath, NothingYet, Dial
<1>2. CASE listener = NoListener
  <2>1. ~Holds(k)
    BY <1>1, <1>2, BuildBound DEF Holds, IsConnected, IsAndroid, NoListener
  <2> QED  BY <1>1, <1>2, <2>1, ReturnPreserves DEF Dial
<1>3. CASE listener # NoListener
  <2>1. /\ Goto(r, "ping") /\ UNCHANGED selectMu
        /\ driver' = [driver EXCEPT ![k].sock = listener]
    BY <1>3 DEF Dial
  <2>2. a \in DriverType /\ a.dev = req[r].dev /\ a.sock # NoListener /\ DriverBecomes(k, a)
    BY <1>1, <1>3, <2>1 DEF IInv, TypeOK, DriverBecomes, DriverType
  <2>3. /\ listener.by = k => a.owns \/ k \in dying
        /\ listener' \in Listeners /\ forward' \in Android \cup {None}
    BY <1>1 DEF IInv, TypeOK, TunnelOwned
  <2> HIDE DEF a
  <2> QED  BY <1>1, <2>1, <2>2, <2>3, ConnectPreserves
<1> QED  BY <1>2, <1>3

-----------------------------------------------------------------------------
(* Disposing of a driver.                                                   *)

\* A driver whose Connect has finished gives up its channel on Disconnect.
LEMMA DisconnectEffect ==
    ASSUME IInv, NEW k \in Drivers, Finished(k), Disconnect(k), listener' = listener,
           k <= built
    PROVE  /\ DriverBecomes(k, [Unbuilt EXCEPT !.dev = driver[k].dev])
           /\ forward' \in Android \cup {None}
           /\ dying \subseteq dying' /\ dying' \subseteq dying \cup {k}
           /\ ~Holds(k)'
           /\ \A j \in Drivers \ {k} : Holds(j)' => Holds(j)
           /\ TunnelOwned' /\ listener'.by \in 0..built
           /\ \A j \in Drivers \ 1..built : driver'[j] = Unbuilt
<1>1. DriverBecomes(k, [Unbuilt EXCEPT !.dev = driver[k].dev])
  <2>1. driver' = [driver EXCEPT ![k] = [Unbuilt EXCEPT !.dev = driver[k].dev]]
    BY DEF Finished, Disconnect
  <2>2. [Unbuilt EXCEPT !.dev = driver[k].dev] \in DriverType
    <3>1. NoListener \in Listeners
      BY BuildBound DEF NoListener, Listeners
    <3> QED  BY <3>1 DEF IInv, TypeOK, DriverType, Unbuilt
  <2> QED  BY <2>1, <2>2 DEF IInv, TypeOK, DriverBecomes, DriverType
<1>2. forward' \in Android \cup {None} /\ dying \subseteq dying' /\ dying' \subseteq dying \cup {k}
  BY DEF IInv, TypeOK, Disconnect
<1>3. listener.by = k => ~IsAndroid(k) /\ k \in dying'
  BY DEF IInv, TunnelOwned, Disconnect
<1>4. ~Holds(k)'
  BY <1>1, <1>3 DEF Holds, IsConnected, IsAndroid, DriverBecomes, Unbuilt
<1>5. \A j \in Drivers \ {k} : Holds(j)' => Holds(j)
  BY <1>1, <1>2 DEF Holds, IsConnected, IsAndroid, DriverBecomes
<1>6. TunnelOwned'
  BY <1>1, <1>2, <1>3 DEF IInv, TunnelOwned, IsAndroid, DriverBecomes, Unbuilt
<1>7. listener'.by \in 0..built /\ \A j \in Drivers \ 1..built : driver'[j] = Unbuilt
  BY <1>1, BuildBound DEF IInv, TypeOK, Unmade, DriverBecomes
<1> QED  BY <1>1, <1>2, <1>4, <1>5, <1>6, <1>7

LEMMA DisposePreserves ==
    ASSUME IInv, NEW r \in Requests, Dispose(r)
    PROVE  IInv' /\ NothingOpens
<1> PICK k \in Drivers : k = req[r].drv
  BY BuildBound DEF IInv, TypeOK, Hands, Dispose
<1>1. /\ req[r].pc \in Disposing /\ device = 0 /\ selectMu = r /\ Finished(k)
      /\ k <= built /\ Disconnect(k)
      /\ UNCHANGED <<device, built, user, listener, stopped, reliable>>
  BY BuildBound DEF IInv, TypeOK, MutexHeld, SessionEmpty, Hands, Settled, Unmade, Dispose
<1>2. /\ DriverBecomes(k, [Unbuilt EXCEPT !.dev = driver[k].dev])
      /\ forward' \in Android \cup {None}
      /\ dying' \subseteq dying \cup {k}
      /\ ~Holds(k)'
      /\ \A j \in Drivers \ {k} : Holds(j)' => Holds(j)
      /\ TunnelOwned'
      /\ \A j \in Drivers \ 1..built : driver'[j] = Unbuilt
  BY <1>1, DisconnectEffect
<1>3. PICK e \in RequestType :
         /\ Becomes(r, e) /\ e.drv = 0
         /\ e = Idle \/ e = [pc |-> "build", dev |-> req[r].dev, drv |-> 0]
         /\ selectMu' = IF e = Idle THEN None ELSE selectMu
         /\ e.pc = "build" => At(r, "disposeOutgoing")
  <2>1. CASE At(r, "disposeLast")
    <3>1. Return(r) /\ Idle \in RequestType
      BY <2>1, BuildBound DEF Dispose, Idle, RequestType, Positions
    <3> QED  BY <3>1, ReturnEffect DEF IInv, Idle
  <2>2. CASE At(r, "disposeOutgoing")
    <3> DEFINE e == [pc |-> "build", dev |-> req[r].dev, drv |-> 0]
    <3>1. e \in RequestType
      BY BuildBound DEF IInv, TypeOK, RequestType, Positions
    <3>2. req' = [req EXCEPT ![r] = e] /\ selectMu' = selectMu
      BY <2>2 DEF IInv, TypeOK, Dispose
    <3>3. Becomes(r, e)
      BY <3>1, <3>2 DEF IInv, TypeOK, Becomes, RequestType
    <3> QED  BY <2>2, <3>1, <3>2, <3>3 DEF Idle
  <2> QED  BY <1>1, <2>1, <2>2
<1>4. \A q \in Requests : q # r => req[q].pc \in Waits /\ req[q].drv = 0
  BY <1>1 DEF IInv, MutexHeld, Hands
<1>5. TypeOK'
  BY <1>1, <1>2, <1>3 DEF IInv, TypeOK, Becomes, DriverBecomes, RequestType, DriverType
<1>6. MutexHeld' /\ SessionEmpty' /\ Hands'
  BY <1>1, <1>3, NoRequestIsNone DEF IInv, MutexHeld, SessionEmpty, Hands, Becomes, Idle
<1>7. RightPath' /\ NothingYet' /\ Settled' /\ PingWatched'
  BY <1>1, <1>3, <1>4
  DEF RightPath, NothingYet, Settled, PingWatched, Becomes, Idle
<1>8. Unmade'
  <2>1. 0 \in 0..built
    BY BuildBound DEF IInv, TypeOK
  <2> QED  BY <1>1, <1>2, <1>3, <2>1 DEF IInv, Unmade, Becomes
<1>9. BuildsFit'
  <2>1. Starting' \subseteq Starting
    BY <1>3 DEF Starting, Becomes, Idle
  <2> QED  BY <1>1, <2>1, StartingShrinks DEF IInv
<1>10. NoChannelLeaks'
  BY <1>1, <1>2, <1>4 DEF IInv, NoChannelLeaks
<1>11. NothingOpens
  BY <1>2 DEF NothingOpens
<1> QED  BY <1>11, <1>2, <1>5, <1>6, <1>7, <1>8, <1>9, <1>10 DEF IInv
-----------------------------------------------------------------------------
(* The host and the rest of the process.                                    *)

\* Shutdown disposes of the selected driver, with no request under way.
LEMMA ShutdownPreserves ==
    ASSUME IInv, Shutdown
    PROVE  IInv' /\ NothingOpens
<1>1. /\ \A r \in Requests : At(r, "idle") /\ req[r].drv = 0
      /\ device' = 0 /\ stopped' = TRUE
      /\ UNCHANGED <<selectMu, req, built, user, listener, reliable>>
  BY DEF IInv, Hands, Shutdown
<1>2. /\ driver' \in [Drivers -> DriverType] /\ forward' \in Android \cup {None}
      /\ dying' \in SUBSET Drivers
      /\ TunnelOwned' /\ listener'.by \in 0..built
      /\ \A j \in Drivers \ 1..built : driver'[j] = Unbuilt
      /\ \A j \in Drivers : Holds(j)' => Holds(j) /\ j # device
  <2>1. CASE device = 0
    <3>1. UNCHANGED <<driver, forward, dying>>
      BY <2>1 DEF Shutdown
    <3> QED  BY <1>1, <2>1, <3>1, BuildBound
             DEF IInv, TypeOK, DriverType, TunnelOwned, Unmade, Holds, IsConnected, IsAndroid
  <2>2. CASE device # 0
    <3> PICK k \in Drivers : k = device
      BY <2>2, BuildBound DEF IInv, TypeOK
    <3>1. Disconnect(k) /\ Finished(k) /\ k <= built
      BY <2>2 DEF IInv, TypeOK, Shutdown, Settled, Unmade
    <3> QED  BY <1>1, <3>1, DisconnectEffect DEF IInv, TypeOK, DriverBecomes
  <2> QED  BY <2>1, <2>2
<1>3. TypeOK'
  BY <1>1, <1>2, BuildBound DEF IInv, TypeOK, DriverType
<1>4. MutexHeld' /\ SessionEmpty' /\ Hands'
  BY <1>1 DEF IInv, MutexHeld, SessionEmpty, Hands
<1>5. RightPath' /\ NothingYet' /\ Settled' /\ PingWatched'
  BY <1>1 DEF RightPath, NothingYet, Settled, PingWatched
<1>6. Unmade'
  <2>1. 0 \in 0..built
    BY BuildBound DEF IInv, TypeOK
  <2> QED  BY <1>1, <1>2, <2>1 DEF IInv, Unmade
<1>7. BuildsFit'
  BY <1>1, StartingShrinks DEF IInv, Starting
<1>8. NoChannelLeaks'
  BY <1>1, <1>2, BuildBound DEF IInv, NoChannelLeaks
<1>9. NothingOpens
  BY <1>2 DEF NothingOpens
<1> QED  BY <1>9, <1>2, <1>3, <1>4, <1>5, <1>6, <1>7, <1>8 DEF IInv

\* A listener that goes takes the sockets that went through it along.
LEMMA UnlistenPreserves ==
    ASSUME IInv, Unlisten
    PROVE  IInv' /\ NothingOpens
<1>1. /\ listener' = NoListener /\ dying' = dying \ {listener.by}
      /\ UNCHANGED <<device, selectMu, req, built, user, forward, stopped, reliable>>
  BY DEF Unlisten
<1>2. NoListener \in Listeners
  BY BuildBound DEF NoListener, Listeners
<1>3. /\ driver' \in [Drivers -> DriverType]
      /\ \A k \in Drivers :
            /\ driver'[k].dev = driver[k].dev /\ driver'[k].connected = driver[k].connected
            /\ driver'[k].owns = driver[k].owns
            /\ driver'[k].sock = IF driver[k].sock = listener THEN NoListener ELSE driver[k].sock
            /\ driver[k].sock = NoListener => driver'[k] = driver[k]
  <2> SUFFICES ASSUME NEW k \in Drivers
               PROVE  /\ driver'[k] \in DriverType
                      /\ driver'[k].dev = driver[k].dev
                      /\ driver'[k].connected = driver[k].connected
                      /\ driver'[k].owns = driver[k].owns
                      /\ driver'[k].sock = IF driver[k].sock = listener THEN NoListener
                                                                       ELSE driver[k].sock
                      /\ driver[k].sock = NoListener => driver'[k] = driver[k]
    BY DEF Unlisten
  <2> QED  BY <1>2, DriverFields DEF IInv, TypeOK, Unlisten, DriverType
<1>4. NothingOpens
  BY <1>1, <1>3, BuildBound DEF NothingOpens, Holds, IsConnected, IsAndroid, NoListener
<1>5. TypeOK'
  BY <1>1, <1>2, <1>3 DEF IInv, TypeOK, DriverType
<1>6. MutexHeld' /\ SessionEmpty' /\ Hands'
  BY <1>1 DEF IInv, MutexHeld, SessionEmpty, Hands
<1>7. RightPath' /\ NothingYet'
  <2>1. listener'.by = 0 /\ 0 \notin Drivers
    BY <1>1, BuildBound DEF NoListener
  <2> QED  BY <1>1, <1>3, <2>1, InHand DEF IInv, RightPath, NothingYet
<1>8. Unmade'
  <2>1. 0 \in 0..built
    BY BuildBound DEF IInv, TypeOK
  <2> QED  BY <1>1, <1>3, <2>1 DEF IInv, Unmade, NoListener, Unbuilt
<1>9. Settled'
  BY <1>1, <1>3, InHand DEF IInv, Settled, Finished, IsAndroid
<1>10. TunnelOwned' /\ PingWatched'
  <2>1. listener'.by = 0 /\ 0 \notin Drivers /\ \A r \in Requests : req[r].pc = "ping" => req[r].drv # 0
    BY <1>1, BuildBound DEF IInv, Hands, NoListener
  <2> QED  BY <1>1, <2>1 DEF TunnelOwned, PingWatched
<1>11. BuildsFit'
  BY <1>1, StartingShrinks DEF IInv, Starting
<1>12. NoChannelLeaks'
  BY <1>1, <1>4 DEF IInv, NoChannelLeaks, NothingOpens
<1> QED  BY <1>4, <1>5, <1>6, <1>7, <1>8, <1>9, <1>10, <1>11, <1>12 DEF IInv

\* A socket closes; a reliable agent does not close one at the handshake.
LEMMA SocketDropsPreserves ==
    ASSUME IInv, NEW k \in Drivers, SocketDrops(k)
    PROVE  IInv' /\ NothingOpens
<1>1. /\ driver[k].sock # NoListener
      /\ ~reliable \/ \A r \in Requests : ~(At(r, "ping") /\ req[r].drv = k)
      /\ UNCHANGED <<device, selectMu, req, built, user, host, stopped>>
  BY DEF SocketDrops
<1>2. DriverBecomes(k, [driver[k] EXCEPT !.sock = NoListener])
  <2>1. NoListener \in Listeners
    BY BuildBound DEF NoListener, Listeners
  <2> QED  BY <2>1 DEF IInv, TypeOK, SocketDrops, DriverBecomes, DriverType
<1>3. /\ driver'[k].dev = driver[k].dev /\ driver'[k].connected = driver[k].connected
      /\ driver'[k].owns = driver[k].owns /\ driver'[k].sock = NoListener
  BY <1>2, DriverFields DEF IInv, DriverBecomes
<1>4. TypeOK'
  BY <1>1, <1>2 DEF IInv, TypeOK, DriverBecomes, DriverType
<1>5. MutexHeld' /\ SessionEmpty' /\ Hands'
  BY <1>1 DEF IInv, MutexHeld, SessionEmpty, Hands
<1>6. RightPath' /\ NothingYet' /\ Settled'
  <2>1. \A j \in Drivers : /\ driver'[j].dev = driver[j].dev
                           /\ driver'[j].connected = driver[j].connected
                           /\ driver'[j].owns = driver[j].owns
                           /\ driver[j].sock = NoListener => driver'[j].sock = NoListener
    BY <1>2, <1>3 DEF DriverBecomes
  <2>2. RightPath' /\ NothingYet'
    BY <1>1, <2>1, InHand DEF IInv, RightPath, NothingYet
  <2>3. Settled'
    BY <1>1, <2>1, InHand DEF IInv, Settled, Finished, IsAndroid
  <2> QED  BY <2>2, <2>3
<1>7. Unmade'
  BY <1>1, <1>2 DEF IInv, Unmade, DriverBecomes, Unbuilt
<1>8. TunnelOwned' /\ PingWatched'
  <2>1. TunnelOwned'
    BY <1>1, <1>2, <1>3 DEF IInv, TunnelOwned, IsAndroid, DriverBecomes
  <2>2. PingWatched'
    BY <1>1, <1>2, InHand DEF IInv, PingWatched, DriverBecomes
  <2> QED  BY <2>1, <2>2
<1>9. BuildsFit'
  BY <1>1, StartingShrinks DEF IInv, Starting
<1>10. NothingOpens
  BY <1>1, <1>2, <1>3 DEF NothingOpens, Holds, IsConnected, IsAndroid, DriverBecomes
<1>11. NoChannelLeaks'
  BY <1>1, <1>10 DEF IInv, NoChannelLeaks, NothingOpens
<1> QED  BY <1>4, <1>5, <1>6, <1>7, <1>8, <1>9, <1>10, <1>11 DEF IInv

\* What the host and the users do to the invariant's other variables: nothing.
LEMMA OutsidePreserves ==
    ASSUME IInv,
           \/ \E d \in Provisioned : EnsureForward(d)
           \/ \E s \in Simulators : RunnerStarts(s)
           \/ \E u \in Users : RequireDevice(u) \/ Release(u)
    PROVE  IInv'
<1>1. /\ UNCHANGED <<device, selectMu, req, driver, built, dying, stopped, reliable>>
      /\ listener' = listener \/ \E s \in Simulators : listener' = [to |-> s, by |-> 0]
  BY DEF EnsureForward, RunnerStarts, RequireDevice, Release
<1>2. user' \in [Users -> 0..MaxBuilds] /\ forward' \in Android \cup {None}
  <2>1. user \in [Users -> 0..MaxBuilds] /\ device \in 0..MaxBuilds /\ 0 \in 0..MaxBuilds
    BY BuildBound DEF IInv, TypeOK
  <2>2. user' \in [Users -> 0..MaxBuilds]
    BY <2>1 DEF EnsureForward, RunnerStarts, RequireDevice, Release
  <2>3. forward' \in Android \cup {None}
    BY DistinctDevices DEF IInv, TypeOK, EnsureForward, RunnerStarts, RequireDevice, Release
  <2> QED  BY <2>2, <2>3
<1>3. listener' \in Listeners /\ listener'.by \in {0, listener.by}
  BY <1>1, BuildBound DEF IInv, TypeOK, Listeners, Devices
<1>4. 0 \notin Drivers /\ 0 \in 0..built
  BY BuildBound DEF IInv, TypeOK
<1>5. TypeOK' /\ BuildsFit'
  BY <1>1, <1>2, <1>3, StartingShrinks DEF IInv, TypeOK, Starting
<1>6. MutexHeld' /\ SessionEmpty' /\ Hands' /\ RightPath' /\ Settled'
  BY <1>1 DEF IInv, MutexHeld, SessionEmpty, Hands, RightPath, Settled, Finished, IsAndroid
<1>7. Unmade' /\ NothingYet' /\ TunnelOwned' /\ PingWatched'
  BY <1>1, <1>3, <1>4
  DEF IInv, Hands, Unmade, NothingYet, TunnelOwned, PingWatched, IsAndroid
<1>8. NoChannelLeaks'
  BY <1>1, <1>3, <1>4 DEF IInv, NoChannelLeaks, Holds, IsConnected, IsAndroid
<1> QED  BY <1>5, <1>6, <1>7, <1>8 DEF IInv
-----------------------------------------------------------------------------
LEMMA InitIInv == Init => IInv
<1> SUFFICES ASSUME Init PROVE IInv
  OBVIOUS
<1>1. NoListener \in Listeners /\ 0 \notin Drivers
  BY BuildBound DEF NoListener, Listeners
<1>2. TypeOK
  <2>1. Idle \in RequestType /\ Unbuilt \in DriverType
    BY <1>1, BuildBound DEF Idle, Unbuilt, RequestType, DriverType, Positions
  <2>2. req \in [Requests -> RequestType] /\ driver \in [Drivers -> DriverType]
    BY <2>1 DEF Init
  <2>3. /\ device \in 0..MaxBuilds /\ built \in 0..MaxBuilds
        /\ user \in [Users -> 0..MaxBuilds]
    BY BuildBound DEF Init
  <2>4. /\ selectMu \in Requests \cup {None} /\ forward \in Android \cup {None}
        /\ listener \in Listeners /\ dying \subseteq Drivers
        /\ stopped \in BOOLEAN /\ reliable \in BOOLEAN
    BY <1>1 DEF Init
  <2> QED  BY <2>2, <2>3, <2>4 DEF TypeOK, RequestType, DriverType
<1>3. BuildsFit
  <2>1. Starting = {}
    BY DEF Init, Starting, Idle
  <2> QED  BY <2>1, FS_EmptySet, BuildBound DEF Init, BuildsFit
<1>4. MutexHeld /\ SessionEmpty /\ Hands /\ RightPath /\ NothingYet /\ Settled /\ PingWatched
  BY NoRequestIsNone
  DEF Init, MutexHeld, SessionEmpty, Hands, RightPath, NothingYet, Settled, PingWatched, Idle
<1>5. Unmade /\ TunnelOwned
  BY <1>1 DEF Init, Unmade, TunnelOwned, NoListener, Idle
<1>6. NoChannelLeaks
  BY <1>1, DistinctDevices
  DEF Init, NoChannelLeaks, Holds, IsConnected, IsAndroid, NoListener, Unbuilt
<1> QED  BY <1>2, <1>3, <1>4, <1>5, <1>6 DEF IInv

LEMMA NextIInv == IInv /\ [Next]_vars => IInv'
<1> SUFFICES ASSUME IInv, [Next]_vars PROVE IInv'
  OBVIOUS
<1>1. ASSUME NEW r \in Requests, NEW d \in Devices, Select(r, d) PROVE IInv'
  BY <1>1, SelectPreserves
<1>2. ASSUME NEW r \in Requests, Deselect(r) \/ LockSelect(r) PROVE IInv'
  BY <1>2, ArrivalPreserves
<1>3. ASSUME NEW r \in Requests, Serve(r) PROVE IInv'
  BY <1>3, EarlyReturnPreserves, SelectKnownClearsPreserves, SelectKnownEmptyPreserves,
     DisposePreserves, BuildDriverPreserves, ListForwardsPreserves, CreateForwardPreserves,
     HealthPreserves, ProbePortPreserves, SpawnIproxyPreserves, DialPreserves, PingPreserves,
     InstallPreserves DEF Serve
<1>4. ASSUME NEW r \in Requests, ConnectRefused(r) \/ HandshakeFailed(r) PROVE IInv'
  BY <1>4, EarlyReturnPreserves
<1>5. CASE Shutdown
  BY <1>5, ShutdownPreserves
<1>6. CASE IproxyExits \/ RunnerStops
  BY <1>6, UnlistenPreserves DEF IproxyExits, RunnerStops
<1>7. CASE \/ \E d \in Provisioned : EnsureForward(d)
           \/ \E s \in Simulators : RunnerStarts(s)
           \/ \E u \in Users : RequireDevice(u) \/ Release(u)
  BY <1>7, OutsidePreserves
<1>8. ASSUME NEW k \in Drivers, SocketDrops(k) PROVE IInv'
  BY <1>8, SocketDropsPreserves
<1>9. CASE UNCHANGED vars
  <2>1. TypeOK' /\ MutexHeld' /\ SessionEmpty' /\ Hands' /\ RightPath' /\ Unmade'
    BY <1>9 DEF vars, IInv, TypeOK, MutexHeld, SessionEmpty, Hands, RightPath, Unmade
  <2>2. NothingYet' /\ Settled' /\ TunnelOwned' /\ PingWatched' /\ BuildsFit' /\ NoChannelLeaks'
    BY <1>9 DEF vars, IInv, NothingYet, Settled, Finished, TunnelOwned, PingWatched, BuildsFit,
                Starting, NoChannelLeaks, Holds, IsConnected, IsAndroid
  <2> QED  BY <2>1, <2>2 DEF IInv
<1> QED  BY <1>1, <1>2, <1>3, <1>4, <1>5, <1>6, <1>7, <1>8, <1>9 DEF Next

\* The state of selection is well typed: no driver is built beyond the bound, no
\* request serves from a position of the other platform's Connect.
THEOREM TypeCorrect == Spec => []TypeOK
<1>1. IInv => TypeOK
  BY DEF IInv
<1> QED  BY <1>1, InitIInv, NextIInv, PTL DEF Spec

\* No Select, Deselect, failed Connect or shutdown leaves a control channel of an
\* answering agent behind: whoever holds one is the session's device or is in the
\* hands of the request that holds selectMu (deviceService.Select, Session.SetDevice).
THEOREM NoLeaks == Spec => []NoChannelLeaks
<1>1. IInv => NoChannelLeaks
  BY DEF IInv
<1> QED  BY <1>1, InitIInv, NextIInv, PTL DEF Spec

-----------------------------------------------------------------------------
(* The refinement of ControlChannel.                                        *)

\* The drivers whose channel is open, which is ControlChannel's variable.
Open == {k \in Drivers : reliable /\ Holds(k)}

\* A step that opens a channel is a step of Connect, whose request has the session
\* to itself.
Opens(r) == CreateForward(r) \/ Health(r) \/ SpawnIproxy(r) \/ Dial(r)

LEMMA AtMostOneOpen ==
    ASSUME IInv
    PROVE  \E x \in Drivers \cup {0} : Open \subseteq {x}
<1>1. CASE \E r \in Requests : selectMu = r /\ req[r].drv # 0
  <2> PICK r \in Requests : selectMu = r /\ req[r].drv # 0
    BY <1>1
  <2>1. device = 0 /\ 0 \notin Drivers /\ req[r].drv \in 0..MaxBuilds
    BY BuildBound DEF IInv, TypeOK, MutexHeld, SessionEmpty, Hands
  <2>2. Open \subseteq {req[r].drv}
    BY <2>1 DEF IInv, NoChannelLeaks, Open
  <2> QED  BY <2>1, <2>2, BuildBound
<1>2. CASE ~\E r \in Requests : selectMu = r /\ req[r].drv # 0
  <2>1. Open \subseteq {device}
    BY <1>2, BuildBound DEF IInv, NoChannelLeaks, Open
  <2> QED  BY <2>1, InHand DEF IInv
<1> QED  BY <1>1, <1>2

\* Such a step opens the channel of its own driver, if any, when no other is open.
LEMMA OpensAlone ==
    ASSUME IInv, NEW r \in Requests, Opens(r)
    PROVE  \E k \in Drivers : Open \subseteq {k} /\ Open' \subseteq {k}
<1> PICK k \in Drivers : k = req[r].drv
  <2>1. req[r].pc \in Connecting
    BY DEF Opens, CreateForward, Health, SpawnIproxy, Dial
  <2> QED  BY <2>1, BuildBound DEF IInv, TypeOK, Hands
<1>1. /\ device = 0 /\ selectMu = r
  BY DEF IInv, MutexHeld, SessionEmpty, Opens, CreateForward, Health, SpawnIproxy, Dial
<1>2. Open \subseteq {k}
  BY <1>1, BuildBound DEF IInv, NoChannelLeaks, Open
<1>3. \A j \in Drivers \ {k} : driver'[j] = driver[j]
  BY DEF IInv, TypeOK, Opens, CreateForward, Health, SpawnIproxy, Dial
<1>4. /\ reliable' = reliable /\ dying' = dying
      /\ listener' = listener \/ listener' = [to |-> req[r].dev, by |-> k]
  BY DEF Opens, CreateForward, Health, SpawnIproxy, Dial
<1>5. \A j \in Drivers \ {k} : Holds(j)' => Holds(j)
  BY <1>3, <1>4 DEF Holds, IsConnected, IsAndroid
<1> QED  BY <1>2, <1>4, <1>5 DEF Open

LEMMA OthersOpenNothing ==
    ASSUME IInv, [Next]_vars, ~\E r \in Requests : Opens(r)
    PROVE  Open' \subseteq Open
<1>1. ASSUME NothingOpens, reliable' = reliable PROVE Open' \subseteq Open
  BY <1>1 DEF NothingOpens, Open
<1>2. ASSUME UNCHANGED <<driver, dying, reliable>>, listener' = listener \/ listener'.by = 0
      PROVE  Open' \subseteq Open
  BY <1>2, BuildBound DEF Open, Holds, IsConnected, IsAndroid
<1>3. ASSUME NEW r \in Requests, NEW d \in Devices, Select(r, d) PROVE Open' \subseteq Open
  BY <1>2, <1>3 DEF Select
<1>4. ASSUME NEW r \in Requests, Deselect(r) \/ LockSelect(r) PROVE Open' \subseteq Open
  BY <1>2, <1>4 DEF Deselect, LockSelect
<1>5. ASSUME NEW r \in Requests, Serve(r) PROVE Open' \subseteq Open
  <2>1. CASE Dispose(r)
    BY <1>1, <2>1, DisposePreserves DEF Dispose
  <2>2. CASE BuildDriver(r)
    BY <1>1, <2>2, BuildDriverPreserves DEF BuildDriver
  <2>3. CASE \/ SelectKnownFastPath(r) \/ SelectKnownClears(r) \/ SelectKnownEmpty(r)
             \/ ListForwards(r) \/ ProbePort(r) \/ Ping(r) \/ Install(r)
    BY <1>2, <2>3 DEF SelectKnownFastPath, SelectKnownClears, SelectKnownEmpty, ListForwards,
                      ProbePort, Ping, Install
  <2> QED  BY <1>5, <2>1, <2>2, <2>3 DEF Serve, Opens
<1>6. ASSUME NEW r \in Requests, ConnectRefused(r) \/ HandshakeFailed(r) PROVE Open' \subseteq Open
  BY <1>2, <1>6 DEF ConnectRefused, HandshakeFailed
<1>7. CASE Shutdown
  BY <1>1, <1>7, ShutdownPreserves DEF Shutdown
<1>8. CASE IproxyExits \/ RunnerStops
  BY <1>1, <1>8, UnlistenPreserves DEF IproxyExits, RunnerStops, Unlisten
<1>9. CASE \/ \E d \in Provisioned : EnsureForward(d)
           \/ \E s \in Simulators : RunnerStarts(s)
           \/ \E u \in Users : RequireDevice(u) \/ Release(u)
  BY <1>2, <1>9 DEF EnsureForward, RunnerStarts, RequireDevice, Release
<1>10. ASSUME NEW k \in Drivers, SocketDrops(k) PROVE Open' \subseteq Open
  BY <1>1, <1>10, SocketDropsPreserves DEF SocketDrops
<1>11. CASE UNCHANGED vars
  BY <1>2, <1>11 DEF vars
<1> QED  BY <1>3, <1>4, <1>5, <1>6, <1>7, <1>8, <1>9, <1>10, <1>11 DEF Next

\* At most one channel is open, and a step that opens one finds none open: every
\* step opens one, closes one, or does neither.
LEMMA StepImplements ==
    ASSUME IInv, [Next]_vars
    PROVE  [Channel!Next]_Open
<1>1. PICK k \in Drivers \cup {0} : Open \subseteq {k} /\ Open' \subseteq {k}
  BY AtMostOneOpen, OpensAlone, OthersOpenNothing
<1>2. Open = {} \/ Open = {k}
  BY <1>1
<1>3. Open' = {} \/ Open' = {k}
  BY <1>1
<1>4. Open \subseteq Drivers /\ Open' \subseteq Drivers
  BY DEF Open
<1> QED  BY <1>2, <1>3, <1>4 DEF Channel!Next, Channel!Open, Channel!Close, Open

\* Selection implements ControlChannel: with agents that complete their handshake a
\* driver opens its channel only when no other driver has one open, the order of
\* dispose and build under selectMu (device_service.go: an agent "may only accept one
\* live connection").
THEOREM Implements == Spec => ImplementsChannel
<1>1. Init => Channel!Init
  BY BuildBound DEF Init, Channel!Init, Holds, IsConnected, IsAndroid, NoListener, Unbuilt
<1>2. IInv /\ [Next]_vars => [Channel!Next]_Open
  BY StepImplements
<1> QED  BY <1>1, <1>2, InitIInv, NextIInv, PTL DEF Spec, ImplementsChannel, Channel!Spec, Open
=============================================================================
