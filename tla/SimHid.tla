------------------------------- MODULE SimHid --------------------------------
(***************************************************************************)
(* The direct-touch path of an iOS simulator: SimHidManager starts one      *)
(* atomyx-sim-hid helper process and shares the attempt between callers;    *)
(* HidClient numbers the touches it writes to the helper, which performs    *)
(* them one at a time, and wakes the dispatch whose number a reply carries. *)
(* A client belongs to one selection and is connected once.                 *)
(***************************************************************************)
EXTENDS SidecarTransport

CONSTANTS
    Requests,   \* the requests that may touch the simulator
    MaxHelpers  \* bound on the helper processes started

ASSUME HelperBound == MaxHelpers \in Nat \ {0}

VARIABLES
    cur,        \* SimHidManager.entries: the simulator's latest attempt, 0 for none
    attempt,    \* n -> where its launch stands and the state of its entry
    proc,       \* n -> its process: "none", "running", "exited"
    told,       \* attempts whose context was cancelled or process signalled
    hid,        \* the HidClient of the latest selection, by generation
    frames,     \* touches the helper has received and not performed
    performed,  \* touches the helper performed, in order
    replies,    \* numbers on the replies not yet read
    slot,       \* request -> what its one-slot reply channel holds
    touch       \* request -> its dispatch: position or result, client, number

managerVars == <<cur, attempt, proc, told>>
clientVars == <<hid, frames, performed, replies, slot, touch>>
hidVars == <<managerVars, clientVars>>

Attempts == 1..MaxHelpers
HidErrors == {"rejected", "disconnected", "timeout", "cancelled", "unwritten", "notConnected"}

HidTypeOK ==
    /\ cur \in 0..MaxHelpers /\ told \subseteq Attempts
    /\ attempt \in [Attempts -> [at : {"none", "start", "handshake", "kill", "done"},
                                 state : {"idle", "spawning", "ready", "failed"}]]
    /\ proc \in [Attempts -> {"none", "running", "exited"}]
    /\ hid \in [gen : Nat, helper : 0..MaxHelpers, dead : BOOLEAN, closed : BOOLEAN,
                nextID : Nat, pending : SUBSET Requests]
    /\ frames \in Seq(Requests) /\ performed \in Seq(Requests) /\ replies \in Seq(Nat)
    /\ slot \in [Requests -> {"empty", "ok", "rejected", "disconnected"}]
    /\ touch \in [Requests -> [at : {"idle", "write", "await", "ok"} \cup HidErrors, gen : Nat, id : Nat]]

HidInit ==
    /\ cur = 0 /\ told = {}
    /\ attempt = [n \in Attempts |-> [at |-> "none", state |-> "idle"]]
    /\ proc = [n \in Attempts |-> "none"]
    /\ hid = [gen |-> 0, helper |-> 0, dead |-> TRUE, closed |-> FALSE, nextID |-> 1, pending |-> {}]
    /\ frames = <<>> /\ performed = <<>> /\ replies = <<>>
    /\ slot = [r \in Requests |-> "empty"]
    /\ touch = [r \in Requests |-> [at |-> "idle", gen |-> 0, id |-> 0]]

Running(n) == n # 0 /\ proc[n] = "running"

-----------------------------------------------------------------------------
(* SimHidManager and SimHidLauncher *)

Joinable(n) == n # 0 /\ attempt[n].state \in {"spawning", "ready"}

StartSimHid ==
    IF Joinable(cur) THEN UNCHANGED managerVars
    ELSE /\ cur < MaxHelpers /\ cur' = cur + 1
         /\ attempt' = [attempt EXCEPT ![cur + 1] = [at |-> "start", state |-> "spawning"]]
         /\ UNCHANGED <<proc, told>>

\* runLaunch closes the attempt's entry, under the manager's lock.
Launched(n, state) == attempt' = [attempt EXCEPT ![n] = [at |-> "done", state |-> state]]

\* The binary is missing, the context is cancelled, or the process starts.
StartProcess(n) ==
    /\ attempt[n].at = "start" /\ n \notin told
    /\ proc' = [proc EXCEPT ![n] = "running"]
    /\ attempt' = [attempt EXCEPT ![n].at = "handshake"]
    /\ UNCHANGED <<cur, told>>

StartFails(n) ==
    /\ attempt[n].at = "start" /\ main # "reaping"
    /\ Launched(n, "failed")
    /\ UNCHANGED <<cur, proc, told>>

Handshake(n) ==
    /\ attempt[n].at = "handshake" /\ proc[n] = "running" /\ main # "reaping"
    /\ Launched(n, "ready")
    /\ UNCHANGED <<cur, proc, told>>

\* An unreadable handshake, or end of output: Launch kills what it spawned.
HandshakeFails(n) ==
    /\ attempt[n].at = "handshake"
    /\ attempt' = [attempt EXCEPT ![n].at = "kill"] /\ told' = told \cup {n}
    /\ UNCHANGED <<cur, proc>>

\* Kill has reaped the process: it signals, and after two seconds insists.
Killed(n) ==
    /\ attempt[n].at = "kill" /\ proc[n] = "exited" /\ main # "reaping"
    /\ Launched(n, "failed")
    /\ UNCHANGED <<cur, proc, told>>

Launch(n) == StartProcess(n) \/ Handshake(n) \/ HandshakeFails(n) \/ Killed(n)

\* The helper exits, told to or not; what it had received dies with it.
HelperExits(n) ==
    /\ Running(n)
    /\ proc' = [proc EXCEPT ![n] = "exited"]
    /\ frames' = IF hid.helper = n THEN <<>> ELSE frames
    /\ UNCHANGED <<cur, attempt, told, hid, performed, replies, slot, touch>>

\* Every tracked attempt is cancelled and every ready helper killed.
DisposeManager == told' = told \cup ({cur} \ {0})

-----------------------------------------------------------------------------
(* HidClient *)

ConnectHid(n) ==
    /\ hid' = [gen |-> hid.gen + 1, helper |-> n, dead |-> FALSE, closed |-> FALSE,
               nextID |-> 1, pending |-> {}]
    /\ replies' = <<>>
    /\ UNCHANGED <<frames, performed, slot, touch>>

Woken(pending) == [r \in Requests |-> IF r \in pending THEN "disconnected" ELSE slot[r]]

\* readLoop fails: every pending dispatch is told (handleDisconnect).
ReadLoopEnds ==
    /\ ~hid.dead /\ ~Running(hid.helper)
    /\ hid' = [hid EXCEPT !.dead = TRUE, !.pending = {}] /\ slot' = Woken(hid.pending)
    /\ UNCHANGED <<frames, performed, replies, touch>>

DisposeHid ==
    IF hid.dead THEN UNCHANGED clientVars
    ELSE /\ hid' = [hid EXCEPT !.dead = TRUE, !.closed = TRUE, !.pending = {}]
         /\ slot' = Woken(hid.pending)
         /\ UNCHANGED <<frames, performed, replies, touch>>

Ends(r, result) == touch' = [touch EXCEPT ![r].at = result]
RemovePending(r) ==
    hid' = IF touch[r].gen = hid.gen THEN [hid EXCEPT !.pending = @ \ {r}] ELSE hid

\* Mutant: the counter is read and bumped in two critical sections.
RegisterReused(r, gen) ==
    /\ touch[r].at = "idle"
    /\ IF parentDone \/ gen # hid.gen \/ hid.dead
       THEN Ends(r, IF parentDone THEN "cancelled" ELSE "notConnected") /\ UNCHANGED hid
       ELSE /\ touch' = [touch EXCEPT ![r] = [at |-> "write", gen |-> gen, id |-> 1]]
            /\ hid' = [hid EXCEPT !.pending = @ \cup {r}]
    /\ UNCHANGED <<frames, performed, replies, slot>>

\* dispatch registers under mu; gen is the client of the caller's selection.
Register(r, gen) ==
    /\ touch[r].at = "idle"
    /\ IF parentDone \/ gen # hid.gen \/ hid.dead
       THEN Ends(r, IF parentDone THEN "cancelled" ELSE "notConnected") /\ UNCHANGED hid
       ELSE /\ touch' = [touch EXCEPT ![r] = [at |-> "write", gen |-> gen, id |-> hid.nextID]]
            /\ hid' = [hid EXCEPT !.nextID = @ + 1, !.pending = @ \cup {r}]
    /\ UNCHANGED <<frames, performed, replies, slot>>

Closed(r) == touch[r].gen # hid.gen \/ hid.closed

\* A frame written to a socket whose helper is gone may still be accepted.
WriteFrame(r) ==
    /\ touch[r].at = "write" /\ ~Closed(r)
    /\ frames' = IF Running(hid.helper) THEN Append(frames, r) ELSE frames
    /\ Ends(r, "await")
    /\ UNCHANGED <<hid, performed, replies, slot>>

WriteFails(r) ==
    /\ touch[r].at = "write" /\ (Closed(r) \/ ~Running(hid.helper))
    /\ RemovePending(r) /\ Ends(r, "unwritten")
    /\ UNCHANGED <<frames, performed, replies, slot>>

\* The helper performs a touch, to its end, and then answers it.
HelperPerforms ==
    /\ frames # <<>>
    /\ frames' = Tail(frames) /\ performed' = Append(performed, Head(frames))
    /\ replies' = IF touch[Head(frames)].gen = hid.gen /\ ~hid.dead
                  THEN Append(replies, touch[Head(frames)].id) ELSE replies
    /\ UNCHANGED <<hid, slot, touch>>

\* handleLine: a reply nobody waits for any more is dropped.
HandleLine(ok) ==
    /\ ~hid.dead /\ replies # <<>>
    /\ LET asked == {r \in hid.pending : touch[r].id = Head(replies)}
       IN  /\ hid' = [hid EXCEPT !.pending = @ \ asked]
           /\ slot' = [r \in Requests |->
                         IF r \notin asked THEN slot[r] ELSE IF ok THEN "ok" ELSE "rejected"]
    /\ replies' = Tail(replies)
    /\ UNCHANGED <<frames, performed, touch>>

Replied(r) ==
    /\ touch[r].at = "await" /\ slot[r] # "empty"
    /\ Ends(r, slot[r])
    /\ UNCHANGED <<hid, frames, performed, replies, slot>>

GivesUp(r, result) ==
    /\ touch[r].at = "await" /\ result \in {"timeout", "cancelled"}
    /\ result = "cancelled" => parentDone
    /\ RemovePending(r) /\ Ends(r, result)
    /\ UNCHANGED <<frames, performed, replies, slot>>
=============================================================================
