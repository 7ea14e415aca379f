------------------------------ MODULE TCPClient ------------------------------
(***************************************************************************)
(* The iOS wire client, core/internal/transport/tcp_client.go: concurrent   *)
(* Call invocations multiplexed by request id over one socket, Connect and  *)
(* Close invocations that replace or drop that socket, and one readLoop     *)
(* goroutine per socket.                                                    *)
(*                                                                         *)
(* Every element of Calls, Connects and Closes is one invocation, so no     *)
(* counter of the model is unbounded. A socket is named by the Connect that *)
(* dialed it. Each action is one critical section of mu, or one blocking    *)
(* operation between two of them; the sends of rejectAll and handleLine go  *)
(* to buffered channels of single waiters and are part of the step that     *)
(* took the waiter out of the pending map.                                  *)
(***************************************************************************)
EXTENDS Naturals, Sequences

CONSTANTS
  Calls,      \* the Call invocations
  Connects,   \* the Connect invocations
  Closes,     \* the Close invocations
  Deadlined,  \* the calls whose context carries a deadline of its own
  Nil         \* no socket

ASSUME TCPClientAssumption ==
  /\ Deadlined \subseteq Calls
  /\ Nil \notin Connects
  /\ Connects \cap Closes = {}

VARIABLES
  \* the fields of TCPClient that mu guards
  conn, generation, nextID, pending, dead,
  \* writeMu: the call that holds it, or none
  writeHolder,
  \* locals of a Call
  pc, callConn, callGen, callId, ch, result,
  \* locals of a Connect and of a Close: the socket and the waiters it took
  dialPc, closePc, taken, victims,
  \* one readLoop per socket
  reader, readerGen,
  \* the two ends of every socket and what travels between them
  sock, peer, torn, inbox, replies

client    == <<conn, generation, nextID, pending, dead>>
callVars  == <<pc, callConn, callGen, callId, ch, result>>
ownerVars == <<dialPc, closePc, taken, victims>>
readVars  == <<reader, readerGen>>
netVars   == <<sock, peer, torn, inbox, replies>>
vars == <<client, writeHolder, callVars, ownerVars, readVars, netVars>>

Owners == Connects \cup Closes

NoCall == "free"

Outcomes == {"ok", "driver-error", "disconnected", "not-connected", "ctx",
             "write-timeout", "response-timeout", "encode-error"}

\* What a waiter's channel or a returned call carries: the outcome and, for an
\* answer of the agent, the call whose request was answered.
Message == [out : Outcomes, of : Calls]

Reply == [id : Nat, of : Calls, ok : BOOLEAN]

-----------------------------------------------------------------------------
(* The state NewTCPClient returns, before any invocation.                   *)

Init ==
  /\ conn = Nil /\ generation = 0 /\ nextID = 0 /\ pending = {} /\ dead = TRUE
  /\ writeHolder = NoCall
  /\ pc = [c \in Calls |-> "idle"]
  /\ callConn = [c \in Calls |-> Nil]
  /\ callGen = [c \in Calls |-> 0]
  /\ callId = [c \in Calls |-> 0]
  /\ ch = [c \in Calls |-> <<>>]
  /\ result = [c \in Calls |-> <<>>]
  /\ dialPc = [k \in Connects |-> "idle"]
  /\ closePc = [x \in Closes |-> "idle"]
  /\ taken = [o \in Owners |-> Nil]
  /\ victims = [o \in Owners |-> {}]
  /\ reader = [k \in Connects |-> "none"]
  /\ readerGen = [k \in Connects |-> 0]
  /\ sock = [k \in Connects |-> "none"]
  /\ peer = [k \in Connects |-> "none"]
  /\ torn = [k \in Connects |-> FALSE]
  /\ inbox = [k \in Connects |-> {}]
  /\ replies = [k \in Connects |-> {}]

-----------------------------------------------------------------------------
(* Helpers.                                                                 *)

\* rejectAll: one error to the channel of every waiter of the set.
rejectAll(ws) ==
  ch' = [c \in Calls |->
           IF c \in ws THEN Append(ch[c], [out |-> "disconnected", of |-> c]) ELSE ch[c]]

\* Mutant of handleDisconnect: no generation test.
HandleDisconnectAnyGeneration(gen) ==
  IF dead
  THEN UNCHANGED <<conn, pending, dead, ch>>
  ELSE /\ dead' = TRUE
       /\ conn' = Nil
       /\ pending' = {}
       /\ rejectAll(pending)

\* Mutant of handleDisconnect: the pending calls are dropped without an error.
HandleDisconnectSilently(gen) ==
  IF dead \/ gen # generation
  THEN UNCHANGED <<conn, pending, dead, ch>>
  ELSE dead' = TRUE /\ conn' = Nil /\ pending' = {} /\ UNCHANGED ch

\* handleDisconnect(gen): a no-op for a superseded generation.
handleDisconnect(gen) ==
  IF dead \/ gen # generation
  THEN UNCHANGED <<conn, pending, dead, ch>>
  ELSE /\ dead' = TRUE
       /\ conn' = Nil
       /\ pending' = {}
       /\ rejectAll(pending)

Return(c, out) ==
  /\ pc' = [pc EXCEPT ![c] = "done"]
  /\ result' = [result EXCEPT ![c] = <<[out |-> out, of |-> c]>>]

-----------------------------------------------------------------------------
(* Call.                                                                    *)

\* The early returns: a context already done, or no live connection.
CallRefused(c) ==
  /\ pc[c] = "idle"
  /\ \/ Return(c, "ctx")
     \/ /\ dead \/ conn = Nil
        /\ Return(c, "not-connected")
  /\ UNCHANGED <<client, writeHolder, callConn, callGen, callId, ch,
                 ownerVars, readVars, netVars>>

\* The registration: the snapshot of conn and generation, the fresh id, and the
\* pending entry. pending is a Go map, so an entry of the same id is replaced.
CallRegister(c) ==
  /\ pc[c] = "idle"
  /\ ~dead /\ conn # Nil
  /\ nextID' = nextID + 1
  /\ callId' = [callId EXCEPT ![c] = nextID']
  /\ callConn' = [callConn EXCEPT ![c] = conn]
  /\ callGen' = [callGen EXCEPT ![c] = generation]
  /\ pending' = {d \in pending : callId[d] # nextID'} \cup {c}
  /\ pc' = [pc EXCEPT ![c] = "registered"]
  /\ UNCHANGED <<conn, generation, dead, writeHolder, ch, result,
                 ownerVars, readVars, netVars>>

\* Arguments that json.Marshal refuses.
CallEncodeFails(c) ==
  /\ pc[c] = "registered"
  /\ pending' = pending \ {c}
  /\ Return(c, "encode-error")
  /\ UNCHANGED <<conn, generation, nextID, dead, writeHolder, callConn, callGen,
                 callId, ch, ownerVars, readVars, netVars>>

CallLockWrite(c) ==
  /\ pc[c] = "registered"
  /\ writeHolder = NoCall
  /\ writeHolder' = c
  /\ pc' = [pc EXCEPT ![c] = "writing"]
  /\ UNCHANGED <<client, callConn, callGen, callId, ch, result,
                 ownerVars, readVars, netVars>>

\* conn.Write returned without error. The line reaches the agent unless the
\* agent is gone, or an earlier write stopped midway and the two run together
\* into one line the agent cannot parse.
CallWrite(c) ==
  LET k == callConn[c] IN
  /\ pc[c] = "writing"
  /\ sock[k] = "open"
  /\ inbox' = IF peer[k] = "up" /\ ~torn[k]
              THEN [inbox EXCEPT ![k] = @ \cup {[id |-> callId[c], of |-> c]}]
              ELSE inbox
  /\ torn' = [torn EXCEPT ![k] = FALSE]
  /\ writeHolder' = NoCall
  /\ pc' = [pc EXCEPT ![c] = "waiting"]
  /\ UNCHANGED <<client, callConn, callGen, callId, ch, result,
                 ownerVars, readVars, sock, peer, replies>>

\* conn.Write failed: its deadline passed on an open socket, perhaps midway
\* through the line, or the socket is closed or its peer gone. result keeps the
\* error CallTearDown returns.
CallWriteFails(c) ==
  LET k == callConn[c] IN
  /\ pc[c] = "writing"
  /\ \/ /\ sock[k] = "open"
        /\ result' = [result EXCEPT ![c] =
             <<[out |-> IF c \in Deadlined THEN "ctx" ELSE "write-timeout", of |-> c]>>]
        /\ torn' \in {torn, [torn EXCEPT ![k] = TRUE]}
     \/ /\ sock[k] = "closed" \/ peer[k] = "down"
        /\ result' = [result EXCEPT ![c] = <<[out |-> "disconnected", of |-> c]>>]
        /\ UNCHANGED torn
  /\ writeHolder' = NoCall
  /\ pc' = [pc EXCEPT ![c] = "writeFailed"]
  /\ UNCHANGED <<client, callConn, callGen, callId, ch,
                 ownerVars, readVars, sock, peer, inbox, replies>>

CallRemovePending(c) ==
  /\ pc[c] = "writeFailed"
  /\ pending' = pending \ {c}
  /\ pc' = [pc EXCEPT ![c] = "tearing"]
  /\ UNCHANGED <<conn, generation, nextID, dead, writeHolder, callConn, callGen,
                 callId, ch, result, ownerVars, readVars, netVars>>

CallTearDown(c) ==
  /\ pc[c] = "tearing"
  /\ handleDisconnect(callGen[c])
  /\ pc' = [pc EXCEPT ![c] = "done"]
  /\ UNCHANGED <<generation, nextID, writeHolder, callConn, callGen, callId, result,
                 ownerVars, readVars, netVars>>

\* The three arms of the final select.
CallReceive(c) ==
  /\ pc[c] = "waiting"
  /\ ch[c] # <<>>
  /\ result' = [result EXCEPT ![c] = <<Head(ch[c])>>]
  /\ ch' = [ch EXCEPT ![c] = Tail(@)]
  /\ pc' = [pc EXCEPT ![c] = "done"]
  /\ UNCHANGED <<client, writeHolder, callConn, callGen, callId,
                 ownerVars, readVars, netVars>>

CallGivesUp(c) ==
  /\ pc[c] = "waiting"
  /\ \/ Return(c, "ctx")
     \/ /\ c \notin Deadlined
        /\ Return(c, "response-timeout")
  /\ pending' = pending \ {c}
  /\ UNCHANGED <<conn, generation, nextID, dead, writeHolder, callConn, callGen,
                 callId, ch, ownerVars, readVars, netVars>>

Call(c) ==
  \/ CallRefused(c) \/ CallRegister(c) \/ CallEncodeFails(c) \/ CallLockWrite(c)
  \/ CallWrite(c) \/ CallWriteFails(c) \/ CallRemovePending(c) \/ CallTearDown(c)
  \/ CallReceive(c) \/ CallGivesUp(c)

-----------------------------------------------------------------------------
(* Connect and Close.                                                       *)

\* dialWithRetry returns: a socket, or the budget or the context ran out.
ConnectDial(k) ==
  /\ dialPc[k] = "idle"
  /\ \/ /\ dialPc' = [dialPc EXCEPT ![k] = "dialed"]
        /\ sock' = [sock EXCEPT ![k] = "open"]
        /\ peer' = [peer EXCEPT ![k] = "up"]
     \/ /\ dialPc' = [dialPc EXCEPT ![k] = "failed"]
        /\ UNCHANGED <<sock, peer>>
  /\ UNCHANGED <<client, writeHolder, callVars, closePc, taken, victims,
                 readVars, torn, inbox, replies>>

\* Mutant of ConnectSwap: request ids start again with every connection.
ConnectSwapRestartsIds(k) ==
  /\ dialPc[k] = "dialed"
  /\ taken' = [taken EXCEPT ![k] = conn]
  /\ victims' = [victims EXCEPT ![k] = IF dead THEN {} ELSE pending]
  /\ generation' = generation + 1
  /\ readerGen' = [readerGen EXCEPT ![k] = generation']
  /\ conn' = k
  /\ dead' = FALSE
  /\ pending' = {}
  /\ nextID' = 0
  /\ dialPc' = [dialPc EXCEPT ![k] = "swapped"]
  /\ UNCHANGED <<writeHolder, callVars, closePc, reader, netVars>>

\* Mutant of ConnectSwap: the reader is given the generation before the bump.
ConnectSwapReadsGenerationEarly(k) ==
  /\ dialPc[k] = "dialed"
  /\ taken' = [taken EXCEPT ![k] = conn]
  /\ victims' = [victims EXCEPT ![k] = IF dead THEN {} ELSE pending]
  /\ generation' = generation + 1
  /\ readerGen' = [readerGen EXCEPT ![k] = generation]
  /\ conn' = k
  /\ dead' = FALSE
  /\ pending' = {}
  /\ dialPc' = [dialPc EXCEPT ![k] = "swapped"]
  /\ UNCHANGED <<nextID, writeHolder, callVars, closePc, reader, netVars>>

\* The critical section that installs the new socket. victims are the waiters
\* rejectAll will wake: none when the client was already dead.
ConnectSwap(k) ==
  /\ dialPc[k] = "dialed"
  /\ taken' = [taken EXCEPT ![k] = conn]
  /\ victims' = [victims EXCEPT ![k] = IF dead THEN {} ELSE pending]
  /\ generation' = generation + 1
  /\ readerGen' = [readerGen EXCEPT ![k] = generation']
  /\ conn' = k
  /\ dead' = FALSE
  /\ pending' = {}
  /\ dialPc' = [dialPc EXCEPT ![k] = "swapped"]
  /\ UNCHANGED <<nextID, writeHolder, callVars, closePc, reader, netVars>>

CloseSocket(k) ==
  sock' = IF k = Nil THEN sock ELSE [sock EXCEPT ![k] = "closed"]

\* Outside mu: the old socket is closed, its waiters woken, readLoop started.
ConnectFinish(k) ==
  /\ dialPc[k] = "swapped"
  /\ CloseSocket(taken[k])
  /\ rejectAll(victims[k])
  /\ victims' = [victims EXCEPT ![k] = {}]
  /\ reader' = [reader EXCEPT ![k] = "running"]
  /\ dialPc' = [dialPc EXCEPT ![k] = "connected"]
  /\ UNCHANGED <<client, writeHolder, pc, callConn, callGen, callId, result,
                 closePc, taken, readerGen, peer, torn, inbox, replies>>

CloseBegin(x) ==
  /\ closePc[x] = "idle"
  /\ taken' = [taken EXCEPT ![x] = conn]
  /\ victims' = [victims EXCEPT ![x] = IF dead THEN {} ELSE pending]
  /\ conn' = Nil
  /\ dead' = TRUE
  /\ generation' = generation + 1
  /\ pending' = {}
  /\ closePc' = [closePc EXCEPT ![x] = "closing"]
  /\ UNCHANGED <<nextID, writeHolder, callVars, dialPc, readVars, netVars>>

CloseFinish(x) ==
  /\ closePc[x] = "closing"
  /\ CloseSocket(taken[x])
  /\ rejectAll(victims[x])
  /\ victims' = [victims EXCEPT ![x] = {}]
  /\ closePc' = [closePc EXCEPT ![x] = "closed"]
  /\ UNCHANGED <<client, writeHolder, pc, callConn, callGen, callId, result,
                 dialPc, taken, readVars, peer, torn, inbox, replies>>

-----------------------------------------------------------------------------
(* readLoop.                                                                *)

\* Mutant of ReadLine: the waiter stays in the pending map.
ReadLineKeepsWaiter(k) ==
  /\ reader[k] = "running"
  /\ \E r \in replies[k] :
       /\ replies' = [replies EXCEPT ![k] = @ \ {r}]
       /\ ch' = [c \in Calls |->
            IF c \in pending /\ callId[c] = r.id
            THEN Append(ch[c], [out |-> IF r.ok THEN "ok" ELSE "driver-error", of |-> r.of])
            ELSE ch[c]]
  /\ UNCHANGED <<client, writeHolder, pc, callConn, callGen,
                 callId, result, ownerVars, readVars, sock, peer, torn, inbox>>

\* handleLine: the frame's waiter, if it is still pending, gets the answer.
ReadLine(k) ==
  /\ reader[k] = "running"
  /\ \E r \in replies[k] :
       LET ws == {c \in pending : callId[c] = r.id} IN
       /\ replies' = [replies EXCEPT ![k] = @ \ {r}]
       /\ pending' = pending \ ws
       /\ ch' = [c \in Calls |->
            IF c \in ws
            THEN Append(ch[c], [out |-> IF r.ok THEN "ok" ELSE "driver-error", of |-> r.of])
            ELSE ch[c]]
  /\ UNCHANGED <<conn, generation, nextID, dead, writeHolder, pc, callConn, callGen,
                 callId, result, ownerVars, readVars, sock, peer, torn, inbox>>

\* ReadString failed: this side closed the socket, or the peer did. Frames not
\* yet read may be lost with it.
ReadEnds(k) ==
  /\ reader[k] = "running"
  /\ sock[k] = "closed" \/ peer[k] = "down"
  /\ handleDisconnect(readerGen[k])
  /\ reader' = [reader EXCEPT ![k] = "ended"]
  /\ UNCHANGED <<generation, nextID, writeHolder, pc, callConn, callGen, callId,
                 result, ownerVars, readerGen, netVars>>

-----------------------------------------------------------------------------
(* The agent's end of a socket (external): it answers requests in any order *)
(* and may go away at any time.                                             *)

AgentAnswers(k) ==
  /\ peer[k] = "up"
  /\ \E q \in inbox[k], ok \in BOOLEAN :
       /\ inbox' = [inbox EXCEPT ![k] = @ \ {q}]
       /\ replies' = [replies EXCEPT ![k] = @ \cup {[id |-> q.id, of |-> q.of, ok |-> ok]}]
  /\ UNCHANGED <<client, writeHolder, callVars, ownerVars, readVars, sock, peer, torn>>

AgentGone(k) ==
  /\ peer[k] = "up"
  /\ peer' = [peer EXCEPT ![k] = "down"]
  /\ UNCHANGED <<client, writeHolder, callVars, ownerVars, readVars, sock, torn,
                 inbox, replies>>

-----------------------------------------------------------------------------

Next ==
  \/ \E c \in Calls : Call(c)
  \/ \E k \in Connects : \/ ConnectDial(k) \/ ConnectSwap(k) \/ ConnectFinish(k)
                         \/ ReadLine(k) \/ ReadEnds(k)
                         \/ AgentAnswers(k) \/ AgentGone(k)
  \/ \E x \in Closes : CloseBegin(x) \/ CloseFinish(x)

Spec == Init /\ [][Next]_vars

\* Go keeps running every goroutine that can run. Contexts and timers are left
\* out on purpose: a waiter must be woken by the client, not by its own timeout.
Fairness ==
  /\ \A c \in Calls : WF_vars(CallLockWrite(c)) /\ WF_vars(CallWrite(c) \/ CallWriteFails(c))
                      /\ WF_vars(CallRemovePending(c)) /\ WF_vars(CallTearDown(c))
                      /\ WF_vars(CallReceive(c))
  /\ \A k \in Connects : WF_vars(ConnectSwap(k)) /\ WF_vars(ConnectFinish(k)) /\ WF_vars(ReadEnds(k))
  /\ \A x \in Closes : WF_vars(CloseFinish(x))

FairSpec == Spec /\ Fairness

-----------------------------------------------------------------------------
(* Properties.                                                              *)

TypeOK ==
  /\ conn \in Connects \cup {Nil}
  /\ generation \in Nat /\ nextID \in Nat
  /\ pending \subseteq Calls
  /\ dead \in BOOLEAN
  /\ writeHolder \in Calls \cup {NoCall}
  /\ pc \in [Calls -> {"idle", "registered", "writing", "writeFailed", "tearing",
                       "waiting", "done"}]
  /\ callConn \in [Calls -> Connects \cup {Nil}]
  /\ callGen \in [Calls -> Nat]
  /\ callId \in [Calls -> Nat]
  /\ ch \in [Calls -> Seq(Message)]
  /\ result \in [Calls -> Seq(Message)]
  /\ dialPc \in [Connects -> {"idle", "dialed", "failed", "swapped", "connected"}]
  /\ closePc \in [Closes -> {"idle", "closing", "closed"}]
  /\ taken \in [Owners -> Connects \cup {Nil}]
  /\ victims \in [Owners -> SUBSET Calls]
  /\ reader \in [Connects -> {"none", "running", "ended"}]
  /\ readerGen \in [Connects -> Nat]
  /\ sock \in [Connects -> {"none", "open", "closed"}]
  /\ peer \in [Connects -> {"none", "up", "down"}]
  /\ torn \in [Connects -> BOOLEAN]
  /\ inbox \in [Connects -> SUBSET [id : Nat, of : Calls]]
  /\ replies \in [Connects -> SUBSET Reply]

\* A call that returns the agent's answer returns the answer to its own request,
\* across reconnects and with late answers of abandoned calls still arriving on
\* a socket whose readLoop outlives it.
AnswersMatch ==
  \A c \in Calls : \A i \in DOMAIN result[c] :
    result[c][i].out \in {"ok", "driver-error"} => result[c][i].of = c

\* A waiter's channel holds one message and gets at most one, so neither
\* readLoop nor rejectAll ever blocks sending to it, whichever of an answer, a
\* lost connection, a reconnect and a Close reach the waiter first.
NeverBlockedOnWaiter == \A c \in Calls : Len(ch[c]) <= 1

\* A call that has registered and not been woken is still reachable: it is
\* pending on the live connection it was made on, or an invocation that took
\* the pending map away is about to wake it.
NoStrandedWaiter ==
  \A c \in Calls :
    pc[c] \in {"registered", "writing", "waiting"} /\ ch[c] = <<>> =>
      \/ c \in pending /\ ~dead /\ callGen[c] = generation
      \/ \E o \in Owners : c \in victims[o]

\* While the client reports itself connected, the readLoop of the current
\* generation runs (or Connect is about to start it), so a loss of the
\* connection cannot go unnoticed.
ConnectedIsWatched ==
  ~dead => /\ conn # Nil
           /\ readerGen[conn] = generation
           /\ dialPc[conn] = "swapped" \/ reader[conn] = "running"

\* The client goes from connected to dead only in a Close, or because the
\* connection it holds now failed: the peer went away, or a write on it did.
\* A failure seen late on a replaced socket never takes the new one down.
OnlyOwnFailureDisconnects ==
  [][~dead /\ dead' =>
       \/ closePc' # closePc
       \/ peer[conn] = "down"
       \/ \E c \in Calls : pc[c] = "tearing" /\ callConn[c] = conn]_vars

\* A call waiting on a connection that is lost, replaced or closed returns
\* without waiting for its context or the response timeout.
LossWakesWaiters ==
  \A c \in Calls :
    (pc[c] = "waiting" /\ (dead \/ callGen[c] # generation)) ~> (pc[c] = "done")

=============================================================================
