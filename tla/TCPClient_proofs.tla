--------------------------- MODULE TCPClient_proofs ---------------------------
(***************************************************************************)
(* Theorems about TCPClient for any number of calls, connects and closes.   *)
(***************************************************************************)
EXTENDS TCPClient, TLAPS

-----------------------------------------------------------------------------
(* Type correctness.                                                        *)

\* The state NewTCPClient returns is well typed.
LEMMA InitTypeOK == Init => TypeOK
  BY TCPClientAssumption
  DEF Init, TypeOK, Owners, NoCall

\* What a call leaves in a result or a channel is a Message.
LEMMA MessageType ==
  ASSUME NEW c \in Calls, NEW out \in Outcomes
  PROVE  /\ [out |-> out, of |-> c] \in Message
         /\ <<[out |-> out, of |-> c]>> \in Seq(Message)
<1>1. [out |-> out, of |-> c] \in Message
  BY DEF Message
<1> QED BY <1>1

\* The early returns of callInner leave a well-typed result.
LEMMA ReturnType ==
  ASSUME TypeOK, NEW c \in Calls, NEW out \in Outcomes, Return(c, out)
  PROVE  /\ pc' \in [Calls -> {"idle", "registered", "writing", "writeFailed",
                               "tearing", "waiting", "done"}]
         /\ result' \in [Calls -> Seq(Message)]
<1>1. <<[out |-> out, of |-> c]>> \in Seq(Message)
  BY MessageType
<1> QED BY <1>1 DEF TypeOK, Return

\* rejectAll appends well-typed messages.
LEMMA RejectType ==
  ASSUME TypeOK, NEW ws, rejectAll(ws)
  PROVE  ch' \in [Calls -> Seq(Message)]
<1>1. ASSUME NEW c \in Calls
      PROVE  Append(ch[c], [out |-> "disconnected", of |-> c]) \in Seq(Message)
  <2>1. [out |-> "disconnected", of |-> c] \in Message
    BY MessageType DEF Outcomes
  <2>2. ch[c] \in Seq(Message)
    BY DEF TypeOK
  <2> QED BY <2>1, <2>2
<1> QED BY <1>1 DEF TypeOK, rejectAll

\* Every step of a Call keeps the state well typed.
LEMMA CallTypeOK ==
  ASSUME TypeOK, NEW c \in Calls, Call(c)
  PROVE  TypeOK'
<1> USE DEF TypeOK, callVars, ownerVars, readVars, netVars, client
<1>1. CASE CallRefused(c)
  BY <1>1, ReturnType DEF CallRefused, Outcomes
<1>2. CASE CallRegister(c)
  BY <1>2 DEF CallRegister
<1>3. CASE CallEncodeFails(c)
  BY <1>3, ReturnType DEF CallEncodeFails, Outcomes
<1>4. CASE CallLockWrite(c)
  BY <1>4 DEF CallLockWrite
<1>5. CASE CallWrite(c)
  <2>1. [id |-> callId[c], of |-> c] \in [id : Nat, of : Calls]
    OBVIOUS
  <2>2. inbox' \in [Connects -> SUBSET [id : Nat, of : Calls]]
    BY <1>5, <2>1 DEF CallWrite
  <2> QED BY <1>5, <2>2 DEF CallWrite
<1>6. CASE CallWriteFails(c)
  <2>1. torn' \in [Connects -> BOOLEAN]
    BY <1>6 DEF CallWriteFails
  <2>2. \E out \in Outcomes : result' = [result EXCEPT ![c] = <<[out |-> out, of |-> c]>>]
    BY <1>6 DEF CallWriteFails, Outcomes
  <2>3. result' \in [Calls -> Seq(Message)]
    BY <2>2, MessageType
  <2> QED BY <1>6, <2>1, <2>3 DEF CallWriteFails
<1>7. CASE CallRemovePending(c)
  BY <1>7 DEF CallRemovePending
<1>8. CASE CallTearDown(c)
  <2>1. ch' \in [Calls -> Seq(Message)]
    BY <1>8, RejectType DEF CallTearDown, handleDisconnect
  <2> QED BY <1>8, <2>1 DEF CallTearDown, handleDisconnect
<1>9. CASE CallReceive(c)
  <2>1. ch[c] \in Seq(Message) /\ ch[c] # <<>>
    BY <1>9 DEF CallReceive
  <2>2. Head(ch[c]) \in Message /\ Tail(ch[c]) \in Seq(Message)
    BY <2>1
  <2>3. <<Head(ch[c])>> \in Seq(Message)
    BY <2>2
  <2> QED BY <1>9, <2>2, <2>3 DEF CallReceive
<1>10. CASE CallGivesUp(c)
  BY <1>10, ReturnType DEF CallGivesUp, Outcomes
<1> QED
  BY <1>1, <1>2, <1>3, <1>4, <1>5, <1>6, <1>7, <1>8, <1>9, <1>10 DEF Call

\* Every step of a Connect, of the readLoop and of the agent on the socket that
\* Connect dialed keeps the state well typed.
LEMMA SocketTypeOK ==
  ASSUME TypeOK, NEW k \in Connects,
         \/ ConnectDial(k) \/ ConnectSwap(k) \/ ConnectFinish(k)
         \/ ReadLine(k) \/ ReadEnds(k) \/ AgentAnswers(k) \/ AgentGone(k)
  PROVE  TypeOK'
<1> USE DEF TypeOK, callVars, ownerVars, readVars, netVars, client, Owners
<1>1. CASE ConnectDial(k)
  BY <1>1 DEF ConnectDial
<1>2. CASE ConnectSwap(k)
  <2>1. conn \in Connects \cup {Nil} /\ pending \in SUBSET Calls
    OBVIOUS
  <2>2. taken' \in [Owners -> Connects \cup {Nil}]
    BY <1>2, <2>1 DEF ConnectSwap
  <2>3. victims' \in [Owners -> SUBSET Calls]
    BY <1>2, <2>1 DEF ConnectSwap
  <2>4. generation' \in Nat /\ readerGen' \in [Connects -> Nat]
    BY <1>2 DEF ConnectSwap
  <2> QED BY <1>2, <2>2, <2>3, <2>4 DEF ConnectSwap
<1>3. CASE ConnectFinish(k)
  <2>1. ch' \in [Calls -> Seq(Message)]
    BY <1>3, RejectType DEF ConnectFinish
  <2>2. sock' \in [Connects -> {"none", "open", "closed"}]
    BY <1>3 DEF ConnectFinish, CloseSocket
  <2> QED BY <1>3, <2>1, <2>2 DEF ConnectFinish
<1>4. CASE ReadLine(k)
  <2>1. PICK r \in replies[k] :
          LET ws == {c \in pending : callId[c] = r.id} IN
          /\ replies' = [replies EXCEPT ![k] = @ \ {r}]
          /\ pending' = pending \ ws
          /\ ch' = [c \in Calls |->
               IF c \in ws
               THEN Append(ch[c], [out |-> IF r.ok THEN "ok" ELSE "driver-error", of |-> r.of])
               ELSE ch[c]]
    BY <1>4 DEF ReadLine
  <2>2. r.of \in Calls
    BY DEF Reply
  <2>3. [out |-> IF r.ok THEN "ok" ELSE "driver-error", of |-> r.of] \in Message
    BY <2>2, MessageType DEF Outcomes
  <2>4. ch' \in [Calls -> Seq(Message)]
    BY <2>1, <2>3
  <2> QED BY <1>4, <2>1, <2>4 DEF ReadLine
<1>5. CASE ReadEnds(k)
  <2>1. ch' \in [Calls -> Seq(Message)]
    BY <1>5, RejectType DEF ReadEnds, handleDisconnect
  <2> QED BY <1>5, <2>1 DEF ReadEnds, handleDisconnect
<1>6. CASE AgentAnswers(k)
  <2>1. PICK q \in inbox[k], ok \in BOOLEAN :
          /\ inbox' = [inbox EXCEPT ![k] = @ \ {q}]
          /\ replies' = [replies EXCEPT ![k] = @ \cup {[id |-> q.id, of |-> q.of, ok |-> ok]}]
    BY <1>6 DEF AgentAnswers
  <2>2. [id |-> q.id, of |-> q.of, ok |-> ok] \in Reply
    BY DEF Reply
  <2>3. inbox' \in [Connects -> SUBSET [id : Nat, of : Calls]]
    BY <2>1
  <2>4. replies' \in [Connects -> SUBSET Reply]
    BY <2>1, <2>2
  <2> QED BY <1>6, <2>3, <2>4 DEF AgentAnswers
<1>7. CASE AgentGone(k)
  BY <1>7 DEF AgentGone
<1> QED
  BY <1>1, <1>2, <1>3, <1>4, <1>5, <1>6, <1>7

\* Both halves of a Close keep the state well typed.
LEMMA CloseTypeOK ==
  ASSUME TypeOK, NEW x \in Closes, CloseBegin(x) \/ CloseFinish(x)
  PROVE  TypeOK'
<1> USE DEF TypeOK, callVars, ownerVars, readVars, netVars, client, Owners
<1>1. CASE CloseBegin(x)
  BY <1>1 DEF CloseBegin
<1>2. CASE CloseFinish(x)
  <2>1. ch' \in [Calls -> Seq(Message)]
    BY <1>2, RejectType DEF CloseFinish
  <2>2. sock' \in [Connects -> {"none", "open", "closed"}]
    BY <1>2 DEF CloseFinish, CloseSocket
  <2> QED BY <1>2, <2>1, <2>2 DEF CloseFinish
<1> QED BY <1>1, <1>2

\* A step of the client, or none, keeps the state well typed.
LEMMA NextTypeOK == TypeOK /\ [Next]_vars => TypeOK'
<1> SUFFICES ASSUME TypeOK, [Next]_vars PROVE TypeOK'
  OBVIOUS
<1>1. CASE Next
  BY <1>1, CallTypeOK, SocketTypeOK, CloseTypeOK DEF Next
<1>2. CASE UNCHANGED vars
  BY <1>2 DEF vars, client, callVars, ownerVars, readVars, netVars, TypeOK
<1> QED BY <1>1, <1>2

\* The client is well typed for every number of calls, connects and closes.
THEOREM TypeCorrect == Spec => []TypeOK
<1>1. Init => TypeOK
  BY InitTypeOK
<1>2. TypeOK /\ [Next]_vars => TypeOK'
  BY NextTypeOK
<1> QED BY <1>1, <1>2, PTL DEF Spec

-----------------------------------------------------------------------------
(* Answers reach the call that asked, and no waiter is sent to twice.       *)

\* A channel or a result that holds nothing, or one message of call c.
OwnMessage(messages, c) ==
  messages = <<>> \/ \E m \in Message : m.of = c /\ messages = <<m>>

\* Somebody will still send to the waiter: its answer's reader or who loses its
\* connection, through the pending map, or an invocation that took it away.
Held(c) == c \in pending \/ \E o \in Owners : c \in victims[o]

\* Ids are given once, and a frame carries the id of the call it is about.
IdsUnique ==
  /\ \A c \in Calls : callId[c] <= nextID
  /\ \A c \in Calls : pc[c] = "idle" => callId[c] = 0
  /\ \A c \in Calls : pc[c] \in {"registered", "writing"} => callId[c] # 0
  /\ \A c, d \in Calls : callId[c] = callId[d] /\ callId[c] # 0 => c = d
  /\ \A k \in Connects : \A q \in inbox[k] : q.id = callId[q.of] /\ q.id # 0
  /\ \A k \in Connects : \A q \in replies[k] : q.id = callId[q.of] /\ q.id # 0

\* A waiter is held in one place only, and while it is held its channel is empty.
HeldOnce ==
  /\ \A c \in Calls : pc[c] = "idle" => ~Held(c) /\ ch[c] = <<>>
  /\ \A c \in Calls : Held(c) => ch[c] = <<>>
  /\ \A c \in Calls, o \in Owners : c \in victims[o] =>
        c \notin pending /\ \A p \in Owners : c \in victims[p] => p = o

OwnMessages == \A c \in Calls : OwnMessage(ch[c], c) /\ OwnMessage(result[c], c)

IInv == TypeOK /\ IdsUnique /\ HeldOnce /\ OwnMessages

\* No call has registered yet.
LEMMA InitIInv == TypeOK /\ Init => IInv
  BY DEF Init, IInv, IdsUnique, HeldOnce, Held, OwnMessages, OwnMessage

\* Only a call's registration and its frames touch ids.
LEMMA CallIdsUnique ==
  ASSUME IInv, NEW c \in Calls, Call(c)
  PROVE  IdsUnique'
<1> USE DEF IInv, TypeOK
<1>1. CASE CallRegister(c)
  <2>1. /\ callId' = [callId EXCEPT ![c] = nextID + 1]
        /\ nextID' = nextID + 1
        /\ pc' = [pc EXCEPT ![c] = "registered"]
        /\ pc[c] = "idle"
        /\ UNCHANGED <<inbox, replies>>
    BY <1>1 DEF CallRegister, netVars
  <2>2. \A d \in Calls : callId[d] <= nextID /\ callId[d] \in Nat
    BY DEF IdsUnique
  <2>3. \A k \in Connects : \A q \in inbox[k] : q.of # c /\ q.of \in Calls
    BY <2>1 DEF IdsUnique
  <2>4. \A k \in Connects : \A q \in replies[k] : q.of # c /\ q.of \in Calls
    BY <2>1 DEF IdsUnique, Reply
  <2>5. \A d, e \in Calls : callId'[d] = callId'[e] /\ callId'[d] # 0 => d = e
    BY <2>1, <2>2 DEF IdsUnique
  <2>6. \A d \in Calls : callId'[d] <= nextID'
    BY <2>1, <2>2
  <2>7. \A d \in Calls : /\ pc'[d] = "idle" => callId'[d] = 0
                         /\ pc'[d] \in {"registered", "writing"} => callId'[d] # 0
    BY <2>1, <2>2 DEF IdsUnique
  <2>8. \A k \in Connects : \A q \in inbox'[k] : q.id = callId'[q.of] /\ q.id # 0
    BY <2>1, <2>3 DEF IdsUnique
  <2>9. \A k \in Connects : \A q \in replies'[k] : q.id = callId'[q.of] /\ q.id # 0
    BY <2>1, <2>4 DEF IdsUnique
  <2> QED BY <2>5, <2>6, <2>7, <2>8, <2>9 DEF IdsUnique
<1>2. CASE CallWrite(c)
  <2>1. /\ UNCHANGED <<nextID, callId, replies>>
        /\ pc' = [pc EXCEPT ![c] = "waiting"]
        /\ callId[c] # 0
    BY <1>2 DEF CallWrite, IdsUnique, client
  <2>2. \A k \in Connects : \A q \in inbox'[k] :
           q \in inbox[k] \/ q = [id |-> callId[c], of |-> c]
    BY <1>2 DEF CallWrite
  <2>3. \A k \in Connects : \A q \in inbox'[k] : q.id = callId[q.of] /\ q.id # 0
    BY <2>1, <2>2 DEF IdsUnique
  <2> QED BY <2>1, <2>3 DEF IdsUnique
<1>3. CASE ~CallRegister(c) /\ ~CallWrite(c)
  <2>1. /\ UNCHANGED <<nextID, callId, inbox, replies>>
        /\ \A d \in Calls : /\ pc'[d] = "idle" => pc[d] = "idle"
                            /\ pc'[d] \in {"registered", "writing"} =>
                                 pc[d] \in {"registered", "writing"}
    BY <1>3 DEF Call, CallRefused, CallEncodeFails, CallLockWrite, CallWriteFails,
       CallRemovePending, CallTearDown, CallReceive, CallGivesUp, Return, client, netVars
  <2> QED BY <2>1 DEF IdsUnique
<1> QED BY <1>1, <1>2, <1>3

\* The agent's answer carries the id of the request it answers.
LEMMA SocketIdsUnique ==
  ASSUME IInv, NEW k \in Connects,
         \/ ConnectDial(k) \/ ConnectSwap(k) \/ ConnectFinish(k)
         \/ ReadLine(k) \/ ReadEnds(k) \/ AgentAnswers(k) \/ AgentGone(k)
  PROVE  IdsUnique'
<1> USE DEF client, callVars, netVars
<1>1. UNCHANGED <<nextID, callId, pc>>
  BY DEF ConnectDial, ConnectSwap, ConnectFinish, ReadLine, ReadEnds, AgentAnswers,
         AgentGone
<1>2. CASE AgentAnswers(k)
  <2>1. PICK q \in inbox[k], ok \in BOOLEAN :
          /\ inbox' = [inbox EXCEPT ![k] = @ \ {q}]
          /\ replies' = [replies EXCEPT ![k] = @ \cup {[id |-> q.id, of |-> q.of, ok |-> ok]}]
    BY <1>2 DEF AgentAnswers
  <2>2. \A j \in Connects : inbox'[j] \subseteq inbox[j]
    BY <2>1 DEF IInv, TypeOK
  <2>3. \A j \in Connects : \A r \in replies'[j] :
           r \in replies[j] \/ (r.id = q.id /\ r.of = q.of)
    BY <2>1 DEF IInv, TypeOK
  <2>4. q.id = callId[q.of] /\ q.id # 0
    BY DEF IInv, IdsUnique
  <2>5. \A j \in Connects : \A r \in replies'[j] : r.id = callId[r.of] /\ r.id # 0
    BY <2>3, <2>4 DEF IInv, IdsUnique
  <2> QED BY <1>1, <2>2, <2>5 DEF IInv, IdsUnique
<1>3. CASE ~AgentAnswers(k)
  <2>1. UNCHANGED inbox /\ \A j \in Connects : replies'[j] \subseteq replies[j]
    <3>1. CASE ReadLine(k)
      <4>1. PICK r \in replies[k] : replies' = [replies EXCEPT ![k] = @ \ {r}]
        BY <3>1 DEF ReadLine
      <4> QED BY <3>1, <4>1 DEF ReadLine, IInv, TypeOK
    <3>2. CASE ~ReadLine(k)
      BY <1>3, <3>2 DEF ConnectDial, ConnectSwap, ConnectFinish, ReadEnds, AgentGone
    <3> QED BY <3>1, <3>2
  <2> QED BY <1>1, <2>1 DEF IInv, IdsUnique
<1> QED BY <1>2, <1>3

-----------------------------------------------------------------------------
\* Sending one message of its own to each of a set of held waiters, and holding
\* none of them any more, keeps the channels in order.
LEMMA DeliverPreserves ==
  ASSUME IInv, NEW ws \in SUBSET Calls, NEW sent \in [Calls -> Message],
         \A c \in ws : Held(c) /\ sent[c].of = c,
         ch' = [c \in Calls |-> IF c \in ws THEN Append(ch[c], sent[c]) ELSE ch[c]],
         \A c \in ws : ~Held(c)',
         pending' \subseteq pending,
         \A o \in Owners : victims'[o] \subseteq victims[o],
         \A c \in Calls : pc'[c] = "idle" => pc[c] = "idle",
         \A c \in Calls : OwnMessage(result'[c], c)
  PROVE  HeldOnce' /\ OwnMessages'
<1>1. \A c \in Calls : Held(c)' => Held(c)
  BY DEF Held
<1>2. ASSUME NEW c \in ws PROVE ch'[c] = <<sent[c]>>
  <2>1. ch[c] = <<>>
    BY DEF IInv, HeldOnce
  <2>2. ch'[c] = Append(ch[c], sent[c])
    OBVIOUS
  <2> QED BY <2>1, <2>2
<1>3. \A c \in Calls \ ws : ch'[c] = ch[c]
  OBVIOUS
<1>4. HeldOnce'
  BY <1>1, <1>3 DEF IInv, HeldOnce
<1>5. \A c \in Calls : OwnMessage(ch'[c], c)
  <2> TAKE c \in Calls
  <2>1. CASE c \in ws
    BY <2>1, <1>2 DEF OwnMessage
  <2>2. CASE c \notin ws
    BY <2>2, <1>3 DEF IInv, OwnMessages, OwnMessage
  <2> QED BY <2>1, <2>2
<1> QED BY <1>4, <1>5 DEF OwnMessages

\* rejectAll is such a delivery.
LEMMA RejectPreserves ==
  ASSUME IInv, NEW ws \in SUBSET Calls, rejectAll(ws),
         \A c \in ws : Held(c) /\ ~Held(c)',
         pending' \subseteq pending,
         \A o \in Owners : victims'[o] \subseteq victims[o],
         \A c \in Calls : pc'[c] = "idle" => pc[c] = "idle",
         \A c \in Calls : OwnMessage(result'[c], c)
  PROVE  HeldOnce' /\ OwnMessages'
<1> DEFINE sent == [c \in Calls |-> [out |-> "disconnected", of |-> c]]
<1>1. sent \in [Calls -> Message] /\ \A c \in Calls : sent[c].of = c
  BY DEF Message, Outcomes
<1>2. ch' = [c \in Calls |-> IF c \in ws THEN Append(ch[c], sent[c]) ELSE ch[c]]
  BY DEF rejectAll
<1> HIDE DEF sent
<1> QED BY <1>1, <1>2, DeliverPreserves

\* handleDisconnect wakes what is pending, or nobody.
LEMMA DisconnectPreserves ==
  ASSUME IInv, NEW gen \in Nat, handleDisconnect(gen), UNCHANGED victims,
         \A c \in Calls : pc'[c] = "idle" => pc[c] = "idle",
         \A c \in Calls : OwnMessage(result'[c], c)
  PROVE  HeldOnce' /\ OwnMessages'
<1>1. CASE dead \/ gen # generation
  BY <1>1 DEF handleDisconnect, IInv, HeldOnce, Held, OwnMessages
<1>2. CASE ~(dead \/ gen # generation)
  <2>1. rejectAll(pending) /\ pending' = {} /\ pending \in SUBSET Calls
    BY <1>2 DEF handleDisconnect, IInv, TypeOK
  <2>2. \A c \in pending : Held(c) /\ ~Held(c)'
    BY <2>1 DEF Held, IInv, HeldOnce, TypeOK
  <2> QED BY <2>1, <2>2, RejectPreserves
<1> QED BY <1>1, <1>2

\* A step that leaves the channels alone and holds no more waiters.
LEMMA QuietPreserves ==
  ASSUME IInv, UNCHANGED <<ch, victims>>, pending' \subseteq pending,
         \A c \in Calls : pc'[c] = "idle" => pc[c] = "idle",
         \A c \in Calls : OwnMessage(result'[c], c)
  PROVE  HeldOnce' /\ OwnMessages'
  BY DEF IInv, HeldOnce, Held, OwnMessages

\* What a call returns of its own accord is its own.
LEMMA OwnResult ==
  ASSUME IInv, NEW c \in Calls, NEW m \in Message, m.of = c,
         result' = [result EXCEPT ![c] = <<m>>]
  PROVE  \A d \in Calls : OwnMessage(result'[d], d)
  BY DEF IInv, TypeOK, OwnMessages, OwnMessage

\* The early returns of callInner are.
LEMMA ReturnOwn ==
  ASSUME IInv, NEW c \in Calls, NEW out \in Outcomes, Return(c, out)
  PROVE  /\ \A d \in Calls : OwnMessage(result'[d], d)
         /\ \A d \in Calls : pc'[d] = "idle" => pc[d] = "idle"
<1>1. [out |-> out, of |-> c] \in Message /\ [out |-> out, of |-> c].of = c
  BY DEF Message
<1>2. result' = [result EXCEPT ![c] = <<[out |-> out, of |-> c]>>]
  BY DEF Return
<1>3. \A d \in Calls : OwnMessage(result'[d], d)
  BY <1>1, <1>2, OwnResult
<1> QED BY <1>3 DEF Return, IInv, TypeOK

\* A step of a call holds no waiter twice and returns only what is its own.
LEMMA CallHeldOnce ==
  ASSUME IInv, NEW c \in Calls, Call(c)
  PROVE  HeldOnce' /\ OwnMessages'
<1> USE DEF client, callVars, ownerVars
<1>0. \A d \in Calls : OwnMessage(result[d], d)
  BY DEF IInv, OwnMessages
<1>1. CASE CallRefused(c)
  <2>1. PICK out \in Outcomes : Return(c, out)
    BY <1>1 DEF CallRefused, Outcomes
  <2> QED BY <1>1, <2>1, ReturnOwn, QuietPreserves DEF CallRefused
<1>2. CASE CallRegister(c)
  <2>1. /\ pending' \subseteq pending \cup {c} /\ UNCHANGED <<ch, victims, result>>
        /\ pc[c] = "idle" /\ pc' = [pc EXCEPT ![c] = "registered"]
    BY <1>2 DEF CallRegister
  <2>2. \A d \in Calls : pc'[d] = "idle" => pc[d] = "idle" /\ d # c
    BY <2>1 DEF IInv, TypeOK
  <2>3. ~Held(c) /\ ch[c] = <<>>
    BY <2>1 DEF IInv, HeldOnce
  <2>4. \A d \in Calls : Held(d)' => Held(d) \/ d = c
    BY <2>1 DEF Held
  <2>5. \A d \in Calls, o \in Owners : d \in victims'[o] => d # c /\ d \in victims[o]
    BY <2>1, <2>3 DEF Held
  <2>6. HeldOnce'
    BY <2>1, <2>2, <2>3, <2>4, <2>5 DEF IInv, HeldOnce
  <2> QED BY <2>1, <2>6 DEF IInv, OwnMessages
<1>3. CASE CallEncodeFails(c)
  BY <1>3, ReturnOwn, QuietPreserves DEF CallEncodeFails, Outcomes
<1>4. CASE CallLockWrite(c) \/ CallWrite(c) \/ CallRemovePending(c)
  <2>1. UNCHANGED <<ch, victims, result>> /\ pending' \subseteq pending
    BY <1>4 DEF CallLockWrite, CallWrite, CallRemovePending
  <2>2. \A d \in Calls : pc'[d] = "idle" => pc[d] = "idle"
    BY <1>4 DEF CallLockWrite, CallWrite, CallRemovePending, IInv, TypeOK
  <2> QED BY <1>0, <2>1, <2>2, QuietPreserves
<1>5. CASE CallWriteFails(c)
  <2>1. PICK out \in Outcomes : result' = [result EXCEPT ![c] = <<[out |-> out, of |-> c]>>]
    BY <1>5 DEF CallWriteFails, Outcomes
  <2>2. [out |-> out, of |-> c] \in Message /\ [out |-> out, of |-> c].of = c
    BY DEF Message
  <2>3. \A d \in Calls : OwnMessage(result'[d], d)
    BY <2>1, <2>2, OwnResult
  <2>4. UNCHANGED <<ch, victims, pending>>
    BY <1>5 DEF CallWriteFails
  <2>5. \A d \in Calls : pc'[d] = "idle" => pc[d] = "idle"
    BY <1>5 DEF CallWriteFails, IInv, TypeOK
  <2> QED BY <2>3, <2>4, <2>5, QuietPreserves
<1>6. CASE CallTearDown(c)
  <2>1. callGen[c] \in Nat /\ handleDisconnect(callGen[c]) /\ UNCHANGED <<victims, result>>
    BY <1>6 DEF CallTearDown, IInv, TypeOK
  <2>2. \A d \in Calls : pc'[d] = "idle" => pc[d] = "idle"
    BY <1>6 DEF CallTearDown, IInv, TypeOK
  <2> QED BY <1>0, <2>1, <2>2, DisconnectPreserves
<1>7. CASE CallReceive(c)
  <2>1. PICK m \in Message : m.of = c /\ ch[c] = <<m>>
    BY <1>7 DEF CallReceive, IInv, OwnMessages, OwnMessage
  <2>2. Head(ch[c]) = m /\ Tail(ch[c]) = <<>>
    BY <2>1
  <2>3. /\ result' = [result EXCEPT ![c] = <<m>>]
        /\ ch' = [ch EXCEPT ![c] = <<>>]
        /\ pc' = [pc EXCEPT ![c] = "done"]
        /\ UNCHANGED <<pending, victims>>
    BY <1>7, <2>2 DEF CallReceive
  <2>4. \A d \in Calls : OwnMessage(result'[d], d)
    BY <2>1, <2>3, OwnResult
  <2>5. \A d \in Calls : ch'[d] = ch[d] \/ ch'[d] = <<>>
    BY <2>3 DEF IInv, TypeOK
  <2>6. \A d \in Calls : pc'[d] = "idle" => pc[d] = "idle"
    BY <2>3 DEF IInv, TypeOK
  <2>7. HeldOnce'
    BY <2>3, <2>5, <2>6 DEF IInv, HeldOnce, Held
  <2> QED BY <2>4, <2>5, <2>7 DEF IInv, OwnMessages, OwnMessage
<1>8. CASE CallGivesUp(c)
  <2>1. PICK out \in Outcomes : Return(c, out)
    BY <1>8 DEF CallGivesUp, Outcomes
  <2> QED BY <1>8, <2>1, ReturnOwn, QuietPreserves DEF CallGivesUp
<1> QED BY <1>1, <1>2, <1>3, <1>4, <1>5, <1>6, <1>7, <1>8 DEF Call

\* The section of mu that takes the waiters away moves them from the pending map
\* to the invocation.
LEMMA TakePreserves ==
  ASSUME IInv, NEW o \in Owners, UNCHANGED <<pc, ch, result>>, pending' = {},
         victims' = [victims EXCEPT ![o] = IF dead THEN {} ELSE pending]
  PROVE  HeldOnce' /\ OwnMessages'
<1>1. \A p \in Owners : victims'[p] = IF p # o THEN victims[p] ELSE IF dead THEN {} ELSE pending
  BY DEF IInv, TypeOK
<1>2. \A c \in Calls : Held(c)' => Held(c)
  BY <1>1 DEF Held
<1>3. \A c \in Calls, p \in Owners : c \in victims'[p] =>
         c \notin pending' /\ \A q \in Owners : c \in victims'[q] => q = p
  BY <1>1 DEF IInv, HeldOnce
<1>4. HeldOnce'
  BY <1>2, <1>3 DEF IInv, HeldOnce
<1> QED BY <1>4 DEF IInv, OwnMessages

\* The waiters an invocation took are woken once.
LEMMA WakePreserves ==
  ASSUME IInv, NEW o \in Owners, UNCHANGED <<pc, pending, result>>,
         rejectAll(victims[o]), victims' = [victims EXCEPT ![o] = {}]
  PROVE  HeldOnce' /\ OwnMessages'
<1>1. victims[o] \in SUBSET Calls
  BY DEF IInv, TypeOK
<1>2. \A p \in Owners : victims'[p] = IF p = o THEN {} ELSE victims[p]
  BY DEF IInv, TypeOK
<1>3. \A c \in victims[o] : Held(c) /\ ~Held(c)'
  BY <1>1, <1>2 DEF Held, IInv, HeldOnce
<1>4. \A p \in Owners : victims'[p] \subseteq victims[p]
  BY <1>2
<1>5. \A c \in Calls : OwnMessage(result'[c], c)
  BY DEF IInv, OwnMessages
<1> QED BY <1>1, <1>3, <1>4, <1>5, RejectPreserves

\* Nor does a step of a Connect or of its socket: readLoop's frame goes to the one
\* call whose id it carries.
LEMMA SocketHeldOnce ==
  ASSUME IInv, NEW k \in Connects,
         \/ ConnectDial(k) \/ ConnectSwap(k) \/ ConnectFinish(k)
         \/ ReadLine(k) \/ ReadEnds(k) \/ AgentAnswers(k) \/ AgentGone(k)
  PROVE  HeldOnce' /\ OwnMessages'
<1> USE DEF client, callVars, ownerVars
<1>0. k \in Owners /\ \A d \in Calls : OwnMessage(result[d], d)
  BY DEF IInv, OwnMessages, Owners
<1>1. CASE ConnectDial(k) \/ AgentAnswers(k) \/ AgentGone(k)
  <2>1. UNCHANGED <<ch, victims, pending, result, pc>>
    BY <1>1 DEF ConnectDial, AgentAnswers, AgentGone
  <2> QED BY <1>0, <2>1, QuietPreserves
<1>2. CASE ConnectSwap(k)
  BY <1>0, <1>2, TakePreserves DEF ConnectSwap
<1>3. CASE ConnectFinish(k)
  BY <1>0, <1>3, WakePreserves DEF ConnectFinish
<1>4. CASE ReadLine(k)
  <2>1. PICK r \in replies[k] :
          LET ws == {c \in pending : callId[c] = r.id} IN
          /\ pending' = pending \ ws
          /\ ch' = [c \in Calls |->
               IF c \in ws
               THEN Append(ch[c], [out |-> IF r.ok THEN "ok" ELSE "driver-error", of |-> r.of])
               ELSE ch[c]]
    BY <1>4 DEF ReadLine
  <2> DEFINE ws == {c \in pending : callId[c] = r.id}
             m == [out |-> IF r.ok THEN "ok" ELSE "driver-error", of |-> r.of]
             sent == [c \in Calls |-> m]
  <2>2. r.of \in Calls /\ r.id = callId[r.of] /\ r.id # 0
    BY DEF IInv, TypeOK, IdsUnique, Reply
  <2>3. sent \in [Calls -> Message]
    BY <2>2 DEF Message, Outcomes
  <2>4. ws \in SUBSET Calls /\ \A c \in ws : c = r.of /\ c \in pending
    BY <2>2 DEF IInv, TypeOK, IdsUnique
  <2>5. ch' = [c \in Calls |-> IF c \in ws THEN Append(ch[c], sent[c]) ELSE ch[c]]
    BY <2>1
  <2>6. pending' = pending \ ws /\ UNCHANGED <<victims, result, pc>>
    BY <1>4, <2>1 DEF ReadLine
  <2>7. \A c \in ws : sent[c].of = c
    BY <2>4
  <2> HIDE DEF ws, m, sent
  <2>8. \A c \in ws : Held(c) /\ ~Held(c)'
    BY <2>4, <2>6 DEF Held, IInv, HeldOnce
  <2>9. \A c \in Calls : OwnMessage(result'[c], c)
    BY <1>0, <2>6
  <2> QED BY <2>3, <2>4, <2>5, <2>6, <2>7, <2>8, <2>9, DeliverPreserves
<1>5. CASE ReadEnds(k)
  <2>1. readerGen[k] \in Nat /\ handleDisconnect(readerGen[k]) /\ UNCHANGED <<victims, result, pc>>
    BY <1>5 DEF ReadEnds, IInv, TypeOK
  <2> QED BY <1>0, <2>1, DisconnectPreserves
<1> QED BY <1>1, <1>2, <1>3, <1>4, <1>5

\* Nor does a Close.
LEMMA CloseIInv ==
  ASSUME IInv, NEW x \in Closes, CloseBegin(x) \/ CloseFinish(x)
  PROVE  IdsUnique' /\ HeldOnce' /\ OwnMessages'
<1> USE DEF client, callVars, ownerVars, netVars
<1>0. x \in Owners
  BY DEF Owners
<1>1. UNCHANGED <<nextID, callId, pc, inbox, replies>>
  BY DEF CloseBegin, CloseFinish
<1>2. IdsUnique'
  BY <1>1 DEF IInv, IdsUnique
<1>3. CASE CloseBegin(x)
  BY <1>0, <1>2, <1>3, TakePreserves DEF CloseBegin
<1>4. CASE CloseFinish(x)
  BY <1>0, <1>2, <1>4, WakePreserves DEF CloseFinish
<1> QED BY <1>3, <1>4

\* A step of the client, or none, keeps the invariant.
LEMMA NextIInv == IInv /\ TypeOK' /\ [Next]_vars => IInv'
<1> SUFFICES ASSUME IInv, TypeOK', [Next]_vars PROVE IInv'
  OBVIOUS
<1>1. CASE Next
  <2>1. CASE \E c \in Calls : Call(c)
    BY <2>1, CallIdsUnique, CallHeldOnce DEF IInv
  <2>2. CASE \E k \in Connects : \/ ConnectDial(k) \/ ConnectSwap(k) \/ ConnectFinish(k)
                                 \/ ReadLine(k) \/ ReadEnds(k)
                                 \/ AgentAnswers(k) \/ AgentGone(k)
    BY <2>2, SocketIdsUnique, SocketHeldOnce DEF IInv
  <2>3. CASE \E x \in Closes : CloseBegin(x) \/ CloseFinish(x)
    BY <2>3, CloseIInv DEF IInv
  <2> QED BY <1>1, <2>1, <2>2, <2>3 DEF Next
<1>2. CASE UNCHANGED vars
  <2>1. UNCHANGED <<client, callVars, ownerVars, netVars>>
    BY <1>2 DEF vars
  <2> QED BY <2>1 DEF client, callVars, ownerVars, netVars, IInv, IdsUnique, HeldOnce, Held, OwnMessages
<1> QED BY <1>1, <1>2

\* The invariant holds in every state the client reaches.
LEMMA InvCorrect == Spec => []IInv
<1>1. Init => IInv
  BY InitTypeOK, InitIInv
<1>2. IInv /\ [Next]_vars => IInv'
  BY NextTypeOK, NextIInv DEF IInv
<1> QED BY <1>1, <1>2, PTL DEF Spec

\* A call never returns the answer to another call's request, however many calls,
\* reconnects and closes overlap (the id matching of handleLine).
THEOREM AnswersReachTheirCall == Spec => []AnswersMatch
<1>1. IInv => AnswersMatch
  BY DEF IInv, OwnMessages, OwnMessage, AnswersMatch
<1> QED BY <1>1, InvCorrect, PTL

\* No sender ever blocks on a waiter's one-slot channel, so mu is never held by a
\* goroutine that waits for a call to receive.
THEOREM SendersNeverBlock == Spec => []NeverBlockedOnWaiter
<1>1. ASSUME IInv, NEW c \in Calls PROVE Len(ch[c]) <= 1
  <2>1. CASE ch[c] = <<>>
    BY <2>1
  <2>2. CASE \E m \in Message : ch[c] = <<m>>
    BY <2>2
  <2> QED BY <1>1, <2>1, <2>2 DEF IInv, OwnMessages, OwnMessage
<1>2. IInv => NeverBlockedOnWaiter
  BY <1>1 DEF NeverBlockedOnWaiter
<1> QED BY <1>2, InvCorrect, PTL

-----------------------------------------------------------------------------
(* The connection is watched, its waiters are reachable, and only its own    *)
(* failure takes it down.                                                    *)

\* A Connect that has not installed its socket has left no trace of it.
FreshDials ==
  \A k \in Connects : dialPc[k] \in {"idle", "dialed", "failed"} =>
    /\ conn # k /\ sock[k] # "closed"
    /\ \A o \in Owners : taken[o] # k

\* The installed socket is read under the current generation, by nobody else's
\* reader, and no invocation is about to close it.
LiveConn ==
  /\ dead => conn = Nil
  /\ ~dead => /\ conn # Nil
              /\ dialPc[conn] = "swapped" \/ reader[conn] = "running"
              /\ sock[conn] # "closed"
              /\ \A o \in Owners : taken[o] # conn

\* A generation belongs to one installed socket: the readLoop and the calls that
\* carry the current one are those of the connection.
Generations ==
  /\ \A k \in Connects : readerGen[k] <= generation
  /\ \A c \in Calls : callGen[c] <= generation
  /\ ~dead => readerGen[conn] = generation
  /\ ~dead => \A k \in Connects : readerGen[k] = generation => k = conn
  /\ ~dead => \A c \in Calls : callGen[c] = generation => callConn[c] = conn

\* Waiters are in hand only between the two halves of a Connect or a Close.
VictimsInHand ==
  /\ \A k \in Connects : victims[k] # {} => dialPc[k] = "swapped"
  /\ \A x \in Closes : victims[x] # {} => closePc[x] = "closing"

LInv == IInv /\ FreshDials /\ LiveConn /\ Generations /\ VictimsInHand /\ NoStrandedWaiter

LEMMA InitLInv == Init /\ IInv => LInv
<1> SUFFICES ASSUME Init, IInv PROVE LInv
  OBVIOUS
<1>1. /\ conn = Nil /\ generation = 0 /\ dead
      /\ \A c \in Calls : pc[c] = "idle" /\ callGen[c] = 0
      /\ \A k \in Connects : readerGen[k] = 0 /\ sock[k] = "none" /\ k # Nil
      /\ \A o \in Owners : taken[o] = Nil /\ victims[o] = {}
  BY TCPClientAssumption DEF Init
<1>2. FreshDials
  BY <1>1 DEF FreshDials
<1>3. LiveConn /\ Generations
  BY <1>1 DEF LiveConn, Generations
<1>4. VictimsInHand
  BY <1>1 DEF VictimsInHand, Owners
<1>5. NoStrandedWaiter
  BY <1>1 DEF NoStrandedWaiter
<1> QED BY <1>2, <1>3, <1>4, <1>5 DEF LInv

\* What a step keeps that touches neither the connection nor its owners.
LEMMA ClientUnchanged ==
  ASSUME LInv, UNCHANGED <<conn, generation, dead, callConn, callGen, ownerVars,
                           readVars>>,
         \A k \in Connects : sock'[k] = "closed" => sock[k] = "closed"
  PROVE  FreshDials' /\ LiveConn' /\ Generations' /\ VictimsInHand'
  BY DEF LInv, IInv, TypeOK, ownerVars, readVars, FreshDials, LiveConn, Generations, VictimsInHand

\* handleDisconnect leaves no connection, or changes nothing.
LEMMA DisconnectUnchanged ==
  ASSUME LInv, NEW gen \in Nat, handleDisconnect(gen),
         UNCHANGED <<generation, callConn, callGen, ownerVars, readerGen, netVars>>,
         \A k \in Connects : reader'[k] # reader[k] => readerGen[k] = gen /\ reader'[k] = "ended"
  PROVE  FreshDials' /\ LiveConn' /\ Generations' /\ VictimsInHand'
<1> USE DEF ownerVars, netVars
<1>1. CASE dead \/ gen # generation
  <2>1. UNCHANGED <<conn, dead>>
    BY <1>1 DEF handleDisconnect
  <2>2. ~dead => reader'[conn] = reader[conn]
    BY <1>1 DEF LInv, IInv, TypeOK, LiveConn, Generations
  <2> QED BY <2>1, <2>2 DEF LInv, FreshDials, LiveConn, Generations, VictimsInHand
<1>2. CASE ~(dead \/ gen # generation)
  <2>1. dead' /\ conn' = Nil
    BY <1>2 DEF handleDisconnect
  <2> QED BY <2>1, TCPClientAssumption
          DEF LInv, FreshDials, LiveConn, Generations, VictimsInHand
<1> QED BY <1>1, <1>2

\* Nobody who waits is forgotten by handleDisconnect.
LEMMA DisconnectStrandsNone ==
  ASSUME LInv, NEW gen \in Nat, handleDisconnect(gen),
         UNCHANGED <<generation, callGen, victims>>,
         \A c \in Calls : pc'[c] # pc[c] => pc'[c] \notin {"registered", "writing", "waiting"}
  PROVE  NoStrandedWaiter'
<1> SUFFICES ASSUME NEW c \in Calls, pc'[c] \in {"registered", "writing", "waiting"},
                    ch'[c] = <<>>
             PROVE  \/ c \in pending' /\ ~dead' /\ callGen'[c] = generation'
                    \/ \E o \in Owners : c \in victims'[o]
  BY DEF NoStrandedWaiter
<1>1. CASE dead \/ gen # generation
  BY <1>1 DEF handleDisconnect, LInv, NoStrandedWaiter
<1>2. CASE ~(dead \/ gen # generation)
  <2>1. ch' = [d \in Calls |-> IF d \in pending
                 THEN Append(ch[d], [out |-> "disconnected", of |-> d]) ELSE ch[d]]
    BY <1>2 DEF handleDisconnect, rejectAll
  <2>2. c \notin pending
    <3> SUFFICES ASSUME c \in pending PROVE FALSE
      OBVIOUS
    <3> DEFINE m == [out |-> "disconnected", of |-> c]
    <3>1. ch[c] = <<>>
      BY DEF LInv, IInv, HeldOnce, Held
    <3>2. ch'[c] = Append(ch[c], m)
      BY <2>1
    <3>3. ch'[c] = <<m>>
      BY <3>1, <3>2
    <3>4. ch'[c] # <<>>
      <4> HIDE DEF m
      <4> QED BY <3>3
    <3> QED BY <3>4
  <2>3. ch[c] = <<>>
    BY <2>1, <2>2
  <2> QED BY <2>2, <2>3 DEF LInv, NoStrandedWaiter
<1> QED BY <1>1, <1>2

-----------------------------------------------------------------------------
\* A step of a call keeps the connection's facts.
LEMMA CallLInv ==
  ASSUME LInv, IInv', NEW c \in Calls, Call(c)
  PROVE  LInv'
<1> USE DEF client, callVars
<1>1. CASE CallRegister(c)
  <2>1. /\ UNCHANGED <<conn, generation, dead, ch, ownerVars, readVars, netVars>>
        /\ ~dead /\ pc[c] = "idle"
        /\ callConn' = [callConn EXCEPT ![c] = conn]
        /\ callGen' = [callGen EXCEPT ![c] = generation]
        /\ pc' = [pc EXCEPT ![c] = "registered"]
        /\ pending' = {d \in pending : callId[d] # nextID + 1} \cup {c}
    BY <1>1 DEF CallRegister
  <2>2. pending' = pending \cup {c}
    <3>1. \A d \in pending : callId[d] # nextID + 1
      BY DEF LInv, IInv, TypeOK, IdsUnique
    <3> QED BY <2>1, <3>1
  <2>3. \A d \in Calls : /\ callGen'[d] = IF d = c THEN generation ELSE callGen[d]
                         /\ callConn'[d] = IF d = c THEN conn ELSE callConn[d]
                         /\ d # c => pc'[d] = pc[d]
    BY <2>1 DEF LInv, IInv, TypeOK
  <2>4. FreshDials' /\ LiveConn' /\ VictimsInHand'
    BY <2>1 DEF LInv, ownerVars, readVars, netVars, FreshDials, LiveConn, VictimsInHand
  <2>5. Generations'
    BY <2>1, <2>3 DEF LInv, IInv, TypeOK, readVars, Generations
  <2>6. NoStrandedWaiter'
    BY <2>1, <2>2, <2>3 DEF LInv, ownerVars, NoStrandedWaiter
  <2> QED BY <2>4, <2>5, <2>6 DEF LInv
<1>2. CASE CallTearDown(c)
  <2>1. callGen[c] \in Nat
    BY DEF LInv, IInv, TypeOK
  <2>2. FreshDials' /\ LiveConn' /\ Generations' /\ VictimsInHand'
    BY <1>2, <2>1, DisconnectUnchanged DEF CallTearDown, readVars
  <2>3. \A d \in Calls : pc'[d] # pc[d] => pc'[d] = "done"
    BY <1>2 DEF CallTearDown, LInv, IInv, TypeOK
  <2>4. NoStrandedWaiter'
    BY <1>2, <2>1, <2>3, DisconnectStrandsNone DEF CallTearDown, ownerVars
  <2> QED BY <2>2, <2>4 DEF LInv
<1>3. CASE ~CallRegister(c) /\ ~CallTearDown(c)
  <2>1. /\ UNCHANGED <<conn, generation, dead, callConn, callGen, ownerVars, readVars, sock>>
        /\ \A d \in Calls : d # c => pc'[d] = pc[d] /\ ch'[d] = ch[d]
        /\ \A d \in pending : d # c => d \in pending'
    <3> USE DEF netVars, LInv, IInv, TypeOK
    <3>1. CASE CallRefused(c)
      BY <3>1 DEF CallRefused, Return
    <3>2. CASE CallEncodeFails(c)
      BY <3>2 DEF CallEncodeFails, Return
    <3>3. CASE CallGivesUp(c)
      BY <3>3 DEF CallGivesUp, Return
    <3>4. CASE CallLockWrite(c) \/ CallRemovePending(c)
      BY <3>4 DEF CallLockWrite, CallRemovePending
    <3>5. CASE CallWrite(c) \/ CallWriteFails(c)
      BY <3>5 DEF CallWrite, CallWriteFails
    <3>6. CASE CallReceive(c)
      BY <3>6 DEF CallReceive
    <3> QED BY <1>3, <3>1, <3>2, <3>3, <3>4, <3>5, <3>6 DEF Call
  <2>2. pc'[c] \in {"registered", "writing", "waiting"} =>
           /\ pc[c] \in {"registered", "writing"}
           /\ c \in pending => c \in pending'
           /\ ch'[c] = ch[c]
    BY <1>3 DEF Call, CallRefused, CallEncodeFails, CallLockWrite, CallWrite, CallWriteFails,
       CallRemovePending, CallReceive, CallGivesUp, Return, LInv, IInv, TypeOK
  <2>3. NoStrandedWaiter'
    BY <2>1, <2>2 DEF LInv, ownerVars, NoStrandedWaiter
  <2> QED BY <2>1, <2>3, ClientUnchanged DEF LInv
<1> QED BY <1>1, <1>2, <1>3

\* A frame that readLoop hands over wakes the call it takes out of the map.
LEMMA ReadLineStrandsNone ==
  ASSUME LInv, NEW k \in Connects, ReadLine(k)
  PROVE  NoStrandedWaiter'
<1>1. PICK r \in replies[k] :
        LET ws == {c \in pending : callId[c] = r.id} IN
        /\ pending' = pending \ ws
        /\ ch' = [c \in Calls |->
             IF c \in ws
             THEN Append(ch[c], [out |-> IF r.ok THEN "ok" ELSE "driver-error", of |-> r.of])
             ELSE ch[c]]
  BY DEF ReadLine
<1> DEFINE m == [out |-> IF r.ok THEN "ok" ELSE "driver-error", of |-> r.of]
<1>2. UNCHANGED <<conn, generation, dead, pc, callGen, victims>>
  BY DEF ReadLine, ownerVars
<1>3. ASSUME NEW c \in Calls, c \in pending, callId[c] = r.id
      PROVE  ch'[c] # <<>>
  <2>1. ch[c] = <<>>
    BY <1>3 DEF LInv, IInv, HeldOnce, Held
  <2>2. ch'[c] = Append(ch[c], m)
    BY <1>1, <1>3
  <2>3. ch'[c] = <<m>>
    BY <2>1, <2>2
  <2> QED BY <2>3
<1>4. \A c \in Calls : c \in pending /\ callId[c] # r.id => c \in pending' /\ ch'[c] = ch[c]
  BY <1>1
<1>5. \A c \in Calls : c \notin pending => ch'[c] = ch[c]
  BY <1>1
<1> QED BY <1>2, <1>3, <1>4, <1>5 DEF LInv, NoStrandedWaiter

\* Waking the waiters an invocation took leaves none of them without a message.
LEMMA WakeStrandsNone ==
  ASSUME LInv, NEW o \in Owners, rejectAll(victims[o]), victims' = [victims EXCEPT ![o] = {}],
         UNCHANGED <<pc, pending, dead, generation, callGen>>
  PROVE  NoStrandedWaiter'
<1> SUFFICES ASSUME NEW c \in Calls, pc'[c] \in {"registered", "writing", "waiting"},
                    ch'[c] = <<>>
             PROVE  \/ c \in pending' /\ ~dead' /\ callGen'[c] = generation'
                    \/ \E p \in Owners : c \in victims'[p]
  BY DEF NoStrandedWaiter
<1>1. c \notin victims[o]
  <2> SUFFICES ASSUME c \in victims[o] PROVE FALSE
    OBVIOUS
  <2>1. ch[c] = <<>>
    BY DEF LInv, IInv, HeldOnce, Held
  <2>2. ch'[c] = Append(ch[c], [out |-> "disconnected", of |-> c])
    BY DEF rejectAll
  <2>3. ch'[c] = <<[out |-> "disconnected", of |-> c]>>
    BY <2>1, <2>2
  <2> QED BY <2>3
<1>2. ch[c] = <<>>
  BY <1>1 DEF rejectAll
<1>3. \A p \in Owners : p # o => victims'[p] = victims[p]
  BY DEF LInv, IInv, TypeOK
<1> QED BY <1>1, <1>2, <1>3 DEF LInv, NoStrandedWaiter

\* Taking the pending map puts every waiter in hand.
LEMMA TakeStrandsNone ==
  ASSUME LInv, NEW o \in Owners, victims[o] = {},
         victims' = [victims EXCEPT ![o] = IF dead THEN {} ELSE pending],
         UNCHANGED <<pc, ch>>
  PROVE  NoStrandedWaiter'
<1>1. /\ \A p \in Owners : p # o => victims'[p] = victims[p]
      /\ victims'[o] = IF dead THEN {} ELSE pending
  BY DEF LInv, IInv, TypeOK
<1> QED BY <1>1 DEF LInv, NoStrandedWaiter

-----------------------------------------------------------------------------
\* Installing a socket.
LEMMA SwapLInv ==
  ASSUME LInv, IInv', NEW k \in Connects, ConnectSwap(k)
  PROVE  LInv'
<1>1. /\ dialPc[k] = "dialed"
      /\ dialPc' = [dialPc EXCEPT ![k] = "swapped"]
      /\ taken' = [taken EXCEPT ![k] = conn]
      /\ victims' = [victims EXCEPT ![k] = IF dead THEN {} ELSE pending]
      /\ generation' = generation + 1
      /\ readerGen' = [readerGen EXCEPT ![k] = generation + 1]
      /\ conn' = k /\ ~dead'
      /\ UNCHANGED <<pc, ch, callConn, callGen, closePc, reader, sock>>
  BY DEF ConnectSwap, callVars, netVars
<1>2. k \in Owners /\ k # Nil /\ k \notin Closes
  BY TCPClientAssumption DEF Owners
<1>3. /\ \A j \in Connects : /\ dialPc'[j] = IF j = k THEN "swapped" ELSE dialPc[j]
                             /\ readerGen'[j] = IF j = k THEN generation + 1 ELSE readerGen[j]
      /\ \A o \in Owners : /\ taken'[o] = IF o = k THEN conn ELSE taken[o]
                           /\ o # k => victims'[o] = victims[o]
  BY <1>1, <1>2 DEF LInv, IInv, TypeOK
<1>4. FreshDials'
  BY <1>1, <1>2, <1>3 DEF LInv, FreshDials
<1>5. LiveConn'
  BY <1>1, <1>2, <1>3 DEF LInv, FreshDials, LiveConn
<1>6. Generations'
  <2>1. /\ generation \in Nat
        /\ \A j \in Connects : readerGen[j] \in Nat /\ readerGen[j] <= generation
        /\ \A c \in Calls : callGen[c] \in Nat /\ callGen[c] <= generation
    BY DEF LInv, IInv, TypeOK, Generations
  <2>2. \A j \in Connects : /\ readerGen'[j] <= generation'
                            /\ readerGen'[j] = generation' => j = conn'
    BY <1>1, <1>3, <2>1
  <2>3. \A c \in Calls : callGen'[c] <= generation' /\ callGen'[c] # generation'
    BY <1>1, <2>1
  <2>4. readerGen'[conn'] = generation'
    BY <1>1, <1>3
  <2> QED BY <2>2, <2>3, <2>4 DEF Generations
<1>7. VictimsInHand'
  BY <1>1, <1>2, <1>3 DEF LInv, VictimsInHand, Owners
<1>8. NoStrandedWaiter'
  BY <1>1, <1>2, TakeStrandsNone DEF LInv, VictimsInHand
<1> QED BY <1>4, <1>5, <1>6, <1>7, <1>8 DEF LInv

\* Closing the replaced socket and starting the reader.
LEMMA FinishLInv ==
  ASSUME LInv, IInv', NEW k \in Connects, ConnectFinish(k)
  PROVE  LInv'
<1>1. /\ dialPc[k] = "swapped"
      /\ CloseSocket(taken[k]) /\ rejectAll(victims[k])
      /\ dialPc' = [dialPc EXCEPT ![k] = "connected"]
      /\ reader' = [reader EXCEPT ![k] = "running"]
      /\ victims' = [victims EXCEPT ![k] = {}]
      /\ UNCHANGED <<conn, generation, pending, dead, pc, callConn, callGen, closePc,
                     taken, readerGen>>
  BY DEF ConnectFinish, client
<1>2. k \in Owners /\ k \notin Closes
  BY TCPClientAssumption DEF Owners
<1>3. /\ \A j \in Connects : /\ dialPc'[j] = IF j = k THEN "connected" ELSE dialPc[j]
                             /\ reader'[j] = IF j = k THEN "running" ELSE reader[j]
                             /\ sock'[j] = "closed" => sock[j] = "closed" \/ taken[k] = j
      /\ \A o \in Owners : victims'[o] = IF o = k THEN {} ELSE victims[o]
  BY <1>1 DEF CloseSocket, LInv, IInv, TypeOK
<1>4. FreshDials'
  BY <1>1, <1>2, <1>3 DEF LInv, FreshDials
<1>5. LiveConn'
  <2>1. ASSUME ~dead PROVE conn \in Connects
    BY <2>1 DEF LInv, LiveConn, IInv, TypeOK
  <2> QED BY <1>1, <1>2, <1>3, <2>1 DEF LInv, LiveConn
<1>6. Generations'
  BY <1>1 DEF LInv, Generations
<1>7. VictimsInHand'
  BY <1>1, <1>2, <1>3 DEF LInv, VictimsInHand, Owners
<1>8. NoStrandedWaiter'
  BY <1>1, <1>2, WakeStrandsNone
<1> QED BY <1>4, <1>5, <1>6, <1>7, <1>8 DEF LInv

\* The other steps of a Connect, its readLoop and its agent.
LEMMA SocketLInv ==
  ASSUME LInv, IInv', NEW k \in Connects,
         \/ ConnectDial(k) \/ ConnectSwap(k) \/ ConnectFinish(k)
         \/ ReadLine(k) \/ ReadEnds(k) \/ AgentAnswers(k) \/ AgentGone(k)
  PROVE  LInv'
<1> USE DEF client, callVars, ownerVars, readVars, netVars
<1>1. CASE ConnectDial(k)
  <2>1. /\ UNCHANGED <<client, callVars, closePc, taken, victims, readVars>>
        /\ dialPc[k] = "idle"
    BY <1>1 DEF ConnectDial
  <2>2. \A j \in Connects : /\ j # k => dialPc'[j] = dialPc[j]
                            /\ dialPc'[k] \in {"dialed", "failed"}
                            /\ sock'[j] = "closed" => sock[j] = "closed"
    BY <1>1 DEF ConnectDial, LInv, IInv, TypeOK
  <2>3. FreshDials' /\ Generations' /\ NoStrandedWaiter'
    BY <2>1, <2>2 DEF LInv, FreshDials, Generations, NoStrandedWaiter
  <2>4. VictimsInHand'
    BY <2>1, <2>2 DEF LInv, VictimsInHand
  <2>5. LiveConn'
    <3>1. ~dead => conn \in Connects /\ conn # k
      BY <2>1 DEF LInv, IInv, TypeOK, LiveConn, FreshDials
    <3> QED BY <2>1, <2>2, <3>1 DEF LInv, LiveConn
  <2> QED BY <2>3, <2>4, <2>5 DEF LInv
<1>2. CASE ConnectSwap(k)
  BY <1>2, SwapLInv
<1>3. CASE ConnectFinish(k)
  BY <1>3, FinishLInv
<1>4. CASE ReadLine(k)
  <2>1. FreshDials' /\ LiveConn' /\ Generations' /\ VictimsInHand'
    BY <1>4, ClientUnchanged DEF ReadLine
  <2> QED BY <1>4, <2>1, ReadLineStrandsNone DEF LInv
<1>5. CASE ReadEnds(k)
  <2>1. readerGen[k] \in Nat
    BY DEF LInv, IInv, TypeOK
  <2>2. \A j \in Connects : reader'[j] # reader[j] =>
           readerGen[j] = readerGen[k] /\ reader'[j] = "ended"
    BY <1>5 DEF ReadEnds, LInv, IInv, TypeOK
  <2>3. FreshDials' /\ LiveConn' /\ Generations' /\ VictimsInHand'
    BY <1>5, <2>1, <2>2, DisconnectUnchanged DEF ReadEnds
  <2>4. NoStrandedWaiter'
    BY <1>5, <2>1, DisconnectStrandsNone DEF ReadEnds
  <2> QED BY <2>3, <2>4 DEF LInv
<1>6. CASE AgentAnswers(k) \/ AgentGone(k)
  <2>1. UNCHANGED <<client, callVars, ownerVars, readVars, sock>>
    BY <1>6 DEF AgentAnswers, AgentGone
  <2>2. NoStrandedWaiter'
    BY <2>1 DEF LInv, NoStrandedWaiter
  <2> QED BY <2>1, <2>2, ClientUnchanged DEF LInv
<1> QED BY <1>1, <1>2, <1>3, <1>4, <1>5, <1>6

\* Both halves of a Close.
LEMMA CloseLInv ==
  ASSUME LInv, IInv', NEW x \in Closes, CloseBegin(x) \/ CloseFinish(x)
  PROVE  LInv'
<1> USE DEF client, callVars, readVars, netVars
<1>0. x \in Owners /\ x \notin Connects
  BY TCPClientAssumption DEF Owners
<1>1. CASE CloseBegin(x)
  <2>1. /\ closePc[x] = "idle" /\ closePc' = [closePc EXCEPT ![x] = "closing"]
        /\ taken' = [taken EXCEPT ![x] = conn]
        /\ victims' = [victims EXCEPT ![x] = IF dead THEN {} ELSE pending]
        /\ conn' = Nil /\ dead' /\ generation' = generation + 1
        /\ UNCHANGED <<pc, ch, callConn, callGen, dialPc, reader, readerGen, sock>>
    BY <1>1 DEF CloseBegin
  <2>2. /\ \A o \in Owners : /\ taken'[o] = IF o = x THEN conn ELSE taken[o]
                             /\ o # x => victims'[o] = victims[o]
        /\ \A y \in Closes : closePc'[y] = IF y = x THEN "closing" ELSE closePc[y]
    BY <2>1 DEF LInv, IInv, TypeOK
  <2>3. FreshDials' /\ LiveConn'
    BY <2>1, <2>2, TCPClientAssumption DEF LInv, FreshDials, LiveConn
  <2>4. Generations'
    BY <2>1 DEF LInv, IInv, TypeOK, Generations
  <2>5. VictimsInHand'
    BY <1>0, <2>1, <2>2 DEF LInv, VictimsInHand, Owners
  <2>6. NoStrandedWaiter'
    BY <1>0, <2>1, TakeStrandsNone DEF LInv, VictimsInHand
  <2> QED BY <2>3, <2>4, <2>5, <2>6 DEF LInv
<1>2. CASE CloseFinish(x)
  <2>1. /\ closePc[x] = "closing" /\ closePc' = [closePc EXCEPT ![x] = "closed"]
        /\ CloseSocket(taken[x]) /\ rejectAll(victims[x])
        /\ victims' = [victims EXCEPT ![x] = {}]
        /\ UNCHANGED <<conn, generation, pending, dead, pc, callConn, callGen, dialPc,
                       taken, reader, readerGen>>
    BY <1>2 DEF CloseFinish
  <2>2. /\ \A j \in Connects : sock'[j] = "closed" => sock[j] = "closed" \/ taken[x] = j
        /\ \A o \in Owners : victims'[o] = IF o = x THEN {} ELSE victims[o]
        /\ \A y \in Closes : closePc'[y] = IF y = x THEN "closed" ELSE closePc[y]
    BY <2>1 DEF CloseSocket, LInv, IInv, TypeOK
  <2>3. FreshDials'
    BY <1>0, <2>1, <2>2 DEF LInv, FreshDials
  <2>4. LiveConn'
    <3>1. ~dead => conn \in Connects
      BY DEF LInv, IInv, TypeOK, LiveConn
    <3> QED BY <1>0, <2>1, <2>2, <3>1 DEF LInv, LiveConn
  <2>5. Generations'
    BY <2>1 DEF LInv, Generations
  <2>6. VictimsInHand'
    BY <1>0, <2>1, <2>2 DEF LInv, VictimsInHand, Owners
  <2>7. NoStrandedWaiter'
    BY <1>0, <2>1, WakeStrandsNone
  <2> QED BY <2>3, <2>4, <2>5, <2>6, <2>7 DEF LInv
<1> QED BY <1>1, <1>2

\* A step of the client, or none, keeps the invariant.
LEMMA NextLInv == LInv /\ IInv' /\ [Next]_vars => LInv'
<1> SUFFICES ASSUME LInv, IInv', [Next]_vars PROVE LInv'
  OBVIOUS
<1>1. CASE Next
  BY <1>1, CallLInv, SocketLInv, CloseLInv DEF Next
<1>2. CASE UNCHANGED vars
  <2>1. UNCHANGED <<client, callVars, ownerVars, readVars, netVars>>
    BY <1>2 DEF vars
  <2>2. NoStrandedWaiter'
    BY <2>1 DEF client, callVars, ownerVars, LInv, NoStrandedWaiter
  <2> QED BY <2>1, <2>2, ClientUnchanged DEF client, callVars, netVars, LInv
<1> QED BY <1>1, <1>2

-----------------------------------------------------------------------------
\* The client loses its connection only by a Close or by its own failure.
LEMMA OwnFailure ==
  ASSUME LInv, Next, ~dead, dead'
  PROVE  \/ closePc' # closePc
         \/ peer[conn] = "down"
         \/ \E c \in Calls : pc[c] = "tearing" /\ callConn[c] = conn
<1> USE DEF client
<1>1. ASSUME NEW c \in Calls, Call(c)
      PROVE  pc[c] = "tearing" /\ callConn[c] = conn
  <2>1. CallTearDown(c)
    BY <1>1 DEF Call, CallRefused, CallRegister, CallEncodeFails, CallLockWrite, CallWrite,
       CallWriteFails, CallRemovePending, CallReceive, CallGivesUp
  <2>2. callGen[c] = generation
    BY <2>1 DEF CallTearDown, handleDisconnect
  <2> QED BY <2>1, <2>2 DEF CallTearDown, LInv, Generations
<1>2. ASSUME NEW k \in Connects,
             \/ ConnectDial(k) \/ ConnectSwap(k) \/ ConnectFinish(k)
             \/ ReadLine(k) \/ ReadEnds(k) \/ AgentAnswers(k) \/ AgentGone(k)
      PROVE  peer[conn] = "down"
  <2>1. ReadEnds(k)
    BY <1>2 DEF ConnectDial, ConnectSwap, ConnectFinish, ReadLine, AgentAnswers, AgentGone
  <2>2. readerGen[k] = generation
    BY <2>1 DEF ReadEnds, handleDisconnect
  <2>3. k = conn /\ sock[conn] # "closed"
    BY <2>2 DEF LInv, Generations, LiveConn
  <2> QED BY <2>1, <2>3 DEF ReadEnds
<1>3. ASSUME NEW x \in Closes, CloseBegin(x) \/ CloseFinish(x)
      PROVE  closePc' # closePc
  <2>1. CASE CloseBegin(x)
    <3>1. closePc[x] = "idle" /\ closePc'[x] = "closing"
      BY <2>1 DEF CloseBegin, LInv, IInv, TypeOK
    <3> QED BY <3>1
  <2>2. CASE CloseFinish(x)
    BY <2>2 DEF CloseFinish
  <2> QED BY <1>3, <2>1, <2>2
<1> QED BY <1>1, <1>2, <1>3 DEF Next

\* The strengthened invariant holds in every state the client reaches.
LEMMA LInvCorrect == Spec => []LInv
<1>1. Init /\ IInv => LInv
  BY InitLInv
<1>2. LInv /\ IInv' /\ [Next]_vars => LInv'
  BY NextLInv
<1> QED BY <1>1, <1>2, InvCorrect, PTL DEF Spec

\* However calls, reconnects, closes and losses overlap, a call that waits is pending
\* on the live connection or about to be woken (the pending map of Connect, Close and
\* handleDisconnect).
THEOREM NobodyStranded == Spec => []NoStrandedWaiter
<1>1. LInv => NoStrandedWaiter
  BY DEF LInv
<1> QED BY <1>1, LInvCorrect, PTL

\* A client that takes itself for connected is watched by the readLoop of its own
\* generation, so it learns of a loss.
THEOREM Watched == Spec => []ConnectedIsWatched
<1>1. LInv => ConnectedIsWatched
  BY DEF LInv, LiveConn, Generations, ConnectedIsWatched
<1> QED BY <1>1, LInvCorrect, PTL

\* The late failure of a replaced socket never disconnects its successor (the
\* generation test of handleDisconnect).
THEOREM OwnFailureOnly == Spec => OnlyOwnFailureDisconnects
<1>1. LInv /\ [Next]_vars =>
        [~dead /\ dead' =>
           \/ closePc' # closePc
           \/ peer[conn] = "down"
           \/ \E c \in Calls : pc[c] = "tearing" /\ callConn[c] = conn]_vars
  BY OwnFailure
<1> QED BY <1>1, LInvCorrect, PTL DEF Spec, OnlyOwnFailureDisconnects
=============================================================================
