----------------------------- MODULE MCTCPClient -----------------------------
(* A model-checking instance of TCPClient: every four of the invocations.   *)
EXTENDS TCPClient, FiniteSets

\* The invocations that may begin in one behaviour.
MaxInvocations == 4

Begun ==
  Cardinality({c \in Calls : pc[c] # "idle"}) + Cardinality({k \in Connects : dialPc[k] # "idle"})
    + Cardinality({x \in Closes : closePc[x] # "idle"})
Fits == Begun <= MaxInvocations

\* What is fair is never the begin of an invocation, so the bound blocks none of it.
MCSpec == Init /\ [][Next /\ Fits']_vars /\ Fairness
=============================================================================
