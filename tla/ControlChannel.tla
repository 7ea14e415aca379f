--------------------------- MODULE ControlChannel ---------------------------
(***************************************************************************)
(* What device selection promises about the platform control channels: an  *)
(* agent "may only accept one live connection", so a driver opens its      *)
(* channel only when no other driver has one open.                         *)
(***************************************************************************)
CONSTANT Drivers

VARIABLE holders    \* the drivers whose control channel is open

Init == holders = {}

Open(k) == holders = {} /\ holders' = {k}

Close(k) == k \in holders /\ holders' = holders \ {k}

Next == \E k \in Drivers : Open(k) \/ Close(k)

Spec == Init /\ [][Next]_holders
=============================================================================
