------------------------- MODULE MCDeviceSelection --------------------------
(* Small instances of DeviceSelection for TLC. *)
EXTENDS DeviceSelection

CONSTANTS a1, a2, p1, s1, r1, r2, u1
=============================================================================
