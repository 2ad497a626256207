---------------------------- MODULE MCKillSwitch ----------------------------
(* Small instances of KillSwitch: two profiles that may be exchanged, and the *)
(* program's own latch of two releases.                                       *)
EXTENDS KillSwitch
CONSTANTS p1, p2
==============================================================================
