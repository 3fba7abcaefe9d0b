--------------------------- MODULE MCRoomTimer ---------------------------
(***************************************************************************)
(* Instances of RoomTimerRequirements for TLC.                             *)
(***************************************************************************)
EXTENDS RoomTimerRequirements, TLC

CONSTANTS e1, e2, usual, other
==========================================================================
