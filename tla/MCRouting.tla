---------------------------- MODULE MCRouting ----------------------------
(***************************************************************************)
(* Instances of RoutingConnection for TLC.                                 *)
(***************************************************************************)
EXTENDS RoutingConnection

CONSTANTS r1, r2, h1, h2, h3, h4
==========================================================================
