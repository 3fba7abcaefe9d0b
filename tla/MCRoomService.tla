-------------------------- MODULE MCRoomService --------------------------
(***************************************************************************)
(* Instances of RoomServiceRequirements for TLC.                           *)
(***************************************************************************)
EXTENDS RoomServiceRequirements, TLC

CONSTANTS r1, r2, master, guest, s1, s2, l1, l2, l3, l4, c1, c2, q1, q2, q3

(* A master and two tabs of a guest; two sockets, the second sends two     *)
(* requests.                                                               *)
TwoSockets == (q1 :> s1) @@ (q2 :> s2) @@ (q3 :> s2)
MasterAndTabs == (q1 :> master) @@ (q2 :> guest) @@ (q3 :> guest)

(* One request per socket, of the master and a guest or of a guest twice.  *)
OneEach == (q1 :> s1) @@ (q2 :> s2)
MasterAndGuest == (q1 :> master) @@ (q2 :> guest)

GuestTwice == (q1 :> guest) @@ (q2 :> guest)

(* One JOIN_WAITING_ROOM call per socket at a time, or two.                *)
OneCall == (l1 :> s1) @@ (l2 :> s2)
TwoCalls == (l1 :> s1) @@ (l2 :> s2) @@ (l3 :> s1) @@ (l4 :> s2)

MasterOfAll == [id \in RoomIds |-> master]

(* Exchanging the two rooms, or the two calls of a socket.                *)
RoomAndCallSymmetry ==
    Permutations({r1, r2}) \cup Permutations({l1, l3}) \cup Permutations({l2, l4})
==========================================================================
