--------------------------- MODULE MCRoomViews ---------------------------
(***************************************************************************)
(* Instances of RoomViews for TLC.                                         *)
(***************************************************************************)
EXTENDS RoomViews, TLC

CONSTANTS r1, master, s1, s2, s3, l1, l2, l3, c1, c2, q1, q2, q3, g1, g2, g3

MasterOfAll == [id \in RoomIds |-> master]

(* Three guests, each with a socket, a JOIN_WAITING_ROOM call and a        *)
(* request, interchangeable.                                               *)
ThreeSockets == (q1 :> s1) @@ (q2 :> s2) @@ (q3 :> s3)
ThreeGuests == (q1 :> g1) @@ (q2 :> g2) @@ (q3 :> g3)
ThreeCalls == (q1 :> l1) @@ (q2 :> l2) @@ (q3 :> l3)
OneCallEach == (l1 :> s1) @@ (l2 :> s2) @@ (l3 :> s3)

Along(f, has) == [x \in {has[q] : q \in DOMAIN f} |->
                     has[f[CHOOSE q \in DOMAIN f : has[q] = x]]]
GuestSymmetry ==
    {f @@ Along(f, ThreeSockets) @@ Along(f, ThreeGuests) @@ Along(f, ThreeCalls) :
        f \in Permutations({q1, q2, q3})}

(* A master and a guest, who has two JOIN_WAITING_ROOM calls at a time.    *)
TwoSockets == (q1 :> s1) @@ (q2 :> s2)
MasterAndGuest == (q1 :> master) @@ (q2 :> g1)
GuestCallsTwice == (l1 :> s1) @@ (l2 :> s2) @@ (l3 :> s2)
==========================================================================
