---------------------- MODULE WaitingRoomRepository ----------------------
(***************************************************************************)
(* src/repository/waiting_room_repository.ts: the sockets that look at the *)
(* preparation screen of a room.  The repository keeps two maps, the list  *)
(* of sockets of every room and the room of every socket, and its callers  *)
(* expect one to be the inverse of the other.                              *)
(*                                                                         *)
(* A list is kept as the set of its members: a socket that joins the same  *)
(* room twice is listed twice by the code, and Remove drops both entries.  *)
(* An absent key is the empty set in one map and None in the other.        *)
(***************************************************************************)
CONSTANTS RoomIds, Sockets, None

VARIABLES
    socketsByRoomId,     \* room id -> the sockets listed in its waiting room
    roomIdBySocketId     \* socket -> the waiting room it joined last, or None

waitingVars == <<socketsByRoomId, roomIdBySocketId>>

WaitingInit ==
    /\ socketsByRoomId = [id \in RoomIds |-> {}]
    /\ roomIdBySocketId = [s \in Sockets |-> None]

(* join: the index is overwritten, the list of an earlier room is not.     *)
Join(id, s) ==
    /\ socketsByRoomId' = [socketsByRoomId EXCEPT ![id] = @ \cup {s}]
    /\ roomIdBySocketId' = [roomIdBySocketId EXCEPT ![s] = id]

(* Mutants of Remove: the list keeps the socket; the index keeps it.       *)
RemoveKeepsList(s) ==
    /\ socketsByRoomId' = socketsByRoomId
    /\ roomIdBySocketId' = [roomIdBySocketId EXCEPT ![s] = None]
RemoveKeepsIndex(s) ==
    /\ socketsByRoomId' = [id \in RoomIds |-> socketsByRoomId[id] \ {s}]
    /\ roomIdBySocketId' = roomIdBySocketId

(* remove: only the room the index names is searched for the socket.       *)
Remove(s) ==
    /\ socketsByRoomId' = [id \in RoomIds |->
          IF id = roomIdBySocketId[s] THEN socketsByRoomId[id] \ {s}
                                      ELSE socketsByRoomId[id]]
    /\ roomIdBySocketId' = [roomIdBySocketId EXCEPT ![s] = None]

==========================================================================
