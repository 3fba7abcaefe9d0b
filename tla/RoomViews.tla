---------------------------- MODULE RoomViews ----------------------------
(***************************************************************************)
(* What the clients of RoomService show: a client in a room, the users it  *)
(* was answered with and told of since; a client in a waiting room, the    *)
(* joiners it was answered with and told of since.  The clients are not    *)
(* part of the repository: a view is what follows from the messages alone. *)
(*                                                                         *)
(* The messages to one socket arrive in the order they are emitted, so a   *)
(* message counts as shown from its emission.  Each step of RoomService is *)
(* joined by the emissions of the same segment of the handler; only the    *)
(* moment joinWaitingRoom reads the joiners is a step of its own.          *)
(***************************************************************************)
EXTENDS RoomServiceRequirements

VARIABLES
    home,       \* request -> the Room object its handler entered its peer in
    shown,      \* request -> users its client shows in the room
    snapshot,   \* lookup -> joinerList of the joinWaitingRoom call, None before
    missed,     \* lookups whose joinerList misses a join or an exit announced
                \* since it was read, or a room announced but not yet built
    joiners,    \* socket -> users its client shows of the waiting room
    vanished,   \* users announced as present after they had left
    outdated    \* sockets whose last answer was such a joinerList

viewVars == <<home, shown, snapshot, missed, joiners, vanished, outdated>>
viewedVars == <<allVars, viewVars>>

InitV ==
    /\ InitH
    /\ home = [q \in Requests |-> None]
    /\ shown = [q \in Requests |-> {}]
    /\ snapshot = [l \in Lookups |-> None]
    /\ joiners = [s \in Sockets |-> {}]
    /\ missed = {} /\ vanished = {} /\ outdated = {}

----------------------------------------------------------------------------
UsersIn(members) == {UserOf[q] : q \in members}
JoinersOf(id) == IF roomById[id] = None THEN {} ELSE UsersIn(peers[roomById[id]])

(* The peers a step takes out of their room, alive to tell it.             *)
Leaving == {q \in Requests : alive' /\ \E r \in Requests : q \in peers[r] \ peers'[r]}

(* A request is announced to the waiting room when its peer enters a room  *)
(* that runs, and before the room is built when it has to be.              *)
Arriving == {q \in Requests : \/ pc[q] = "admit" /\ pc'[q] = "history"
                              \/ pc[q] = "router" /\ pc'[q] = "room"}
Answered == {q \in Requests : pc[q] = "recorded" /\ pc'[q] = "joined"}

(* A mutant of ToldOfJoin: the wrong side of the comparison of users.      *)
ToldOfJoinSame(q) == {p \in peers[home[q]] : UserOf[p] = UserOf[q]}

(* PEER_STATE_CHANGED when a peer has entered a room that ran: to the      *)
(* peers of other users that are in the room by now.                       *)
ToldOfJoin(q) == {p \in peers[home[q]] : q \notin rooms /\ UserOf[p] # UserOf[q]}

(* A mutant of ToldOfExit: a leave is not broadcast.                       *)
ToldOfExitNobody(q) == {}

(* OTHER_PEER_DISCONNECTED: to those who stay.                             *)
ToldOfExit(q) == peers'[home[q]]

(* A mutant of WaitersToldOfExit: the waiting room is not notified.        *)
WaitersNotTold(q) == {}

(* OTHER_PEER_JOINED_ROOM and OTHER_PEER_EXITED_ROOM.                      *)
WaitersToldOfJoin(q) == socketsByRoomId'[targetId'[q]]
WaitersToldOfExit(q) == socketsByRoomId'[targetId[q]]

(* The answer of JOIN_ROOM: getPeerStates of the Room the handler holds.   *)
PeerStates(q) == UsersIn(peers[home[q]])

InRoomView(q) == alive' /\ pc'[q] = "joined" /\ connection'[SocketOf[q]] = "open"
ShowRoom(q) ==
    IF ~InRoomView(q) THEN {}
    ELSE IF q \in Answered THEN PeerStates(q)
    ELSE (shown[q] \cup UsersIn({other \in Answered : q \in ToldOfJoin(other)}))
         \ UsersIn({other \in Leaving : q \in ToldOfExit(other)})

(* joinWaitingRoom answers with the joinerList read before its awaits, and *)
(* the answer replaces what was shown, announcements since included.       *)
ShowWaitingRoom(s) ==
    IF ~alive' \/ WaitingRoomsOf(s)' = {} THEN {}
    ELSE IF AnswersTo(s) # {} THEN UNION {snapshot[l] : l \in AnswersTo(s)}
    ELSE (joiners[s] \cup UsersIn({q \in Arriving : s \in WaitersToldOfJoin(q)}))
         \ UsersIn({q \in Leaving : s \in WaitersToldOfExit(q)})

(* The joinerList misses what is announced between its reading and its     *)
(* answer, and a room announced but not yet built.                         *)
Pending(id) == {q \in Requests : targetId[q] = id /\ pc[q] \in {"room", "register"}}
Announces(id) ==
    \/ \E q \in Arriving : targetId'[q] = id
    \/ \E q \in Leaving : targetId[q] = id

ViewStep ==
    /\ home' = [q \in Requests |->
          IF \E r \in Requests : q \in peers'[r] \ peers[r]
          THEN CHOOSE r \in Requests : q \in peers'[r] \ peers[r] ELSE home[q]]
    /\ shown' = [q \in Requests |-> ShowRoom(q)]
    /\ \A l \in Lookups : PutInWaitingRoom(l) => snapshot[l] # None
    /\ snapshot' = [l \in Lookups |-> IF lookup'[l] = None THEN None ELSE snapshot[l]]
    /\ missed' = {l \in Lookups :
          /\ lookup'[l] # None
          /\ l \in missed \/ (snapshot[l] # None /\ Announces(lookup[l]))}
    /\ joiners' = [s \in Sockets |-> ShowWaitingRoom(s)]
    /\ vanished' = IF ~alive' THEN {} ELSE vanished \cup
          UsersIn({q \in Answered : q \notin rooms \cup peers[home[q]]})
    /\ outdated' = {s \in Sockets :
          /\ WaitingRoomsOf(s)' # {}
          /\ IF AnswersTo(s) = {} THEN s \in outdated ELSE AnswersTo(s) \cap missed # {}}

(* joinWaitingRoom reads the joiners; the reads of the database follow.    *)
ReadJoiners(l) ==
    /\ alive /\ lookup[l] \in DbRooms /\ snapshot[l] = None
    /\ snapshot' = [snapshot EXCEPT ![l] = JoinersOf(lookup[l])]
    /\ missed' = IF Pending(lookup[l]) = {} THEN missed ELSE missed \cup {l}
    /\ UNCHANGED <<allVars, home, shown, joiners, vanished, outdated>>

NextV ==
    \/ NextH /\ ViewStep
    \/ \E l \in Lookups : ReadJoiners(l)

SpecV == InitV /\ [][NextV]_viewedVars

----------------------------------------------------------------------------
Views(p, r) == pc[p] = "joined" /\ connection[SocketOf[p]] = "open" /\ p \in peers[r]

(* A client in a room shows every other user who has joined its Room,      *)
(* provided each user has one tab: who is there already is in the answer,  *)
(* who comes later is announced, and nobody falls between.                 *)
RoomViewComplete ==
    \A r \in rooms : \A p, q \in peers[r] :
        (/\ Views(p, r) /\ pc[q] = "joined" /\ UserOf[p] # UserOf[q]
         /\ OnlyRequestOfItsUser(q))
        => UserOf[q] \in shown[p]

(* It shows nobody who has left, except who was announced too late.        *)
RoomViewCurrent ==
    \A r \in rooms : \A p \in peers[r] : Views(p, r) =>
        shown[p] \subseteq UsersIn(peers[r]) \cup vanished

(* A waiting client shows exactly the joiners of its room, unless its      *)
(* last answer was outdated when it came, a room is announced that is      *)
(* being built, a Room of peers was overwritten, or a user came in two     *)
(* tabs.  Calls of the client that overlap are answered in any order.      *)
WaitingViewExact ==
    \A s \in Sockets \ (strayed \cup outdated) : \A id \in WaitingRoomsOf(s) :
        \/ Pending(id) # {}
        \/ \E r \in rooms : targetId[r] = id /\ peers[r] # {} /\ roomById[id] # r
        \/ \E q \in Requests : ~OnlyRequestOfItsUser(q)
        \/ joiners[s] = JoinersOf(id)
==========================================================================
