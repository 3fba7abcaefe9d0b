--------------------- MODULE RoomServiceRequirements ---------------------
(***************************************************************************)
(* What RoomService must guarantee.  Some guarantees hold only of requests *)
(* and rooms that met no race; history variables record, from each step of *)
(* RoomService, which did.  They constrain no step.                        *)
(***************************************************************************)
EXTENDS RoomService

VARIABLES
    overtaken,    \* requests whose room was entered by another request, or
                  \* replaced by another room id, after their capacity check
    barred,       \* requests sent by a user every source lists as blocked,
                  \* and still listed as such by every source
    late,         \* peers that entered their room on a closed socket
    strayed,      \* waiting sockets that were put in a waiting room when
                  \* closed, or when another one still listed them
    rivals,       \* requests whose Room was under construction at the same
                  \* time as another one for the same room id
    contested,    \* room ids owed a creation and a removal at once
    skewed        \* room ids two of whose block or unblock calls overlapped,
                  \* or one of them the construction of a Room

historyVars == <<overtaken, barred, late, strayed, rivals, contested, skewed>>
allVars == <<vars, historyVars>>

----------------------------------------------------------------------------
(* State functions the guarantees are about.                               *)

Entered(q) == pc[q] \in {"history", "recorded", "joined"}

(* User u is blocked in room id according to the table and to a running    *)
(* Room alike.                                                             *)
BlockedEverywhere(id, u) ==
    /\ u \in blockRows[id]
    /\ roomById[id] # None => u \in blacklist[roomById[id]]

(* Handlers that have still to announce a room they registered or removed. *)
Creating(id) == {q \in rooms : targetId[q] = id /\ pc[q] \in {"history", "recorded"}}
Removing(id) == {s \in Sockets : exit[s].removed /\ targetId[exit[s].peer] = id}

InProgress(c) == command[c].step \notin {"idle", "done"}
CommandsOn(id) == {c \in Commands : InProgress(c) /\ targetId[command[c].room] = id}
Constructing(id) ==
    {q \in Requests : pc[q] \in {"router", "room", "register"} /\ targetId[q] = id}
Building(id) == {q \in Requests : pc[q] = "register" /\ targetId[q] = id}

WaitingRoomsOf(s) == {id \in RoomIds : s \in socketsByRoomId[id]}

(* The events of a step the history variables are told by.                 *)
Enters(q) == ~Entered(q) /\ Entered(q)'
PutInWaitingRoom(l) == lookup[l] \in DbRooms /\ lookup'[l] = None /\ alive'
AnswersTo(s) == {l \in Lookups : CallerOf[l] = s /\ PutInWaitingRoom(l)}

HistoryInit ==
    /\ overtaken = {} /\ barred = {} /\ late = {}
    /\ strayed = {} /\ rivals = {} /\ contested = {} /\ skewed = {}

HistoryStep ==
    /\ overtaken' = {q \in Requests :
          /\ InFlight(q) /\ InFlight(q)' /\ ~Entered(q)'
          /\ \/ q \in overtaken
             \/ targetId'[q] # targetId[q]
             \/ \E r \in Requests \ {q} : Enters(r) /\ targetId'[r] = targetId'[q]}
    /\ barred' = {q \in Requests :
          /\ InFlight(q)'
          /\ q \in barred \/ pc[q] = "idle"
          /\ targetId[q] \in {None, targetId'[q]}
          /\ BlockedEverywhere(targetId[q], UserOf[q])'}
    /\ late' = {q \in Requests :
          /\ \E r \in Requests : q \in peers'[r]
          /\ q \in late \/ (Enters(q) /\ connection[SocketOf[q]] = "closed")}
    /\ strayed' = {s \in Sockets :
          /\ WaitingRoomsOf(s)' # {}
          /\ \/ s \in strayed
             \/ AnswersTo(s) # {} /\ connection[s] = "closed"
             \/ \E l \in AnswersTo(s) : WaitingRoomsOf(s) \ {lookup[l]} # {}}
    /\ rivals' = {q \in Requests :
          /\ InFlight(q)' \/ q \in rooms'
          /\ \/ q \in rivals
             \/ \E id \in RoomIds : q \in Constructing(id)' /\ Constructing(id)' # {q}}
    /\ contested' = IF ~alive THEN {} ELSE contested \cup {id \in RoomIds :
          Creating(id)' # {} /\ Removing(id)' # {}}
    /\ skewed' = IF ~alive THEN {} ELSE skewed \cup {id \in RoomIds :
          \/ Cardinality(CommandsOn(id)') > 1
          \/ CommandsOn(id)' # {} /\ Building(id)' # {}}

InitH == Init /\ HistoryInit
NextH == Next /\ HistoryStep
SpecH == InitH /\ [][NextH]_allVars
FairSpecH == SpecH /\ Fairness

----------------------------------------------------------------------------
ExitRecords ==
    [step : {"none", "find", "close", "announce", "done"},
     peer : Requests \cup {None}, removed : BOOLEAN, row : Requests \cup {None}]
CommandRecords ==
    [step : {"idle", "insert", "inserted", "delete", "deleted", "done"},
     room : Requests \cup {None}, peer : Requests \cup {None},
     user : Users \cup {None}]

(* Every variable keeps its type: the maps of both repositories hold ids   *)
(* and objects, the handlers stand at one of their awaits, and the routing *)
(* server is told of rooms of the room table only.                         *)
TypeOK ==
    /\ alive \in BOOLEAN /\ restarts \in 0..MaxRestarts
    /\ connection \in [Sockets -> {"new", "open", "closed"}]
    /\ roomIdToJoin \in [Sockets -> RoomIds \cup {None}]
    /\ lookup \in [Lookups -> RoomIds \cup {None}]
    /\ socketsByRoomId \in [RoomIds -> SUBSET Sockets]
    /\ waitingRoomIdBySocketId \in [Sockets -> RoomIds \cup {None}]
    /\ pc \in [Requests -> AwaitStages \cup {"idle", "joined", "refused", "lost"}]
    /\ targetId \in [Requests -> RoomIds \cup {None}]
    /\ rooms \subseteq Requests
    /\ peers \in [Requests -> SUBSET Requests]
    /\ blacklist \in [Requests -> SUBSET Users]
    /\ roomById \in [RoomIds -> Requests \cup {None}]
    /\ roomIdBySocketId \in [Sockets -> RoomIds \cup {None}]
    /\ exit \in [Sockets -> ExitRecords]
    /\ command \in [Commands -> CommandRecords]
    /\ blockRows \in [RoomIds -> SUBSET Users]
    /\ historyRow \in [Requests -> {"none", "open", "closed"}]
    /\ running \subseteq DbRooms

(* Every room that runs has a row in the room table, though the id a       *)
(* client wants to join is not checked when it is set (createAndJoin's     *)
(* assertion, room_repository.ts).                                         *)
OnlyDbRoomsRun ==
    \A id \in RoomIds : roomById[id] # None => id \in DbRooms

----------------------------------------------------------------------------
(* RoomRepository and Room (room_repository.ts _setRoom, deleteRoom;       *)
(* Room.ts join, disposePeer).                                             *)

(* A registered room is stored under its own id and has a peer: the leave  *)
(* that empties a room also deletes it, whatever joins, overwrites or      *)
(* leaves happened around it.                                              *)
RegisteredRoomLives ==
    \A id \in RoomIds : roomById[id] # None =>
        /\ roomById[id] \in rooms
        /\ targetId[roomById[id]] = id
        /\ peers[roomById[id]] # {}

(* A room that still has peers is registered, unless it was built at the   *)
(* same time as another Room for its id: only a concurrent creation drops  *)
(* a live room.  Rooms built for the id before or after do not.            *)
LiveRoomRegistered ==
    \A r \in rooms \ rivals : peers[r] # {} => roomById[targetId[r]] = r

(* A connected peer is found through its socket, as every handler of a     *)
(* joined client assumes, unless its socket has also entered another room  *)
(* or its Room was built at the same time as another one for the id.       *)
PeerReachable ==
    \A r \in rooms : \A q \in peers[r] :
        \/ connection[SocketOf[q]] # "open"
        \/ \E other \in Requests : /\ SocketOf[other] = SocketOf[q] /\ Entered(other)
                                  /\ targetId[other] # targetId[q]
        \/ r \in rivals
        \/ FindRoomBySocketId(SocketOf[q]) = r

(* A registered room keeps no peer whose socket is closed, unless the peer *)
(* entered on a closed socket or its socket entered twice: client closes,  *)
(* kicks and blocks all take the peer out.                                 *)
DepartedPeerRemoved ==
    \A id \in RoomIds : roomById[id] # None =>
        \A q \in peers[roomById[id]] :
            \/ connection[SocketOf[q]] = "open"
            \/ q \in late
            \/ \E other \in Requests \ {q} : SocketOf[other] = SocketOf[q] /\ Entered(other)

(* canJoinRoom against join: a non-master who enters the room it was       *)
(* checked for, with nobody else entering in between, does not take the    *)
(* room over MAX_ROOM_CAPACITY.                                            *)
EnterWithinCapacity(q, r) ==
    (/\ q \in peers'[r] \ peers[r]
     /\ UserOf[q] # MasterOf[targetId'[q]]
     /\ q \notin overtaken
     /\ targetId'[q] = targetId[q])
    => Cardinality(peers'[r]) <= Capacity
CapacityUnlessOvertaken ==
    [][\A q, r \in Requests : EnterWithinCapacity(q, r)]_allVars

(* A request whose user the block table and the running room list as       *)
(* blocked, all the while, never gets past canJoinRoom of the room it was  *)
(* made for (running, not running, begun to run in between).  A request    *)
(* that changes its room on the way is not spoken of: it enters the other  *)
(* one unchecked (worker.ts reads roomIdToJoin again).                     *)
BarredNeverAdmitted ==
    \A q \in barred : pc[q] \in {"master", "blacklist"}

----------------------------------------------------------------------------
(* Study history (createStudyHistory, updateExitAtOfStudyHistory).         *)

MembersOf(id, u) ==
    {q \in Requests : UserOf[q] = u /\ \E r \in rooms : targetId[r] = id /\ q \in peers[r]}
CurrentRows(id, u) ==
    {h \in Requests : UserOf[h] = u /\ targetId[h] = id
                      /\ (historyRow[h] = "open" \/ pc[h] = "history")}

(* No leave ends the record of someone who stays: a user who is k times in *)
(* a room has k rows that are open or about to be inserted.                *)
StudyRowsCoverMembers ==
    \A id \in RoomIds, u \in Users :
        Cardinality(MembersOf(id, u)) <= Cardinality(CurrentRows(id, u))

(* A user with a single request, whose row was inserted before the leave   *)
(* looks for it, has the row closed in the end, unless the process dies.   *)
OnlyRequestOfItsUser(q) == \A other \in Requests \ {q} : UserOf[other] # UserOf[q]
LeaveRecorded ==
    \A q \in Requests :
        (/\ OnlyRequestOfItsUser(q)
         /\ exit[SocketOf[q]].step = "find" /\ exit[SocketOf[q]].peer = q
         /\ historyRow[q] = "open")
        ~> (historyRow[q] = "closed" \/ ~alive)

----------------------------------------------------------------------------
(* Routing server (CREATED_ROOM, REMOVED_ROOM).                            *)

(* Once no announcement of a room is owed, the routing server has been     *)
(* told of it exactly if it is registered, provided its creation and its   *)
(* removal were never both owed at once.                                   *)
RoutingAgrees ==
    alive => \A id \in RoomIds \ contested :
        Creating(id) = {} /\ Removing(id) = {} => (id \in running <=> roomById[id] # None)

(* The server implements the directory of rooms that RoutingConnection is  *)
(* about: every handler that opens or closes a room, and none else, owes   *)
(* its announcement, makes it once, and a crash drops rooms and debts      *)
(* together.                                                               *)
Owed ==
    {[by |-> q, about |-> "created", room |-> targetId[q]] :
        q \in {x \in rooms : pc[x] \in {"history", "recorded"}}}
    \cup {[by |-> s, about |-> "removed", room |-> targetId[exit[s].peer]] :
            s \in {x \in Sockets : exit[x].removed}}
Directory == INSTANCE RoomDirectory
    WITH Handlers <- Requests \cup Sockets, up <- alive, owed <- Owed,
         registered <- {id \in RoomIds : roomById[id] # None}, announced <- running
ImplementsDirectory == Directory!DirectorySpec

----------------------------------------------------------------------------
(* Block list (blockUser, unblockUser, createAndJoin).                     *)

(* With no block or unblock call under way, a running room's blacklist is  *)
(* the block table's, provided no two such calls overlapped each other or  *)
(* one of them the construction of a Room.                                 *)
BlacklistAgrees ==
    alive => \A id \in RoomIds \ skewed :
        CommandsOn(id) = {} /\ roomById[id] # None
        => blacklist[roomById[id]] = blockRows[id]

----------------------------------------------------------------------------
(* Waiting rooms.                                                          *)

(* A socket is listed in the waiting room its index names and in no other, *)
(* and in none once it is closed, provided it was never put in a waiting   *)
(* room while closed or while listed in another.                           *)
WaitingListsExact ==
    \A s \in Sockets \ strayed :
        /\ WaitingRoomsOf(s) = {waitingRoomIdBySocketId[s]} \ {None}
        /\ connection[s] = "closed" => WaitingRoomsOf(s) = {}

(* A socket that has a waiting room is listed there, races or not.         *)
IndexedIsListed ==
    \A s \in Sockets : waitingRoomIdBySocketId[s] # None =>
        s \in socketsByRoomId[waitingRoomIdBySocketId[s]]

----------------------------------------------------------------------------
(* Every JOIN_ROOM is called back with success or failure, unless the      *)
(* process ends first and the request is lost with it.                     *)
JoinAnswered ==
    \A q \in Requests : pc[q] # "idle" ~> pc[q] \in {"joined", "refused", "lost"}

----------------------------------------------------------------------------
(* What comments and tests of the repository say, and races break.         *)

(* constant/room_constant.ts: the capacity is the largest number of people *)
(* in a room.  The master, whom canJoinRoom always lets in, is not counted.*)
RoomWithinCapacity ==
    \A r \in rooms :
        Cardinality({q \in peers[r] : UserOf[q] # MasterOf[targetId[r]]}) <= Capacity

(* model/Room.ts, disposePeer: the room a socket is mapped to has a peer   *)
(* of that socket to dispose when it closes.                               *)
PeerToDispose == \A s \in Sockets : connection[s] = "open" => ~DisconnectThrows(s)

(* model/WaitingRoomData.ts, joinerList: the joiners shown for a room are  *)
(* people who take part in it; somebody whose socket is closed does not.   *)
JoinersAreConnected ==
    \A id \in RoomIds : roomById[id] # None =>
        \A q \in peers[roomById[id]] : pc[q] = "joined" => connection[SocketOf[q]] = "open"
==========================================================================
