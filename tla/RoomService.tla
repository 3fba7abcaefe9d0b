--------------------------- MODULE RoomService ---------------------------
(***************************************************************************)
(* The media server's room life cycle: the socket handlers of worker.ts,   *)
(* RoomService, RoomRepository, the membership part of Room, the waiting   *)
(* room repository, the database rows they read and write and the set of   *)
(* running rooms the routing server is told of.                            *)
(*                                                                         *)
(* The server is one JavaScript thread.  A handler runs without            *)
(* interruption up to an await on the database or on the mediasoup worker, *)
(* so one action is one such segment, and the segments of the handlers of  *)
(* all sockets interleave.  A handler that throws is a rejected promise    *)
(* nobody handles (or an uncaught exception): the process ends.            *)
(***************************************************************************)
EXTENDS Naturals, FiniteSets

CONSTANTS
    RoomIds,      \* room ids clients may ask for
    DbRooms,      \* the ids that have a row in the room table
    Users,        \* user ids clients may claim
    Accounts,     \* ids that have a row in the user_account table; the others
                  \* may have one or not
    Sockets,      \* socket ids, never reused
    Requests,     \* JOIN_ROOM requests: the Peer object each one builds, the
                  \* Room object it builds when the room is not running, and
                  \* the study_history row it inserts have its name
    Lookups,      \* JOIN_WAITING_ROOM calls: a bound on how many are in progress
                  \* at once; one that has been answered may be made again
    Commands,     \* BLOCK_USER and UNBLOCK_USER calls (a bound on their number)
    CallerOf,     \* lookup -> the socket that makes it
    SocketOf,     \* request -> the socket that sends it
    UserOf,       \* request -> the user id in its arguments
    MasterOf,     \* room id -> room.master_id, never updated by this server
    BlockedBefore, \* users that may be blocked when the server first starts
    Capacity,     \* MAX_ROOM_CAPACITY
    MaxRestarts,  \* bound on the redeployments of the server
    Patient,      \* bound: the sockets whose clients ask to join when all
                  \* their JOIN_WAITING_ROOM calls have been answered, and
                  \* make none afterwards
    None

ASSUME ConstantsTyped ==
    /\ DbRooms \subseteq RoomIds
    /\ Accounts \subseteq Users
    /\ CallerOf \in [Lookups -> Sockets]
    /\ SocketOf \in [Requests -> Sockets]
    /\ UserOf \in [Requests -> Users]
    /\ MasterOf \in [RoomIds -> Users]
    /\ BlockedBefore \subseteq Users
ASSUME NoneIsFresh == None \notin RoomIds \cup Users \cup Sockets \cup Requests
ASSUME RequestsFinite == IsFiniteSet(Requests)
ASSUME CapacityPositive == Capacity \in Nat \ {0}
ASSUME BoundsTyped == MaxRestarts \in Nat /\ Patient \subseteq Sockets

VARIABLES
    alive,            \* the node process runs
    restarts,
    connection,       \* socket -> "new", "open" or "closed"
    roomIdToJoin,     \* the closure variable of handleConnect, per socket
    lookup,           \* the waiting room each joinWaitingRoom call is for, None
                      \* if the call is not in progress
    socketsByRoomId, waitingRoomIdBySocketId,   \* WaitingRoomRepository
    pc,               \* request -> where its JOIN_ROOM handler stands
    targetId,         \* request -> the room id its handler passes on
    rooms,            \* the Room objects built by this process
    peers,            \* Room object -> Room._peers
    blacklist,        \* Room object -> Room._blacklist
    roomById, roomIdBySocketId,                 \* RoomRepository
    exit,             \* socket -> its disconnect handler after its first await
    command,          \* block and unblock calls in progress
    blockRows,        \* the block table: room id -> users
    historyRow,       \* the study_history table
    running           \* the routing server's record of this server's rooms

socketVars == <<connection, roomIdToJoin, lookup>>
waitingVars == <<socketsByRoomId, waitingRoomIdBySocketId>>
requestVars == <<pc, targetId>>
registryVars == <<roomById, roomIdBySocketId, peers>>
processVars == <<alive, restarts>>
dbVars == <<blockRows, historyRow>>
vars == <<processVars, socketVars, waitingVars, requestVars, rooms, blacklist,
          registryVars, exit, command, dbVars, running>>

Waiting == INSTANCE WaitingRoomRepository
              WITH roomIdBySocketId <- waitingRoomIdBySocketId

----------------------------------------------------------------------------
(* Values.                                                                 *)

(* The awaits of the JOIN_ROOM handler: findMasterIdFromDB and             *)
(* findBlacklistFromDB when the room is not running; getPassword and       *)
(* getUserBy, which read nothing that changes, as the one stage "admit";   *)
(* createRouter; findRoomFromDB and findBlacklistFromDB of createAndJoin;  *)
(* createStudyHistory until its row is committed, and until its answer.    *)
AwaitStages == {"master", "blacklist", "admit", "router", "room", "register",
                "history", "recorded"}
InFlight(q) == pc[q] \in AwaitStages

NoExit == [step |-> "none", peer |-> None, removed |-> FALSE, row |-> None]
ExitDone == [NoExit EXCEPT !.step = "done"]
NoCommand == [step |-> "idle", room |-> None, peer |-> None, user |-> None]
CommandDone == [NoCommand EXCEPT !.step = "done"]

Init ==
    /\ alive = TRUE
    /\ restarts = 0
    /\ connection = [s \in Sockets |-> "new"]
    /\ roomIdToJoin = [s \in Sockets |-> None]
    /\ lookup = [l \in Lookups |-> None]
    /\ Waiting!WaitingInit
    /\ pc = [q \in Requests |-> "idle"]
    /\ targetId = [q \in Requests |-> None]
    /\ rooms = {}
    /\ peers = [r \in Requests |-> {}]
    /\ blacklist = [r \in Requests |-> {}]
    /\ roomById = [id \in RoomIds |-> None]
    /\ roomIdBySocketId = [s \in Sockets |-> None]
    /\ exit = [s \in Sockets |-> NoExit]
    /\ command = [c \in Commands |-> NoCommand]
    /\ blockRows \in [RoomIds -> SUBSET BlockedBefore]
    /\ \A id \in RoomIds \ DbRooms : blockRows[id] = {}
    /\ historyRow = [q \in Requests |-> "none"]
    /\ running = {}

----------------------------------------------------------------------------
(* Look-ups of the repositories and of Room.                               *)

FindRoomBySocketId(s) ==
    IF roomIdBySocketId[s] = None THEN None ELSE roomById[roomIdBySocketId[s]]

(* Room._peers is a list and its find methods take the first match.  The   *)
(* order is not kept: where a socket or a user has several peers in a      *)
(* room, any of them may be the one found.                                 *)
PeersOn(r, s) == {q \in peers[r] : SocketOf[q] = s}
PeersOfUser(r, u) == {q \in peers[r] : UserOf[q] = u}

JoinerCount(id) ==
    IF roomById[id] = None THEN 0 ELSE Cardinality(peers[roomById[id]])

(* A mutant of IsFull: one joiner too many.                                *)
IsFullLate(id, q) == UserOf[q] # MasterOf[id] /\ Capacity < JoinerCount(id)

IsFull(id, q) == UserOf[q] # MasterOf[id] /\ Capacity <= JoinerCount(id)

(* Room.blacklist of a running room, the block table of one that is not:   *)
(* RoomRepository.getBlacklist reads one or the other.                     *)
MemoryBlocks(r, u) == u \in blacklist[r]

(* A mutant of RowBlocks: the table is not consulted.                      *)
RowBlocksNobody(id, u) == FALSE

RowBlocks(id, u) == u \in blockRows[id]

(* A mutant of Verdict: a refused request is never called back.            *)
VerdictUnanswered(q, refuse) == IF refuse THEN "silent" ELSE "admit"

(* A failed check answers the request with "failure", a passed one leads   *)
(* on to the password and the user.                                        *)
Verdict(q, refuse) == IF refuse THEN "refused" ELSE "admit"

Goto(q, stage) == pc' = [pc EXCEPT ![q] = stage]

----------------------------------------------------------------------------
(* The process.                                                            *)

(* The process ends: every map of the repositories is gone, every socket   *)
(* is closed, nothing awaited is answered.  The tables keep their rows,    *)
(* and targetId its value: it is the room id of a history row.             *)
Crash ==
    /\ alive' = FALSE
    /\ connection' = [s \in Sockets |->
          IF connection[s] = "open" THEN "closed" ELSE connection[s]]
    /\ roomIdToJoin' = [s \in Sockets |-> None]
    /\ lookup' = [l \in Lookups |-> None]
    /\ socketsByRoomId' = [id \in RoomIds |-> {}]
    /\ waitingRoomIdBySocketId' = [s \in Sockets |-> None]
    /\ pc' = [q \in Requests |-> IF InFlight(q) THEN "lost" ELSE pc[q]]
    /\ rooms' = {}
    /\ peers' = [r \in Requests |-> {}]
    /\ blacklist' = [r \in Requests |-> {}]
    /\ roomById' = [id \in RoomIds |-> None]
    /\ roomIdBySocketId' = [s \in Sockets |-> None]
    /\ exit' = [s \in Sockets |-> IF exit[s].step = "none" THEN NoExit ELSE ExitDone]
    /\ command' = [c \in Commands |->
          IF command[c].step = "idle" THEN NoCommand ELSE CommandDone]
    /\ UNCHANGED <<restarts, targetId, dbVars, running>>

(* worker.on("died"): the process follows its mediasoup worker.  The bound *)
(* MaxRestarts also bounds how often this is tried.                        *)
WorkerDied ==
    /\ alive /\ restarts < MaxRestarts
    /\ Crash

(* deploy.sh starts the container again; the new process registers its     *)
(* rooms, none yet, with the routing server before any client is served.   *)
Restart ==
    /\ ~alive /\ restarts < MaxRestarts
    /\ alive' = TRUE
    /\ restarts' = restarts + 1
    /\ running' = {}
    /\ UNCHANGED <<socketVars, waitingVars, requestVars, rooms, blacklist,
                   registryVars, exit, command, dbVars>>

(* app.js: a socket connects and handleConnect installs its handlers.      *)
Connect(s) ==
    /\ alive /\ connection[s] = "new"
    /\ connection' = [connection EXCEPT ![s] = "open"]
    /\ UNCHANGED <<processVars, roomIdToJoin, lookup, waitingVars, requestVars,
                   rooms, blacklist, registryVars, exit, command, dbVars, running>>

(* The server handles an event of this socket.                             *)
Serves(s) == alive /\ connection[s] = "open"

----------------------------------------------------------------------------
(* JOIN_WAITING_ROOM.  A socket may call again before it is answered, and  *)
(* its calls are answered in any order.                                    *)

JoinWaitingRoom(l, id) ==
    LET s == CallerOf[l] IN
    /\ Serves(s) /\ lookup[l] = None
    /\ s \in Patient => \A q \in Requests : SocketOf[q] = s => pc[q] = "idle"
    /\ roomIdToJoin' = [roomIdToJoin EXCEPT ![s] = id]
    /\ lookup' = [lookup EXCEPT ![l] = id]
    /\ UNCHANGED <<processVars, connection, waitingVars, requestVars, rooms,
                   blacklist, registryVars, exit, command, dbVars, running>>

(* The reads are answered.  The socket is listed if the room exists, and   *)
(* whether or not it is still connected.                                   *)
EnterWaitingRoom(l) ==
    /\ alive /\ lookup[l] # None
    /\ IF lookup[l] \in DbRooms THEN Waiting!Join(lookup[l], CallerOf[l])
                               ELSE UNCHANGED waitingVars
    /\ lookup' = [lookup EXCEPT ![l] = None]
    /\ UNCHANGED <<processVars, connection, roomIdToJoin, requestVars, rooms,
                   blacklist, registryVars, exit, command, dbVars, running>>

----------------------------------------------------------------------------
(* JOIN_ROOM.                                                              *)

(* The capacity is checked against the joiners seen here.  A running room  *)
(* answers for its master and its blacklist from memory, in the same step; *)
(* one that is not running has no joiner, and the database is asked.       *)
JoinRoom(q) ==
    /\ Serves(SocketOf[q]) /\ pc[q] = "idle"
    /\ roomIdToJoin[SocketOf[q]] # None
    /\ SocketOf[q] \in Patient =>
          \A l \in Lookups : CallerOf[l] = SocketOf[q] => lookup[l] = None
    /\ LET id == roomIdToJoin[SocketOf[q]] IN
       /\ targetId' = [targetId EXCEPT ![q] = id]
       /\ Goto(q, IF roomById[id] = None THEN "master"
                  ELSE Verdict(q, IsFull(id, q)
                                  \/ MemoryBlocks(roomById[id], UserOf[q])))
    /\ UNCHANGED <<processVars, socketVars, waitingVars, rooms, blacklist,
                   registryVars, exit, command, dbVars, running>>

(* JOIN_ROOM before any JOIN_WAITING_ROOM throws.                          *)
JoinRoomUnprepared(q) ==
    /\ Serves(SocketOf[q]) /\ pc[q] = "idle"
    /\ roomIdToJoin[SocketOf[q]] = None
    /\ Crash

(* The master is read from the table; a room without a row throws.  The    *)
(* blacklist comes from memory if the room has begun to run meanwhile.     *)
LearnMaster(q) ==
    /\ alive /\ pc[q] = "master"
    /\ targetId[q] \in DbRooms
    /\ LET r == roomById[targetId[q]] IN
       Goto(q, IF r = None THEN "blacklist" ELSE Verdict(q, MemoryBlocks(r, UserOf[q])))
    /\ UNCHANGED <<processVars, socketVars, waitingVars, targetId, rooms,
                   blacklist, registryVars, exit, command, dbVars, running>>

MasterUnknown(q) ==
    /\ alive /\ pc[q] = "master"
    /\ targetId[q] \notin DbRooms
    /\ Crash

CheckBlacklistRows(q) ==
    /\ alive /\ pc[q] = "blacklist"
    /\ Goto(q, Verdict(q, RowBlocks(targetId[q], UserOf[q])))
    /\ UNCHANGED <<processVars, socketVars, waitingVars, targetId, rooms,
                   blacklist, registryVars, exit, command, dbVars, running>>

(* The password is wrong.                                                  *)
RefusePassword(q) ==
    /\ alive /\ pc[q] = "admit"
    /\ Goto(q, "refused")
    /\ UNCHANGED <<processVars, socketVars, waitingVars, targetId, rooms,
                   blacklist, registryVars, exit, command, dbVars, running>>

(* getUserBy finds no account, and the handler throws.                     *)
UserUnknown(q) ==
    /\ alive /\ pc[q] = "admit"
    /\ UserOf[q] \notin Accounts
    /\ Crash

(* A mutant of MapsSocket: the index is not written.                       *)
MapsSocketNever(s, id) == roomIdBySocketId' = roomIdBySocketId

(* _setRoom, for the socket of the peer that enters.                       *)
MapsSocket(s, id) == roomIdBySocketId' = [roomIdBySocketId EXCEPT ![s] = id]

(* The handler goes on with the room id the closure variable holds now,    *)
(* which need not be the one it checked.                                   *)
Admitted(q) == alive /\ pc[q] = "admit"

(* joinRoom: the room runs, and the peer enters it.                        *)
JoinExistingRoom(q) ==
    LET s == SocketOf[q]
        id == roomIdToJoin[s]
        r == roomById[id]
    IN  /\ Admitted(q) /\ r # None
        /\ targetId' = [targetId EXCEPT ![q] = id]
        /\ peers' = [peers EXCEPT ![r] = @ \cup {q}]
        /\ MapsSocket(s, id)
        /\ Waiting!Remove(s)
        /\ Goto(q, "history")
        /\ UNCHANGED <<processVars, socketVars, rooms, blacklist, roomById, exit,
                       command, dbVars, running>>

(* joinRoom found no room: createAndJoinRoom asks the worker for a router. *)
StartCreatingRoom(q) ==
    LET id == roomIdToJoin[SocketOf[q]]
    IN  /\ Admitted(q) /\ roomById[id] = None
        /\ targetId' = [targetId EXCEPT ![q] = id]
        /\ Goto(q, "router")
        /\ UNCHANGED <<processVars, socketVars, waitingVars, rooms, blacklist,
                       registryVars, exit, command, dbVars, running>>

RouterCreated(q) ==
    /\ alive /\ pc[q] = "router"
    /\ Waiting!Remove(SocketOf[q])
    /\ Goto(q, "room")
    /\ UNCHANGED <<processVars, socketVars, targetId, rooms, blacklist,
                   registryVars, exit, command, dbVars, running>>

(* A mutant of StoredBlacklist: a Room always starts with an empty list.   *)
NoStoredBlacklist(id) == {}

(* findBlacklistFromDB.                                                    *)
StoredBlacklist(id) == blockRows[id]

(* A mutant of RoomInDb: createAndJoin does not look at the row it read.   *)
RoomInDbUnchecked(id) == TRUE

RoomInDb(id) == id \in DbRooms

(* createAndJoin reads the room and then the block rows; the Room will     *)
(* start with the rows of this moment.                                     *)
FetchBlacklist(q) ==
    /\ alive /\ pc[q] = "room"
    /\ RoomInDb(targetId[q])
    /\ blacklist' = [blacklist EXCEPT ![q] = StoredBlacklist(targetId[q])]
    /\ Goto(q, "register")
    /\ UNCHANGED <<processVars, socketVars, waitingVars, targetId, rooms,
                   registryVars, exit, command, dbVars, running>>

RoomUnknown(q) ==
    /\ alive /\ pc[q] = "room"
    /\ ~RoomInDb(targetId[q])
    /\ Crash

(* _setRoom: a Room built meanwhile for the same id is overwritten.        *)
RegisterRoom(q) ==
    /\ alive /\ pc[q] = "register"
    /\ rooms' = rooms \cup {q}
    /\ peers' = [peers EXCEPT ![q] = {q}]
    /\ roomById' = [roomById EXCEPT ![targetId[q]] = q]
    /\ MapsSocket(SocketOf[q], targetId[q])
    /\ Goto(q, "history")
    /\ UNCHANGED <<processVars, socketVars, waitingVars, targetId, blacklist, exit,
                   command, dbVars, running>>

(* createStudyHistory commits its row.                                     *)
RecordHistory(q) ==
    /\ alive /\ pc[q] = "history"
    /\ historyRow' = [historyRow EXCEPT ![q] = "open"]
    /\ Goto(q, "recorded")
    /\ UNCHANGED <<processVars, socketVars, waitingVars, targetId, rooms, blacklist,
                   registryVars, exit, command, blockRows, running>>

(* The request is answered with "success"; a handler that built the room   *)
(* tells the routing server first.                                         *)
CompleteJoin(q) ==
    /\ alive /\ pc[q] = "recorded"
    /\ Goto(q, "joined")
    /\ running' = IF q \in rooms THEN running \cup {targetId[q]} ELSE running
    /\ UNCHANGED <<processVars, socketVars, waitingVars, targetId, rooms, blacklist,
                   registryVars, exit, command, dbVars>>

----------------------------------------------------------------------------
(* DISCONNECT.                                                             *)

(* A mutant of EmptiesRoom: the peer is counted after it has been removed. *)
EmptiesRoomNever(r, q) == peers[r] = {}

(* Another: one peer too early.                                            *)
EmptiesRoomEarly(r, q) == Cardinality(peers[r]) <= 2

(* hasPeer is FALSE once the peer has been disposed.                       *)
EmptiesRoom(r, q) == peers[r] = {q}

(* The part of roomService.disconnect before its await: the peer leaves    *)
(* its room, and the last one takes the room with it.                      *)
LeaveRoom(s) ==
    LET r == FindRoomBySocketId(s) IN
    /\ \E q \in PeersOn(r, s) :
          /\ peers' = [peers EXCEPT ![r] = @ \ {q}]
          /\ roomById' = IF EmptiesRoom(r, q)
                         THEN [roomById EXCEPT ![targetId[r]] = None] ELSE roomById
          /\ exit' = [exit EXCEPT ![s] = [step |-> "find", peer |-> q,
                                          removed |-> EmptiesRoom(r, q), row |-> None]]
    /\ roomIdBySocketId' = [roomIdBySocketId EXCEPT ![s] = None]

(* The socket closes: disconnect() and the close of the connection run the *)
(* handler at once.  A socket no running room is found for leaves nothing  *)
(* but the waiting room.                                                   *)
Disconnect(s) ==
    /\ connection' = [connection EXCEPT ![s] = "closed"]
    /\ Waiting!Remove(s)
    /\ IF FindRoomBySocketId(s) = None THEN UNCHANGED <<registryVars, exit>>
                                       ELSE LeaveRoom(s)

(* disposePeer throws: the room found by the socket's index has no peer of *)
(* the socket.                                                             *)
DisconnectThrows(s) ==
    FindRoomBySocketId(s) # None /\ PeersOn(FindRoomBySocketId(s), s) = {}

ClientDisconnects(s) ==
    /\ Serves(s) /\ ~DisconnectThrows(s)
    /\ Disconnect(s)
    /\ UNCHANGED <<processVars, roomIdToJoin, lookup, requestVars, rooms, blacklist,
                   command, dbVars, running>>

ClientDisconnectFails(s) ==
    /\ Serves(s) /\ DisconnectThrows(s)
    /\ Crash

(* Mutants of OpenRows: the user's rows of every room; and the two         *)
(* arguments swapped, so that none is found.                               *)
OpenRowsAnywhere(q) ==
    {h \in Requests : historyRow[h] = "open" /\ UserOf[h] = UserOf[q]}
OpenRowsSwapped(q) == {}

(* updateExitAtOfStudyHistory looks for an open row of the user in the     *)
(* room: any of them, not the one this peer inserted.                      *)
OpenRows(q) ==
    {h \in Requests : /\ historyRow[h] = "open"
                      /\ targetId[h] = targetId[q]
                      /\ UserOf[h] = UserOf[q]}

(* A mutant of AfterExit: no result is returned to the handler.            *)
AfterExitSilent(s) == ExitDone

(* A removed room is announced when the handler goes on.                   *)
AfterExit(s) == IF exit[s].removed THEN [exit[s] EXCEPT !.step = "announce"] ELSE ExitDone

FindOpenRow(s) ==
    /\ alive /\ exit[s].step = "find"
    /\ LET rows == OpenRows(exit[s].peer) IN
       \/ rows = {} /\ exit' = [exit EXCEPT ![s] = AfterExit(s)]
       \/ \E h \in rows :
             exit' = [exit EXCEPT ![s] = [exit[s] EXCEPT !.step = "close", !.row = h]]
    /\ UNCHANGED <<processVars, socketVars, waitingVars, requestVars, rooms,
                   blacklist, registryVars, command, dbVars, running>>

(* A mutant of RowsClosedBy: updateMany in place of update.                *)
RowsClosedByAll(s) == OpenRows(exit[s].peer)

(* update is given the key of the row found, closed meanwhile or not.      *)
RowsClosedBy(s) == {exit[s].row}

CloseRow(s) ==
    /\ alive /\ exit[s].step = "close"
    /\ historyRow' = [h \in Requests |->
          IF h \in RowsClosedBy(s) THEN "closed" ELSE historyRow[h]]
    /\ exit' = [exit EXCEPT ![s] = AfterExit(s)]
    /\ UNCHANGED <<processVars, socketVars, waitingVars, requestVars, rooms,
                   blacklist, registryVars, command, blockRows, running>>

AnnounceRemoval(s) ==
    /\ alive /\ exit[s].step = "announce"
    /\ running' = running \ {targetId[exit[s].peer]}
    /\ exit' = [exit EXCEPT ![s] = ExitDone]
    /\ UNCHANGED <<processVars, socketVars, waitingVars, requestVars, rooms,
                   blacklist, registryVars, command, dbVars>>

----------------------------------------------------------------------------
(* KICK_USER, BLOCK_USER and UNBLOCK_USER.                                 *)

(* The peer of this socket is the room's master.                           *)
IsMaster(s, r) == \E q \in PeersOn(r, s) : UserOf[q] = MasterOf[targetId[r]]

CanModerate(s) ==
    /\ Serves(s)
    /\ FindRoomBySocketId(s) # None
    /\ IsMaster(s, FindRoomBySocketId(s))

(* disconnectSocket on a peer: nothing happens to a closed socket.         *)
DisconnectSocket(s) ==
    IF connection[s] = "open"
    THEN Disconnect(s)
    ELSE UNCHANGED <<connection, waitingVars, registryVars, exit>>

KickUser(s, u) ==
    /\ CanModerate(s)
    /\ \E q \in PeersOfUser(FindRoomBySocketId(s), u) :
          IF connection[SocketOf[q]] = "open" /\ DisconnectThrows(SocketOf[q])
          THEN Crash
          ELSE /\ DisconnectSocket(SocketOf[q])
               /\ UNCHANGED <<processVars, roomIdToJoin, lookup, requestVars, rooms,
                              blacklist, command, dbVars, running>>

(* KICK_USER or BLOCK_USER of a socket outside every room, of a peer that  *)
(* is not the master, or for a user who is not in the room, throws.        *)
ModerationFails(s, u) ==
    /\ Serves(s)
    /\ CanModerate(s) => PeersOfUser(FindRoomBySocketId(s), u) = {}
    /\ Crash

(* The handler keeps the Room and the Peer it found across the insert.     *)
BlockUser(c, s, u) ==
    /\ command[c].step = "idle" /\ CanModerate(s)
    /\ LET r == FindRoomBySocketId(s) IN
       \E q \in PeersOfUser(r, u) :
          command' = [command EXCEPT ![c] =
                         [step |-> "insert", room |-> r, peer |-> q, user |-> u]]
    /\ UNCHANGED <<processVars, socketVars, waitingVars, requestVars, rooms,
                   blacklist, registryVars, exit, dbVars, running>>

(* The primary key of the block table is (room, user): a second insert of  *)
(* the same pair is rejected, and the rejection is not handled.            *)
InsertBlock(c) ==
    LET id == targetId[command[c].room]
        u == command[c].user
    IN  /\ alive /\ command[c].step = "insert"
        /\ u \notin blockRows[id]
        /\ blockRows' = [blockRows EXCEPT ![id] = @ \cup {u}]
        /\ command' = [command EXCEPT ![c].step = "inserted"]
        /\ UNCHANGED <<processVars, socketVars, waitingVars, requestVars, rooms,
                       blacklist, registryVars, exit, historyRow, running>>

BlockAgain(c) ==
    /\ alive /\ command[c].step = "insert"
    /\ command[c].user \in blockRows[targetId[command[c].room]]
    /\ Crash

(* room.blockUser and disconnectSocket, on the objects found before the    *)
(* insert.                                                                 *)
FinishBlock(c) ==
    LET s == SocketOf[command[c].peer]
    IN  /\ alive /\ command[c].step = "inserted"
        /\ IF connection[s] = "open" /\ DisconnectThrows(s)
           THEN Crash
           ELSE /\ blacklist' = [blacklist EXCEPT ![command[c].room] =
                                    @ \cup {command[c].user}]
                /\ DisconnectSocket(s)
                /\ command' = [command EXCEPT ![c] = CommandDone]
                /\ UNCHANGED <<processVars, roomIdToJoin, lookup, requestVars, rooms,
                               dbVars, running>>

(* UNBLOCK_USER.  A failed guard is answered with FALSE and changes        *)
(* nothing.                                                                *)
UnblockUser(c, s, u) ==
    /\ command[c].step = "idle" /\ CanModerate(s)
    /\ command' = [command EXCEPT ![c] =
                      [step |-> "delete", room |-> FindRoomBySocketId(s),
                       peer |-> None, user |-> u]]
    /\ UNCHANGED <<processVars, socketVars, waitingVars, requestVars, rooms,
                   blacklist, registryVars, exit, dbVars, running>>

(* Deleting a row that is not there fails, and the failure is caught.      *)
DeleteBlock(c) ==
    LET id == targetId[command[c].room]
        u == command[c].user
    IN  /\ alive /\ command[c].step = "delete"
        /\ blockRows' = [blockRows EXCEPT ![id] = @ \ {u}]
        /\ command' = [command EXCEPT ![c] =
              IF u \in blockRows[id] THEN [command[c] EXCEPT !.step = "deleted"]
                                     ELSE CommandDone]
        /\ UNCHANGED <<processVars, socketVars, waitingVars, requestVars, rooms,
                       blacklist, registryVars, exit, historyRow, running>>

FinishUnblock(c) ==
    /\ alive /\ command[c].step = "deleted"
    /\ blacklist' = [blacklist EXCEPT ![command[c].room] = @ \ {command[c].user}]
    /\ command' = [command EXCEPT ![c] = CommandDone]
    /\ UNCHANGED <<processVars, socketVars, waitingVars, requestVars, rooms,
                   registryVars, exit, dbVars, running>>

----------------------------------------------------------------------------
(* The handler of request q goes on after an await.                        *)
RequestStep(q) ==
    \/ LearnMaster(q) \/ MasterUnknown(q) \/ CheckBlacklistRows(q)
    \/ RefusePassword(q) \/ UserUnknown(q) \/ JoinExistingRoom(q)
    \/ StartCreatingRoom(q) \/ RouterCreated(q) \/ FetchBlacklist(q)
    \/ RoomUnknown(q) \/ RegisterRoom(q) \/ RecordHistory(q) \/ CompleteJoin(q)

ExitStep(s) == FindOpenRow(s) \/ CloseRow(s) \/ AnnounceRemoval(s)

CommandStep(c) ==
    \/ InsertBlock(c) \/ BlockAgain(c) \/ FinishBlock(c)
    \/ DeleteBlock(c) \/ FinishUnblock(c)

(* A client sends an event, or its connection closes.                      *)
ClientStep ==
    \/ \E s \in Sockets :
          \/ Connect(s) \/ ClientDisconnects(s) \/ ClientDisconnectFails(s)
          \/ \E u \in Users :
                \/ KickUser(s, u) \/ ModerationFails(s, u)
                \/ \E c \in Commands : BlockUser(c, s, u) \/ UnblockUser(c, s, u)
    \/ \E l \in Lookups, id \in RoomIds : JoinWaitingRoom(l, id)
    \/ \E q \in Requests : JoinRoom(q) \/ JoinRoomUnprepared(q)

Next ==
    \/ WorkerDied \/ Restart
    \/ ClientStep
    \/ \E l \in Lookups : EnterWaitingRoom(l)
    \/ \E s \in Sockets : ExitStep(s)
    \/ \E q \in Requests : RequestStep(q)
    \/ \E c \in Commands : CommandStep(c)

Spec == Init /\ [][Next]_vars

(* The database and the mediasoup worker answer every call; clients owe    *)
(* nothing.                                                                *)
Fairness ==
    /\ \A l \in Lookups : WF_vars(EnterWaitingRoom(l))
    /\ \A s \in Sockets : WF_vars(ExitStep(s))
    /\ \A q \in Requests : WF_vars(RequestStep(q))
    /\ \A c \in Commands : WF_vars(CommandStep(c))

FairSpec == Spec /\ Fairness
==========================================================================
