------------------------ MODULE RoomServiceProofs ------------------------
(***************************************************************************)
(* Theorems of RoomServiceRequirements, for every set of rooms, users,     *)
(* sockets and requests and every capacity.                                *)
(***************************************************************************)
EXTENDS RoomServiceRequirements, TLAPS, FiniteSetTheorems

----------------------------------------------------------------------------
(* The steps of Next by their effect.  Kicks, finished blocks and clients  *)
(* that leave close a socket in the same way; every failure is a crash.    *)

RequestMoves(q) ==
    \/ JoinRoom(q) \/ LearnMaster(q) \/ CheckBlacklistRows(q) \/ RefusePassword(q)
    \/ JoinExistingRoom(q) \/ StartCreatingRoom(q) \/ RouterCreated(q)
    \/ FetchBlacklist(q) \/ RegisterRoom(q) \/ RecordHistory(q) \/ CompleteJoin(q)

WaitingMoves(s) ==
    \/ Connect(s)
    \/ \E l \in Lookups : /\ CallerOf[l] = s
                         /\ \/ EnterWaitingRoom(l)
                            \/ \E id \in RoomIds : JoinWaitingRoom(l, id)

CommandMoves(c) ==
    \/ InsertBlock(c) \/ DeleteBlock(c) \/ FinishUnblock(c)
    \/ \E s \in Sockets, u \in Users : BlockUser(c, s, u) \/ UnblockUser(c, s, u)

Lists(c) ==
    /\ command[c].step = "inserted"
    /\ blacklist' = [blacklist EXCEPT ![command[c].room] = @ \cup {command[c].user}]
    /\ command' = [command EXCEPT ![c] = CommandDone]
ListsOrNot == UNCHANGED <<blacklist, command>> \/ \E c \in Commands : Lists(c)

Stays == UNCHANGED <<processVars, roomIdToJoin, lookup, requestVars, rooms, dbVars, running>>

Departs(s) ==
    /\ alive /\ connection[s] = "open" /\ ~DisconnectThrows(s)
    /\ Disconnect(s) /\ Stays /\ ListsOrNot
NobodyDeparts ==
    UNCHANGED <<connection, waitingVars, registryVars, exit>> /\ Stays /\ ListsOrNot

(* What the handlers in progress know.  A request past its first step has  *)
(* a target, and its socket still has a room to join; a Room is only built *)
(* for a row of the room table, and its builder has entered it.            *)
KnowsTarget(q) ==
    /\ InFlight(q) => targetId[q] \in RoomIds /\ roomIdToJoin[SocketOf[q]] \in RoomIds
    /\ pc[q] = "register" => targetId[q] \in DbRooms
    /\ q \in rooms => targetId[q] \in DbRooms /\ Entered(q)

(* A block or unblock call in progress holds the objects it found.         *)
KnowsObjects(c) ==
    /\ InProgress(c) => command[c].user \in Users /\ command[c].room \in Requests
    /\ command[c].step \in {"insert", "inserted"} => command[c].peer \in Requests

TypeInv ==
    /\ TypeOK
    /\ \A q \in Requests : KnowsTarget(q)
    /\ \A c \in Commands : KnowsObjects(c)

(* The Room found through a socket is a Room object.                       *)
LEMMA RoomFound ==
  ASSUME TypeOK, NEW s \in Sockets, FindRoomBySocketId(s) # None
  PROVE  /\ roomIdBySocketId[s] \in RoomIds
         /\ FindRoomBySocketId(s) = roomById[roomIdBySocketId[s]]
         /\ FindRoomBySocketId(s) \in Requests
  BY NoneIsFresh DEF TypeOK, FindRoomBySocketId

LEMMA StepCases ==
  ASSUME TypeInv, Next
  PROVE  \/ Crash \/ Restart \/ NobodyDeparts
         \/ \E q \in Requests : RequestMoves(q)
         \/ \E s \in Sockets : WaitingMoves(s) \/ ExitStep(s) \/ Departs(s)
         \/ \E c \in Commands : CommandMoves(c)
<1>1. CASE WorkerDied \/ Restart
  BY <1>1 DEF WorkerDied
<1>2. ASSUME NEW l \in Lookups, EnterWaitingRoom(l) \/ \E id \in RoomIds : JoinWaitingRoom(l, id)
      PROVE  CallerOf[l] \in Sockets /\ WaitingMoves(CallerOf[l])
  BY <1>2, ConstantsTyped DEF WaitingMoves
<1>3. CASE \E q \in Requests : RequestStep(q)
  BY <1>3 DEF RequestStep, RequestMoves, MasterUnknown, UserUnknown, RoomUnknown
<1>4. ASSUME NEW c \in Commands, FinishBlock(c)
      PROVE  Crash \/ NobodyDeparts \/ \E s \in Sockets : Departs(s)
  <2> DEFINE t == SocketOf[command[c].peer]
  <2>1. t \in Sockets
    BY <1>4, ConstantsTyped DEF TypeInv, KnowsObjects, FinishBlock
  <2>2. CASE Crash
    BY <2>2
  <2>3. CASE ~Crash /\ connection[t] = "open"
    BY <1>4, <2>1, <2>3 DEF FinishBlock, Departs, DisconnectSocket, Stays, ListsOrNot, Lists
  <2>4. CASE ~Crash /\ connection[t] # "open"
    BY <1>4, <2>4 DEF FinishBlock, NobodyDeparts, DisconnectSocket, Stays, ListsOrNot, Lists
  <2> QED BY <2>2, <2>3, <2>4
<1>5. CASE \E c \in Commands : CommandStep(c)
  BY <1>4, <1>5 DEF CommandStep, CommandMoves, BlockAgain
<1>6. ASSUME NEW s \in Sockets, NEW u \in Users, KickUser(s, u)
      PROVE  Crash \/ NobodyDeparts \/ \E t \in Sockets : Departs(t)
  <2> DEFINE r == FindRoomBySocketId(s)
  <2>1. r \in Requests
    BY <1>6, RoomFound DEF KickUser, CanModerate, TypeInv
  <2>2. PICK q \in PeersOfUser(r, u) :
          IF connection[SocketOf[q]] = "open" /\ DisconnectThrows(SocketOf[q])
          THEN Crash
          ELSE /\ DisconnectSocket(SocketOf[q])
               /\ UNCHANGED <<processVars, roomIdToJoin, lookup, requestVars, rooms,
                              blacklist, command, dbVars, running>>
    BY <1>6 DEF KickUser
  <2>3. SocketOf[q] \in Sockets
    BY <2>1, ConstantsTyped DEF PeersOfUser, TypeInv, TypeOK
  <2>4. alive
    BY <1>6 DEF KickUser, CanModerate, Serves
  <2>5. CASE connection[SocketOf[q]] = "open"
    BY <2>2, <2>3, <2>4, <2>5 DEF Departs, DisconnectSocket, Stays, ListsOrNot
  <2>6. CASE connection[SocketOf[q]] # "open"
    BY <2>2, <2>6 DEF NobodyDeparts, DisconnectSocket, Stays, ListsOrNot
  <2> QED BY <2>5, <2>6
<1>7. CASE ClientStep
  <2>1. CASE \E q \in Requests : JoinRoom(q) \/ JoinRoomUnprepared(q)
    BY <2>1 DEF RequestMoves, JoinRoomUnprepared
  <2>2. ASSUME NEW s \in Sockets, ClientDisconnects(s)
        PROVE  Departs(s)
    BY <2>2 DEF ClientDisconnects, Serves, Departs, Stays, ListsOrNot
  <2>3. ASSUME NEW s \in Sockets, NEW u \in Users, NEW c \in Commands,
               BlockUser(c, s, u) \/ UnblockUser(c, s, u)
        PROVE  CommandMoves(c)
    BY <2>3 DEF CommandMoves
  <2> QED BY <1>2, <1>6, <1>7, <2>1, <2>2, <2>3
          DEF ClientStep, WaitingMoves, ClientDisconnectFails, ModerationFails
<1> QED BY <1>1, <1>2, <1>3, <1>5, <1>7 DEF Next

----------------------------------------------------------------------------
(* Type correctness.                                                       *)

LEMMA InitTyped == Init => TypeInv
  BY ConstantsTyped, BoundsTyped, NoneIsFresh
     DEF Init, TypeInv, TypeOK, KnowsTarget, KnowsObjects, InFlight, AwaitStages,
         InProgress, NoExit, NoCommand, Waiting!WaitingInit, ExitRecords, CommandRecords

LEMMA RequestMovesTyped ==
  ASSUME TypeInv, NEW q \in Requests, RequestMoves(q)
  PROVE  TypeInv'
<1> USE ConstantsTyped, NoneIsFresh
        DEF Goto, Verdict, MapsSocket, Waiting!Remove, StoredBlacklist, RoomInDb,
            processVars, socketVars, waitingVars, registryVars, dbVars
<1>1. SocketOf[q] \in Sockets
  OBVIOUS
<1>2. TypeOK /\ KnowsTarget(q) /\ (pc[q] = "idle" => q \notin rooms)
  BY DEF TypeInv, KnowsTarget, Entered
<1>3. command' = command /\ roomIdToJoin' = roomIdToJoin
  BY DEF RequestMoves, JoinRoom, LearnMaster, CheckBlacklistRows, RefusePassword,
         JoinExistingRoom, StartCreatingRoom, RouterCreated, FetchBlacklist,
         RegisterRoom, RecordHistory, CompleteJoin
<1>4. \A p \in Requests \ {q} :
        /\ pc'[p] = pc[p] /\ targetId'[p] = targetId[p]
        /\ p \in rooms' => p \in rooms
  BY <1>2 DEF TypeOK, RequestMoves, JoinRoom, LearnMaster, CheckBlacklistRows, RefusePassword,
         JoinExistingRoom, StartCreatingRoom, RouterCreated, FetchBlacklist,
         RegisterRoom, RecordHistory, CompleteJoin
<1>5. TypeOK' /\ KnowsTarget(q)'
  <2> USE <1>1, <1>2 DEF KnowsTarget, InFlight, AwaitStages, Entered
  <2>1. CASE JoinRoom(q)
    BY <2>1 DEF TypeOK, JoinRoom
  <2>2. CASE LearnMaster(q)
    BY <2>2 DEF TypeOK, LearnMaster
  <2>3. CASE CheckBlacklistRows(q)
    BY <2>3 DEF TypeOK, CheckBlacklistRows
  <2>4. CASE RefusePassword(q)
    BY <2>4 DEF TypeOK, RefusePassword
  <2>5. CASE JoinExistingRoom(q)
    BY <2>5 DEF TypeOK, JoinExistingRoom, Admitted
  <2>6. CASE StartCreatingRoom(q)
    BY <2>6 DEF TypeOK, StartCreatingRoom, Admitted
  <2>7. CASE RouterCreated(q)
    BY <2>7 DEF TypeOK, RouterCreated
  <2>8. CASE FetchBlacklist(q)
    BY <2>8 DEF TypeOK, FetchBlacklist
  <2>9. CASE RegisterRoom(q)
    BY <2>9 DEF TypeOK, RegisterRoom
  <2>10. CASE RecordHistory(q)
    BY <2>10 DEF TypeOK, RecordHistory
  <2>11. CASE CompleteJoin(q)
    BY <2>11 DEF TypeOK, CompleteJoin
  <2> QED BY <2>1, <2>2, <2>3, <2>4, <2>5, <2>6, <2>7, <2>8, <2>9, <2>10, <2>11
          DEF RequestMoves
<1>6. \A p \in Requests : KnowsTarget(p)'
  <2> SUFFICES ASSUME NEW p \in Requests PROVE KnowsTarget(p)'
    OBVIOUS
  <2>1. CASE p = q
    BY <1>5, <2>1
  <2>2. CASE p # q
    BY <1>3, <1>4, <2>2 DEF TypeInv, KnowsTarget, InFlight, Entered
  <2> QED BY <2>1, <2>2
<1>7. \A c \in Commands : KnowsObjects(c)'
  BY <1>3 DEF TypeInv, KnowsObjects, InProgress
<1> QED BY <1>5, <1>6, <1>7 DEF TypeInv

LEMMA CrashTyped == ASSUME TypeInv, Crash PROVE TypeInv'
<1>1. TypeOK'
  BY DEF TypeInv, TypeOK, Crash, InFlight, NoExit, ExitDone, NoCommand, CommandDone, dbVars,
     ExitRecords, CommandRecords
<1>2. ASSUME NEW q \in Requests PROVE KnowsTarget(q)'
  BY DEF TypeInv, TypeOK, Crash, KnowsTarget, InFlight, AwaitStages
<1>3. ASSUME NEW c \in Commands PROVE KnowsObjects(c)'
  BY DEF Crash, KnowsObjects, InProgress, NoCommand, CommandDone
<1> QED BY <1>1, <1>2, <1>3 DEF TypeInv

LEMMA RestartTyped == ASSUME TypeInv, Restart PROVE TypeInv'
<1> USE DEF Restart, socketVars, waitingVars, requestVars, registryVars, dbVars
<1>1. TypeOK'
  BY BoundsTyped DEF TypeInv, TypeOK
<1>2. ASSUME NEW q \in Requests PROVE KnowsTarget(q)'
  BY DEF TypeInv, KnowsTarget, InFlight, Entered
<1>3. ASSUME NEW c \in Commands PROVE KnowsObjects(c)'
  BY DEF TypeInv, KnowsObjects, InProgress
<1> QED BY <1>1, <1>2, <1>3 DEF TypeInv

LEMMA WaitingMovesTyped ==
  ASSUME TypeInv, NEW s \in Sockets, WaitingMoves(s) PROVE TypeInv'
<1> USE DEF TypeInv, processVars, waitingVars, requestVars, registryVars, dbVars
<1>1. TypeOK'
  <2>1. CASE Connect(s)
    BY <2>1 DEF TypeOK, Connect
  <2>2. ASSUME NEW l \in Lookups, EnterWaitingRoom(l) PROVE TypeOK'
    <3>1. CallerOf[l] \in Sockets
      BY ConstantsTyped
    <3>2. lookup[l] \in DbRooms => lookup[l] \in RoomIds
      BY ConstantsTyped
    <3>3. /\ socketsByRoomId' \in [RoomIds -> SUBSET Sockets]
          /\ waitingRoomIdBySocketId' \in [Sockets -> RoomIds \cup {None}]
      <4>1. CASE lookup[l] \in DbRooms
        BY <2>2, <3>1, <3>2, <4>1 DEF TypeOK, EnterWaitingRoom, Waiting!Join
      <4>2. CASE lookup[l] \notin DbRooms
        BY <2>2, <4>2 DEF TypeOK, EnterWaitingRoom
      <4> QED BY <4>1, <4>2
    <3> QED BY <2>2, <3>3 DEF TypeOK, EnterWaitingRoom
  <2>3. ASSUME NEW l \in Lookups, NEW id \in RoomIds, JoinWaitingRoom(l, id) PROVE TypeOK'
    BY <2>3, ConstantsTyped DEF TypeOK, JoinWaitingRoom
  <2> QED BY <2>1, <2>2, <2>3 DEF WaitingMoves
<1>2. /\ UNCHANGED <<requestVars, rooms, command>>
      /\ \A t \in Sockets : roomIdToJoin[t] \in RoomIds => roomIdToJoin'[t] \in RoomIds
  BY DEF TypeOK, WaitingMoves, Connect, EnterWaitingRoom, JoinWaitingRoom
<1>3. ASSUME NEW q \in Requests PROVE KnowsTarget(q)'
  BY <1>2, ConstantsTyped DEF KnowsTarget, InFlight, Entered
<1>4. ASSUME NEW c \in Commands PROVE KnowsObjects(c)'
  BY <1>2 DEF KnowsObjects, InProgress
<1> QED BY <1>1, <1>3, <1>4

LEMMA ExitTyped ==
  ASSUME TypeInv, NEW s \in Sockets, ExitStep(s) PROVE TypeInv'
<1> USE DEF processVars, socketVars, waitingVars, requestVars, registryVars, dbVars
<1>1. TypeOK'
  <2> USE DEF TypeInv
  <2>1. exit[s] \in ExitRecords
    BY DEF TypeOK
  <2>2. AfterExit(s) \in ExitRecords /\ ExitDone \in ExitRecords
    BY <2>1 DEF AfterExit, ExitDone, NoExit, ExitRecords
  <2>3. \A h \in Requests : [exit[s] EXCEPT !.step = "close", !.row = h] \in ExitRecords
    BY <2>1 DEF ExitRecords
  <2>4. CASE FindOpenRow(s)
    <3>1. exit' = [exit EXCEPT ![s] = exit'[s]] /\ exit'[s] \in ExitRecords
      BY <2>2, <2>3, <2>4 DEF TypeOK, FindOpenRow, OpenRows
    <3>2. exit' \in [Sockets -> ExitRecords]
      BY <3>1 DEF TypeOK
    <3> QED BY <2>4, <3>2 DEF TypeOK, FindOpenRow
  <2>5. CASE CloseRow(s)
    BY <2>2, <2>5 DEF TypeOK, CloseRow
  <2>6. CASE AnnounceRemoval(s)
    BY <2>2, <2>6 DEF TypeOK, AnnounceRemoval
  <2> QED BY <2>4, <2>5, <2>6 DEF ExitStep
<1>2. UNCHANGED <<socketVars, requestVars, rooms, command>>
  BY DEF ExitStep, FindOpenRow, CloseRow, AnnounceRemoval
<1>3. ASSUME NEW q \in Requests PROVE KnowsTarget(q)'
  BY <1>2 DEF TypeInv, KnowsTarget, InFlight, Entered
<1>4. ASSUME NEW c \in Commands PROVE KnowsObjects(c)'
  BY <1>2 DEF TypeInv, KnowsObjects, InProgress
<1> QED BY <1>1, <1>3, <1>4 DEF TypeInv

(* Closing a socket keeps the types of the maps it touches.                *)
LEMMA DisconnectTyped ==
  ASSUME TypeOK, NEW s \in Sockets, Disconnect(s)
  PROVE  /\ connection' \in [Sockets -> {"new", "open", "closed"}]
         /\ socketsByRoomId' \in [RoomIds -> SUBSET Sockets]
         /\ waitingRoomIdBySocketId' \in [Sockets -> RoomIds \cup {None}]
         /\ peers' \in [Requests -> SUBSET Requests]
         /\ roomById' \in [RoomIds -> Requests \cup {None}]
         /\ roomIdBySocketId' \in [Sockets -> RoomIds \cup {None}]
         /\ exit' \in [Sockets -> ExitRecords]
<1>1. CASE FindRoomBySocketId(s) = None
  BY <1>1 DEF TypeOK, Disconnect, Waiting!Remove, registryVars
<1>2. CASE FindRoomBySocketId(s) # None
  <2> DEFINE r == FindRoomBySocketId(s)
  <2>1. r \in Requests
    BY <1>2, RoomFound
  <2>2. PICK q \in PeersOn(r, s) :
          /\ peers' = [peers EXCEPT ![r] = @ \ {q}]
          /\ roomById' = IF EmptiesRoom(r, q)
                         THEN [roomById EXCEPT ![targetId[r]] = None] ELSE roomById
          /\ exit' = [exit EXCEPT ![s] = [step |-> "find", peer |-> q,
                                          removed |-> EmptiesRoom(r, q), row |-> None]]
    BY <1>2 DEF Disconnect, LeaveRoom
  <2>3. q \in Requests /\ EmptiesRoom(r, q) \in BOOLEAN
    BY <2>1 DEF PeersOn, TypeOK, EmptiesRoom
  <2> QED BY <1>2, <2>1, <2>2, <2>3 DEF TypeOK, ExitRecords, Disconnect, LeaveRoom, Waiting!Remove
<1> QED BY <1>1, <1>2

(* And what a finished block adds to a blacklist is a user.                *)
LEMMA ListsTyped ==
  ASSUME TypeInv, ListsOrNot
  PROVE  /\ blacklist' \in [Requests -> SUBSET Users]
         /\ command' \in [Commands -> CommandRecords]
         /\ \A c \in Commands : KnowsObjects(c)'
<1>1. CASE UNCHANGED <<blacklist, command>>
  BY <1>1 DEF TypeInv, TypeOK, KnowsObjects, InProgress
<1>2. ASSUME NEW c \in Commands, Lists(c)
      PROVE  /\ blacklist' \in [Requests -> SUBSET Users]
             /\ command' \in [Commands -> CommandRecords]
             /\ \A d \in Commands : KnowsObjects(d)'
  BY <1>2 DEF TypeInv, TypeOK, KnowsObjects, InProgress, Lists, CommandDone, NoCommand,
     CommandRecords
<1> QED BY <1>1, <1>2 DEF ListsOrNot

LEMMA DepartsTyped ==
  ASSUME TypeInv, NobodyDeparts \/ \E s \in Sockets : Departs(s) PROVE TypeInv'
<1>1. Stays /\ ListsOrNot
  BY DEF NobodyDeparts, Departs
<1>2. TypeOK'
  <2>1. CASE NobodyDeparts
    BY <1>1, <2>1, ListsTyped DEF TypeInv, TypeOK, NobodyDeparts, Stays,
       processVars, waitingVars, requestVars, registryVars, dbVars
  <2>2. ASSUME NEW s \in Sockets, Departs(s) PROVE TypeOK'
    BY <1>1, <2>2, ListsTyped, DisconnectTyped DEF TypeInv, TypeOK, Departs, Stays,
       processVars, requestVars, dbVars
  <2> QED BY <2>1, <2>2
<1>3. ASSUME NEW q \in Requests PROVE KnowsTarget(q)'
  BY <1>1 DEF TypeInv, KnowsTarget, InFlight, Entered, Stays, requestVars
<1> QED BY <1>1, <1>2, <1>3, ListsTyped DEF TypeInv

LEMMA CommandMovesTyped ==
  ASSUME TypeInv, NEW c \in Commands, CommandMoves(c) PROVE TypeInv'
<1> USE DEF processVars, socketVars, waitingVars, requestVars, registryVars, dbVars
<1>1. TypeOK /\ KnowsObjects(c)
  BY DEF TypeInv
<1>2. TypeOK' /\ KnowsObjects(c)'
  <2> USE <1>1 DEF KnowsObjects, InProgress, CommandDone, NoCommand
  <2>1. CASE InsertBlock(c)
    BY <2>1 DEF TypeOK, InsertBlock, CommandRecords
  <2>2. CASE DeleteBlock(c)
    <3>1. command[c] \in CommandRecords
      BY DEF TypeOK
    <3>2. [command[c] EXCEPT !.step = "deleted"] \in CommandRecords /\ CommandDone \in CommandRecords
      BY <3>1 DEF CommandRecords
    <3>3. command'[c] \in {[command[c] EXCEPT !.step = "deleted"], CommandDone}
      BY <2>2 DEF DeleteBlock, TypeOK
    <3>4. KnowsObjects(c)'
      BY <2>2, <3>1, <3>3 DEF DeleteBlock, CommandRecords
    <3> QED BY <2>2, <3>2, <3>4 DEF TypeOK, DeleteBlock
  <2>3. CASE FinishUnblock(c)
    BY <2>3 DEF TypeOK, FinishUnblock, CommandRecords
  <2>4. ASSUME NEW s \in Sockets, NEW u \in Users, BlockUser(c, s, u)
        PROVE  TypeOK' /\ KnowsObjects(c)'
    <3>1. FindRoomBySocketId(s) \in Requests
      BY <2>4, RoomFound DEF BlockUser, CanModerate
    <3>2. PeersOfUser(FindRoomBySocketId(s), u) \subseteq Requests
      BY <3>1 DEF PeersOfUser, TypeOK
    <3> QED BY <2>4, <3>1, <3>2 DEF TypeOK, BlockUser, CommandRecords
  <2>5. ASSUME NEW s \in Sockets, NEW u \in Users, UnblockUser(c, s, u)
        PROVE  TypeOK' /\ KnowsObjects(c)'
    <3>1. FindRoomBySocketId(s) \in Requests
      BY <2>5, RoomFound DEF UnblockUser, CanModerate
    <3> QED BY <2>5, <3>1 DEF TypeOK, UnblockUser, CommandRecords
  <2> QED BY <2>1, <2>2, <2>3, <2>4, <2>5 DEF CommandMoves
<1>3. /\ UNCHANGED <<socketVars, requestVars, rooms>>
      /\ \A d \in Commands \ {c} : command'[d] = command[d]
  BY <1>1 DEF TypeOK, CommandMoves, InsertBlock, DeleteBlock, FinishUnblock, BlockUser, UnblockUser
<1>4. ASSUME NEW q \in Requests PROVE KnowsTarget(q)'
  BY <1>3 DEF TypeInv, KnowsTarget, InFlight, Entered
<1>5. ASSUME NEW d \in Commands PROVE KnowsObjects(d)'
  BY <1>2, <1>3 DEF TypeInv, KnowsObjects, InProgress
<1> QED BY <1>2, <1>4, <1>5 DEF TypeInv

LEMMA NextTyped == TypeInv /\ [Next]_vars => TypeInv'
<1> SUFFICES ASSUME TypeInv, [Next]_vars PROVE TypeInv'
  OBVIOUS
<1>1. CASE UNCHANGED vars
  BY <1>1 DEF TypeInv, TypeOK, KnowsTarget, KnowsObjects, InFlight, Entered, InProgress,
     vars, processVars, socketVars, waitingVars, requestVars, registryVars, dbVars
<1>2. CASE Next
  BY <1>2, StepCases, CrashTyped, RestartTyped, RequestMovesTyped, WaitingMovesTyped,
     ExitTyped, DepartsTyped, CommandMovesTyped
<1> QED BY <1>1, <1>2

(* Type correctness holds in every behaviour: whatever handlers interleave *)
(* and whichever crash, every variable keeps its type.                     *)
THEOREM TypeCorrect == Spec => []TypeOK
<1>1. Spec => []TypeInv
  BY InitTyped, NextTyped, PTL DEF Spec
<1>2. TypeInv => TypeOK
  BY DEF TypeInv
<1> QED BY <1>1, <1>2, PTL

----------------------------------------------------------------------------
(* The registry of rooms.                                                  *)

RegistryInv == RegisteredRoomLives /\ OnlyDbRoomsRun

(* It speaks of the maps of the registry, and of targetId at Room objects. *)
LEMMA RegistryFrame ==
  ASSUME TypeOK, RegistryInv, UNCHANGED <<registryVars, rooms>>,
         \A r \in rooms : targetId'[r] = targetId[r]
  PROVE  RegistryInv'
  BY DEF RegistryInv, RegisteredRoomLives, OnlyDbRoomsRun, registryVars, TypeOK

LEMMA JoinExistingKeepsRegistry ==
  ASSUME TypeInv, RegistryInv, NEW q \in Requests, JoinExistingRoom(q)
  PROVE  RegistryInv'
<1>1. q \notin rooms
  BY DEF TypeInv, KnowsTarget, JoinExistingRoom, Admitted, Entered
<1>2. /\ UNCHANGED <<roomById, rooms>>
      /\ \A r \in rooms : targetId'[r] = targetId[r] /\ (peers[r] # {} => peers'[r] # {})
  BY <1>1 DEF JoinExistingRoom, TypeInv, TypeOK
<1> QED BY <1>2 DEF RegistryInv, RegisteredRoomLives, OnlyDbRoomsRun

LEMMA RegisterKeepsRegistry ==
  ASSUME TypeInv, RegistryInv, NEW q \in Requests, RegisterRoom(q)
  PROVE  RegistryInv'
<1>1. q \notin rooms /\ targetId[q] \in RoomIds /\ targetId[q] \in DbRooms
  BY DEF TypeInv, KnowsTarget, RegisterRoom, Entered, InFlight, AwaitStages
<1>2. /\ targetId' = targetId /\ rooms' = rooms \cup {q}
      /\ peers'[q] = {q} /\ \A r \in Requests \ {q} : peers'[r] = peers[r]
      /\ roomById'[targetId[q]] = q
      /\ \A id \in RoomIds \ {targetId[q]} : roomById'[id] = roomById[id]
  BY <1>1 DEF RegisterRoom, TypeInv, TypeOK
<1>3. rooms \subseteq Requests /\ q # None
  BY NoneIsFresh DEF TypeInv, TypeOK
<1>4. RegisteredRoomLives'
  BY <1>1, <1>2, <1>3 DEF RegistryInv, RegisteredRoomLives
<1>5. OnlyDbRoomsRun'
  BY <1>1, <1>2 DEF RegistryInv, OnlyDbRoomsRun
<1> QED BY <1>4, <1>5 DEF RegistryInv

LEMMA DepartsKeepsRegistry ==
  ASSUME TypeInv, RegistryInv, NEW s \in Sockets, Departs(s)
  PROVE  RegistryInv'
<1>1. targetId' = targetId /\ rooms' = rooms
  BY DEF Departs, Stays, requestVars
<1>2. CASE FindRoomBySocketId(s) = None
  BY <1>1, <1>2, RegistryFrame DEF TypeInv, Departs, Disconnect
<1>3. CASE FindRoomBySocketId(s) # None
  <2> DEFINE id == roomIdBySocketId[s]
             r == roomById[id]
  <2>1. id \in RoomIds /\ r \in Requests /\ FindRoomBySocketId(s) = r
    BY <1>3, RoomFound DEF TypeInv
  <2>2. targetId[r] = id /\ r # None
    BY <1>3, <2>1 DEF RegistryInv, RegisteredRoomLives
  <2>3. PICK q \in PeersOn(r, s) :
          /\ peers' = [peers EXCEPT ![r] = @ \ {q}]
          /\ roomById' = IF EmptiesRoom(r, q)
                         THEN [roomById EXCEPT ![targetId[r]] = None] ELSE roomById
    BY <1>3, <2>1 DEF Departs, Disconnect, LeaveRoom
  <2>4. /\ \A x \in Requests \ {r} : peers'[x] = peers[x]
        /\ q \in peers[r] /\ peers'[r] = peers[r] \ {q}
    BY <2>1, <2>3 DEF PeersOn, TypeInv, TypeOK
  <2>5. CASE peers[r] = {q}
    <3>1. /\ roomById'[id] = None /\ peers'[r] = {}
          /\ \A x \in RoomIds \ {id} : roomById'[x] = roomById[x]
      BY <2>1, <2>2, <2>3, <2>4, <2>5 DEF EmptiesRoom, TypeInv, TypeOK
    <3>2. RegisteredRoomLives'
      <4> SUFFICES ASSUME NEW x \in RoomIds, roomById'[x] # None
                   PROVE  /\ roomById'[x] \in rooms
                          /\ targetId[roomById'[x]] = x
                          /\ peers'[roomById'[x]] # {}
        BY <1>1 DEF RegisteredRoomLives
      <4>1. x # id /\ roomById'[x] = roomById[x]
        BY <3>1
      <4>2. /\ roomById[x] \in rooms /\ targetId[roomById[x]] = x
            /\ peers[roomById[x]] # {}
        BY <4>1 DEF RegistryInv, RegisteredRoomLives
      <4>3. roomById[x] # r /\ roomById[x] \in Requests
        BY <2>2, <4>1, <4>2 DEF TypeInv, TypeOK
      <4> QED BY <2>4, <4>1, <4>2, <4>3
    <3>3. OnlyDbRoomsRun'
      BY <3>1 DEF RegistryInv, OnlyDbRoomsRun
    <3> QED BY <3>2, <3>3 DEF RegistryInv
  <2>6. CASE peers[r] # {q}
    <3>1. roomById' = roomById /\ peers'[r] # {} /\ peers[r] # {}
      BY <2>3, <2>4, <2>6 DEF EmptiesRoom
    <3>2. rooms \subseteq Requests /\ \A x \in Requests : peers'[x] # {} <=> peers[x] # {}
      BY <2>4, <3>1 DEF TypeInv, TypeOK
    <3> QED BY <1>1, <3>1, <3>2
            DEF RegistryInv, RegisteredRoomLives, OnlyDbRoomsRun
  <2> QED BY <2>5, <2>6
<1> QED BY <1>2, <1>3

LEMMA NextKeepsRegistry == TypeInv /\ RegistryInv /\ [Next]_vars => RegistryInv'
<1> SUFFICES ASSUME TypeInv, RegistryInv, [Next]_vars PROVE RegistryInv'
  OBVIOUS
<1> TypeOK /\ rooms \subseteq Requests
  BY DEF TypeInv, TypeOK
<1>1. CASE UNCHANGED vars
  BY <1>1, RegistryFrame DEF vars, requestVars
<1>2. CASE Crash
  BY <1>2 DEF Crash, RegistryInv, RegisteredRoomLives, OnlyDbRoomsRun
<1>3. CASE Restart \/ NobodyDeparts
  BY <1>3, RegistryFrame DEF Restart, NobodyDeparts, Stays, requestVars
<1>4. ASSUME NEW s \in Sockets, WaitingMoves(s) \/ ExitStep(s)
      PROVE  RegistryInv'
  BY <1>4, RegistryFrame DEF WaitingMoves, Connect, EnterWaitingRoom, JoinWaitingRoom,
     ExitStep, FindOpenRow, CloseRow, AnnounceRemoval, requestVars
<1>5. ASSUME NEW c \in Commands, CommandMoves(c)
      PROVE  RegistryInv'
  BY <1>5, RegistryFrame DEF CommandMoves, InsertBlock, DeleteBlock, FinishUnblock,
     BlockUser, UnblockUser, requestVars
<1>6. ASSUME NEW q \in Requests, RequestMoves(q)
      PROVE  RegistryInv'
  <2>1. CASE JoinExistingRoom(q) \/ RegisterRoom(q)
    BY <2>1, JoinExistingKeepsRegistry, RegisterKeepsRegistry
  <2>2. CASE ~JoinExistingRoom(q) /\ ~RegisterRoom(q)
    <3>1. ~Entered(q) \/ targetId' = targetId
      BY <1>6, <2>2 DEF RequestMoves, JoinRoom, LearnMaster, CheckBlacklistRows,
         RefusePassword, StartCreatingRoom, RouterCreated, FetchBlacklist, RecordHistory,
         CompleteJoin, Admitted, Entered
    <3>2. /\ UNCHANGED <<registryVars, rooms>>
          /\ \A x \in Requests \ {q} : targetId'[x] = targetId[x]
      BY <1>6, <2>2 DEF RequestMoves, JoinRoom, LearnMaster, CheckBlacklistRows,
         RefusePassword, StartCreatingRoom, RouterCreated, FetchBlacklist, RecordHistory,
         CompleteJoin, TypeOK
    <3>3. q \in rooms => targetId' = targetId
      BY <3>1 DEF TypeInv, KnowsTarget
    <3> QED BY <3>2, <3>3, RegistryFrame
  <2> QED BY <2>1, <2>2
<1> QED BY <1>1, <1>2, <1>3, <1>4, <1>5, <1>6, StepCases, DepartsKeepsRegistry

LEMMA InitRegistry == Init => RegistryInv
  BY DEF Init, RegistryInv, RegisteredRoomLives, OnlyDbRoomsRun

LEMMA RegistryInvariant == Spec => [](TypeInv /\ RegistryInv)
  BY InitTyped, NextTyped, InitRegistry, NextKeepsRegistry, PTL DEF Spec

(* Every registered room is one this process built, stored under its own   *)
(* id, and has a peer: the step that takes the last peer out deletes the   *)
(* room, however joins, overwriting creations and departures interleave.   *)
THEOREM RegisteredRoomsLive == Spec => []RegisteredRoomLives
  BY RegistryInvariant, PTL DEF RegistryInv

(* No room runs that has no row in the room table.                         *)
THEOREM RunningRoomsInDb == Spec => []OnlyDbRoomsRun
  BY RegistryInvariant, PTL DEF RegistryInv

----------------------------------------------------------------------------
(* Capacity.                                                               *)

(* A request between its checks and its entry.                             *)
Unentered(q) == InFlight(q) /\ ~Entered(q)

(* The strengthening: as long as nobody overtakes a pending non-master,    *)
(* the place its check found is still free.                                *)
PlaceFree ==
    \A q \in Requests :
        Unentered(q) /\ q \notin overtaken /\ UserOf[q] # MasterOf[targetId[q]]
        => JoinerCount(targetId[q]) < Capacity

LEMMA CountType ==
  ASSUME TypeOK, NEW id \in RoomIds
  PROVE  JoinerCount(id) \in Nat
  BY RequestsFinite, FS_Subset, FS_CardinalityType DEF JoinerCount, TypeOK

(* A request is pending only through JoinRoom.                             *)
LEMMA UnenteredStarts ==
  ASSUME TypeInv, Next, NEW q \in Requests, ~Unentered(q), Unentered(q)'
  PROVE  JoinRoom(q)
<1> USE DEF Unentered, InFlight, Entered, AwaitStages
<1>1. CASE Crash
  BY <1>1 DEF Crash
<1>2. CASE pc' = pc
  BY <1>2
<1>3. ASSUME NEW p \in Requests, RequestMoves(p)
      PROVE  JoinRoom(q)
  BY <1>3 DEF RequestMoves, JoinRoom, LearnMaster, CheckBlacklistRows, RefusePassword,
     JoinExistingRoom, StartCreatingRoom, RouterCreated, FetchBlacklist, RegisterRoom,
     RecordHistory, CompleteJoin, Admitted, Goto, TypeInv, TypeOK
<1>4. pc' = pc \/ Crash \/ \E p \in Requests : RequestMoves(p)
  <2>1. Restart \/ NobodyDeparts => pc' = pc
    BY DEF Restart, NobodyDeparts, Stays, requestVars
  <2>2. ASSUME NEW s \in Sockets, WaitingMoves(s) \/ ExitStep(s) \/ Departs(s)
        PROVE  pc' = pc
    BY <2>2 DEF WaitingMoves, Connect, EnterWaitingRoom, JoinWaitingRoom, ExitStep,
       FindOpenRow, CloseRow, AnnounceRemoval, Departs, Stays, requestVars
  <2>3. ASSUME NEW c \in Commands, CommandMoves(c)
        PROVE  pc' = pc
    BY <2>3 DEF CommandMoves, InsertBlock, DeleteBlock, FinishUnblock, BlockUser,
       UnblockUser, requestVars
  <2> QED BY <2>1, <2>2, <2>3, StepCases
<1> QED BY <1>1, <1>2, <1>3, <1>4

(* Who enters a room does so by one of two actions.                        *)
LEMMA PeersGrow ==
  ASSUME TypeInv, Next
  PROVE  \/ UNCHANGED registryVars
         \/ Crash
         \/ \E s \in Sockets : Departs(s) /\ FindRoomBySocketId(s) # None
         \/ \E q \in Requests : JoinExistingRoom(q) \/ RegisterRoom(q)
<1>1. CASE Restart \/ NobodyDeparts
  BY <1>1 DEF Restart, NobodyDeparts
<1>2. ASSUME NEW s \in Sockets, WaitingMoves(s) \/ ExitStep(s)
      PROVE  UNCHANGED registryVars
  BY <1>2 DEF WaitingMoves, Connect, EnterWaitingRoom, JoinWaitingRoom, ExitStep,
     FindOpenRow, CloseRow, AnnounceRemoval
<1>3. ASSUME NEW s \in Sockets, Departs(s), FindRoomBySocketId(s) = None
      PROVE  UNCHANGED registryVars
  BY <1>3 DEF Departs, Disconnect
<1>4. ASSUME NEW c \in Commands, CommandMoves(c)
      PROVE  UNCHANGED registryVars
  BY <1>4 DEF CommandMoves, InsertBlock, DeleteBlock, FinishUnblock, BlockUser, UnblockUser
<1>5. ASSUME NEW q \in Requests, RequestMoves(q), ~JoinExistingRoom(q), ~RegisterRoom(q)
      PROVE  UNCHANGED registryVars
  BY <1>5 DEF RequestMoves, JoinRoom, LearnMaster, CheckBlacklistRows, RefusePassword,
     StartCreatingRoom, RouterCreated, FetchBlacklist, RecordHistory, CompleteJoin
<1> QED BY <1>1, <1>2, <1>3, <1>4, <1>5, StepCases

(* What an entry changes: one room gains the peer, and no other changes.   *)
LEMMA Entry ==
  ASSUME TypeInv, RegistryInv, NEW q \in Requests, JoinExistingRoom(q) \/ RegisterRoom(q)
  PROVE  /\ Enters(q) /\ targetId'[q] \in RoomIds /\ q \notin rooms
         /\ \A id \in RoomIds \ {targetId'[q]} :
               roomById'[id] = roomById[id] /\ (roomById[id] # None =>
                                                 peers'[roomById[id]] = peers[roomById[id]])
<1> USE DEF Enters, Entered
<1>1. q \notin rooms
  BY DEF TypeInv, KnowsTarget, JoinExistingRoom, RegisterRoom, Admitted
<1>2. CASE JoinExistingRoom(q)
  <2> DEFINE id == roomIdToJoin[SocketOf[q]]
  <2>1. /\ id \in RoomIds /\ targetId'[q] = id /\ Enters(q) /\ roomById' = roomById
        /\ peers' = [peers EXCEPT ![roomById[id]] = @ \cup {q}] /\ roomById[id] # None
    BY <1>2 DEF JoinExistingRoom, Admitted, TypeInv, TypeOK, KnowsTarget, InFlight,
       AwaitStages, Goto
  <2>2. \A x \in RoomIds \ {id} : roomById[x] # None =>
            roomById[x] # roomById[id] /\ roomById[x] \in Requests
    BY <2>1 DEF RegistryInv, RegisteredRoomLives, TypeInv, TypeOK
  <2> QED BY <1>1, <2>1, <2>2 DEF TypeInv, TypeOK
<1>3. CASE RegisterRoom(q)
  <2>1. /\ targetId'[q] = targetId[q] /\ targetId[q] \in RoomIds /\ Enters(q)
        /\ roomById' = [roomById EXCEPT ![targetId[q]] = q]
        /\ peers' = [peers EXCEPT ![q] = {q}]
    BY <1>3 DEF RegisterRoom, TypeInv, TypeOK, KnowsTarget, InFlight, AwaitStages, Goto
  <2>2. \A x \in RoomIds : roomById[x] # None => roomById[x] # q /\ roomById[x] \in Requests
    BY <1>1 DEF RegistryInv, RegisteredRoomLives, TypeInv, TypeOK
  <2> QED BY <1>1, <2>1, <2>2 DEF TypeInv, TypeOK
<1> QED BY <1>2, <1>3

(* Unless somebody enters it, a room gains no joiner.                      *)
LEMMA CountGrowsByEntry ==
  ASSUME TypeInv, RegistryInv, Next, NEW id \in RoomIds,
         \A r \in Requests : Enters(r) => targetId'[r] # id
  PROVE  JoinerCount(id)' <= JoinerCount(id)
<1>1. JoinerCount(id) \in Nat
  BY CountType DEF TypeInv
<1>2. CASE UNCHANGED registryVars
  BY <1>1, <1>2 DEF JoinerCount, registryVars
<1>3. CASE Crash
  BY <1>1, <1>3 DEF Crash, JoinerCount
<1>4. ASSUME NEW s \in Sockets, Departs(s), FindRoomBySocketId(s) # None
      PROVE  JoinerCount(id)' <= JoinerCount(id)
  <2> DEFINE r == FindRoomBySocketId(s)
  <2>1. r \in Requests
    BY <1>4, RoomFound DEF TypeInv
  <2>2. PICK q \in PeersOn(r, s) :
          /\ peers' = [peers EXCEPT ![r] = @ \ {q}]
          /\ roomById' = IF EmptiesRoom(r, q)
                         THEN [roomById EXCEPT ![targetId[r]] = None] ELSE roomById
    BY <1>4 DEF Departs, Disconnect, LeaveRoom
  <2>3. CASE roomById'[id] = None
    BY <1>1, <2>3 DEF JoinerCount
  <2>4. CASE roomById'[id] # None
    <3> DEFINE x == roomById[id]
    <3>1. roomById'[id] = x /\ x \in Requests /\ x # None
      BY <2>2, <2>4 DEF TypeInv, TypeOK
    <3>2. peers'[x] \subseteq peers[x] /\ IsFiniteSet(peers[x])
      BY <2>1, <2>2, <3>1, RequestsFinite, FS_Subset DEF TypeInv, TypeOK
    <3>3. Cardinality(peers'[x]) <= Cardinality(peers[x])
      BY <3>2, FS_Subset
    <3> QED BY <3>1, <3>3, <2>4 DEF JoinerCount
  <2> QED BY <2>3, <2>4
<1>5. ASSUME NEW q \in Requests, JoinExistingRoom(q) \/ RegisterRoom(q)
      PROVE  JoinerCount(id)' <= JoinerCount(id)
  <2>1. /\ roomById'[id] = roomById[id]
        /\ roomById[id] # None => peers'[roomById[id]] = peers[roomById[id]]
    BY <1>5, Entry
  <2> QED BY <1>1, <2>1 DEF JoinerCount
<1> QED BY <1>2, <1>3, <1>4, <1>5, PeersGrow

(* The same of the state a step leads to.                                  *)
LEMMA CountTypeAfter ==
  ASSUME TypeOK', NEW id \in RoomIds
  PROVE  JoinerCount(id)' \in Nat
<1>1. roomById'[id] # None => IsFiniteSet(peers'[roomById'[id]])
  BY RequestsFinite, FS_Subset DEF TypeOK
<1> QED BY <1>1, FS_CardinalityType DEF JoinerCount

LEMMA PlaceStaysFree ==
  ASSUME TypeInv, TypeInv', RegistryInv, PlaceFree, Next, HistoryStep
  PROVE  PlaceFree'
<1> SUFFICES ASSUME NEW q \in Requests, NEW id \in RoomIds, Unentered(q)',
                    q \notin overtaken', targetId'[q] = id, UserOf[q] # MasterOf[id]
             PROVE  JoinerCount(id)' < Capacity
  <2> DEFINE After(id) == IF roomById'[id] = None THEN 0
                          ELSE Cardinality(peers'[roomById'[id]])
  <2>1. \A id \in RoomIds : JoinerCount(id)' = After(id)
    BY DEF JoinerCount
  <2> HIDE DEF After
  <2>2. ASSUME NEW q \in Requests, Unentered(q)', q \notin overtaken',
               UserOf[q] # MasterOf[targetId'[q]]
        PROVE  After(targetId'[q]) < Capacity
    <3>1. PICK id \in RoomIds : targetId'[q] = id
      BY <2>2 DEF TypeInv, KnowsTarget, Unentered
    <3>2. JoinerCount(id)' < Capacity
      BY <2>2, <3>1
    <3> QED BY <2>1, <3>1, <3>2
  <2> USE DEF After
  <2> QED BY <2>2 DEF PlaceFree, JoinerCount
<1>1. JoinerCount(id) \in Nat /\ JoinerCount(id)' \in Nat
  BY CountType, CountTypeAfter DEF TypeInv
<1>2. CASE Unentered(q)
  <2>1. /\ q \notin overtaken /\ targetId[q] = id
        /\ \A r \in Requests : Enters(r) => targetId'[r] # id
    BY <1>2 DEF HistoryStep, Unentered, Enters
  <2>2. JoinerCount(id) < Capacity
    BY <1>2, <2>1 DEF PlaceFree
  <2>3. JoinerCount(id)' <= JoinerCount(id)
    BY <2>1, CountGrowsByEntry
  <2> QED BY <1>1, <2>2, <2>3, CapacityPositive
<1>3. CASE ~Unentered(q)
  <2>1. JoinRoom(q)
    BY <1>3, UnenteredStarts
  <2>2. UNCHANGED registryVars
    BY <2>1 DEF JoinRoom
  <2>3. id = roomIdToJoin[SocketOf[q]]
    BY <2>1 DEF JoinRoom, TypeInv, TypeOK
  <2>4. roomById[id] # None => ~IsFull(id, q)
    BY <2>1, <2>3 DEF JoinRoom, Goto, Verdict, Unentered, InFlight, AwaitStages, TypeInv, TypeOK
  <2>5. JoinerCount(id) < Capacity
    BY <1>1, <2>4, CapacityPositive DEF IsFull, JoinerCount
  <2> QED BY <2>2, <2>5 DEF JoinerCount, registryVars
<1> QED BY <1>2, <1>3

LEMMA EntryWithinCapacity ==
  ASSUME TypeInv, RegistryInv, PlaceFree, Next, NEW q \in Requests, NEW r \in Requests
  PROVE  EnterWithinCapacity(q, r)
<1> SUFFICES ASSUME q \in peers'[r], q \notin peers[r], UserOf[q] # MasterOf[targetId'[q]],
                    q \notin overtaken, targetId'[q] = targetId[q]
             PROVE  Cardinality(peers'[r]) <= Capacity
  BY DEF EnterWithinCapacity
<1>1. JoinExistingRoom(q) \/ RegisterRoom(q)
  <2>1. ~UNCHANGED registryVars /\ ~Crash
    BY DEF registryVars, Crash
  <2>2. ASSUME NEW s \in Sockets, Departs(s), FindRoomBySocketId(s) # None PROVE FALSE
    BY <2>2 DEF Departs, Disconnect, LeaveRoom, TypeInv, TypeOK
  <2>3. ASSUME NEW p \in Requests, JoinExistingRoom(p) \/ RegisterRoom(p) PROVE p = q
    BY <2>3 DEF JoinExistingRoom, RegisterRoom, TypeInv, TypeOK
  <2> QED BY <2>1, <2>2, <2>3, PeersGrow
<1>2. CASE JoinExistingRoom(q)
  <2> DEFINE id == targetId[q]
  <2>1. id = roomIdToJoin[SocketOf[q]] /\ id \in RoomIds /\ roomById[id] # None
    BY <1>2 DEF JoinExistingRoom, TypeInv, TypeOK, KnowsTarget, InFlight, AwaitStages, Admitted
  <2>2. r = roomById[id] /\ peers'[r] = peers[r] \cup {q}
    BY <1>2, <2>1 DEF JoinExistingRoom, TypeInv, TypeOK
  <2>3. JoinerCount(id) < Capacity
    BY <1>2 DEF PlaceFree, Unentered, InFlight, Entered, AwaitStages, JoinExistingRoom, Admitted
  <2>4. IsFiniteSet(peers[r])
    BY RequestsFinite, FS_Subset DEF TypeInv, TypeOK
  <2>5. Cardinality(peers'[r]) = Cardinality(peers[r]) + 1 /\ Cardinality(peers[r]) \in Nat
    BY <2>2, <2>4, FS_AddElement, FS_CardinalityType
  <2>6. Cardinality(peers[r]) < Capacity
    BY <2>1, <2>2, <2>3 DEF JoinerCount
  <2> QED BY <2>5, <2>6, CapacityPositive
<1>3. CASE RegisterRoom(q)
  <2>1. peers'[r] = {q}
    BY <1>3 DEF RegisterRoom, TypeInv, TypeOK
  <2> QED BY <2>1, FS_Singleton, CapacityPositive
<1> QED BY <1>1, <1>2, <1>3

LEMMA HistorySteps == [NextH]_allVars => [Next]_vars
  BY DEF NextH, allVars

LEMMA CapacityInvariant == SpecH => [](TypeInv /\ RegistryInv /\ PlaceFree)
<1>1. InitH => TypeInv /\ RegistryInv
  BY InitTyped, InitRegistry DEF InitH
<1>2. InitH => PlaceFree
  BY DEF InitH, Init, PlaceFree, Unentered, InFlight, AwaitStages
<1>3. TypeInv /\ RegistryInv /\ PlaceFree /\ [NextH]_allVars
      => (TypeInv /\ RegistryInv /\ PlaceFree)'
  <2> SUFFICES ASSUME TypeInv, RegistryInv, PlaceFree, [NextH]_allVars
               PROVE  (TypeInv /\ RegistryInv /\ PlaceFree)'
    OBVIOUS
  <2>1. TypeInv' /\ RegistryInv'
    BY HistorySteps, NextTyped, NextKeepsRegistry
  <2>2. CASE NextH
    BY <2>1, <2>2, PlaceStaysFree DEF NextH
  <2>3. CASE UNCHANGED allVars
    BY <2>1, <2>3 DEF allVars, vars, historyVars, requestVars, registryVars, PlaceFree,
       Unentered, InFlight, Entered, JoinerCount
  <2> QED BY <2>1, <2>2, <2>3
<1> QED BY <1>1, <1>2, <1>3, PTL DEF SpecH

(* canJoinRoom's capacity check is sound for every request that nobody     *)
(* overtakes: it is only other entries, or a change of the room to join,   *)
(* in the awaits between check and entry that overfill a room.             *)
THEOREM CapacityKept == SpecH => CapacityUnlessOvertaken
<1>1. TypeInv /\ RegistryInv /\ PlaceFree /\ [NextH]_allVars
      => [\A q, r \in Requests : EnterWithinCapacity(q, r)]_allVars
  BY EntryWithinCapacity DEF NextH
<1> QED BY <1>1, CapacityInvariant, PTL DEF SpecH, CapacityUnlessOvertaken
----------------------------------------------------------------------------
(* Blocked users.                                                          *)

(* Where a request stands is moved by its own handler or by a crash.       *)
LEMMA HandlerMoves ==
  ASSUME TypeInv, Next, NEW q \in Requests, pc'[q] # pc[q]
  PROVE  Crash \/ RequestMoves(q)
<1>1. ASSUME NEW p \in Requests, RequestMoves(p)
      PROVE  p = q
  BY <1>1 DEF RequestMoves, JoinRoom, LearnMaster, CheckBlacklistRows, RefusePassword,
     JoinExistingRoom, StartCreatingRoom, RouterCreated, FetchBlacklist, RegisterRoom,
     RecordHistory, CompleteJoin, Goto, TypeInv, TypeOK
<1>2. ~Restart /\ ~NobodyDeparts
  BY DEF Restart, NobodyDeparts, Stays, requestVars
<1>3. ASSUME NEW s \in Sockets PROVE ~WaitingMoves(s) /\ ~ExitStep(s) /\ ~Departs(s)
  BY DEF WaitingMoves, Connect, EnterWaitingRoom, JoinWaitingRoom, ExitStep,
     FindOpenRow, CloseRow, AnnounceRemoval, Departs, Stays, requestVars
<1>4. ASSUME NEW c \in Commands PROVE ~CommandMoves(c)
  BY DEF CommandMoves, InsertBlock, DeleteBlock, FinishUnblock, BlockUser,
     UnblockUser, requestVars
<1> QED BY <1>1, <1>2, <1>3, <1>4, StepCases

(* No check lets a barred request pass.                                    *)
LEMMA BarredStays ==
  ASSUME TypeInv, BarredNeverAdmitted, Next, HistoryStep
  PROVE  BarredNeverAdmitted'
<1> SUFFICES ASSUME NEW q \in barred' PROVE pc'[q] \in {"master", "blacklist"}
  BY DEF BarredNeverAdmitted
<1> DEFINE id == targetId'[q]
           u == UserOf[q]
<1>1. /\ q \in Requests /\ InFlight(q)'
      /\ q \in barred \/ pc[q] = "idle"
      /\ targetId[q] \in {None, id}
      /\ u \in blockRows'[id]
      /\ roomById'[id] # None => u \in blacklist'[roomById'[id]]
  BY DEF HistoryStep, BlockedEverywhere
<1>2. pc[q] \in {"idle", "master", "blacklist"}
  BY <1>1 DEF BarredNeverAdmitted
<1>3. CASE pc'[q] = pc[q]
  BY <1>1, <1>2, <1>3 DEF InFlight, AwaitStages
<1>4. CASE pc'[q] # pc[q]
  <2>1. ~Crash
    BY <1>1, <1>2 DEF Crash, InFlight, AwaitStages
  <2>2. JoinRoom(q) \/ LearnMaster(q) \/ CheckBlacklistRows(q)
    <3>1. RequestMoves(q)
      BY <1>1, <1>4, <2>1, HandlerMoves
    <3>2. /\ ~RefusePassword(q) /\ ~JoinExistingRoom(q) /\ ~StartCreatingRoom(q)
          /\ ~RouterCreated(q) /\ ~FetchBlacklist(q) /\ ~RegisterRoom(q)
          /\ ~RecordHistory(q) /\ ~CompleteJoin(q)
      BY <1>2 DEF RefusePassword, JoinExistingRoom, StartCreatingRoom, RouterCreated,
         FetchBlacklist, RegisterRoom, RecordHistory, CompleteJoin, Admitted
    <3> QED BY <3>1, <3>2 DEF RequestMoves
  <2> USE <1>1, <2>2 DEF Goto, Verdict, MemoryBlocks, RowBlocks, InFlight, AwaitStages,
                         TypeInv, TypeOK, registryVars, dbVars
  <2>3. CASE JoinRoom(q)
    BY <2>3 DEF JoinRoom
  <2>4. CASE LearnMaster(q)
    BY <2>4, NoneIsFresh DEF LearnMaster, KnowsTarget
  <2>5. CASE CheckBlacklistRows(q)
    BY <2>5, NoneIsFresh DEF CheckBlacklistRows, KnowsTarget
  <2> QED BY <2>3, <2>4, <2>5
<1> QED BY <1>3, <1>4

(* canJoinRoom never admits a user whom the block table and the running    *)
(* room list as blocked from the request's arrival on, whether the room    *)
(* runs, does not, or begins to run between the master's look-up and the   *)
(* blacklist's.                                                            *)
THEOREM BarredStayOut == SpecH => []BarredNeverAdmitted
<1>1. InitH => TypeInv /\ BarredNeverAdmitted
  BY InitTyped DEF InitH, HistoryInit, BarredNeverAdmitted
<1>2. TypeInv /\ BarredNeverAdmitted /\ [NextH]_allVars
      => (TypeInv /\ BarredNeverAdmitted)'
  <2> SUFFICES ASSUME TypeInv, BarredNeverAdmitted, [NextH]_allVars
               PROVE  TypeInv' /\ BarredNeverAdmitted'
    OBVIOUS
  <2>1. TypeInv'
    BY HistorySteps, NextTyped
  <2>2. BarredNeverAdmitted'
    BY BarredStays DEF NextH, allVars, vars, historyVars, requestVars, BarredNeverAdmitted
  <2> QED BY <2>1, <2>2
<1> QED BY <1>1, <1>2, PTL DEF SpecH

----------------------------------------------------------------------------
(* Waiting rooms.                                                          *)

(* Every step leaves the waiting rooms alone, empties them, or is one call *)
(* of the repository.                                                      *)
LEMMA WaitingCalls ==
  ASSUME TypeInv, Next
  PROVE  \/ UNCHANGED waitingVars \/ Crash
         \/ \E s \in Sockets : Waiting!Remove(s)
         \/ \E l \in Lookups : /\ EnterWaitingRoom(l) /\ lookup[l] \in DbRooms
                              /\ Waiting!Join(lookup[l], CallerOf[l])
<1>1. ASSUME NEW l \in Lookups, EnterWaitingRoom(l)
      PROVE  \/ UNCHANGED waitingVars
             \/ lookup[l] \in DbRooms /\ Waiting!Join(lookup[l], CallerOf[l])
  BY <1>1 DEF EnterWaitingRoom
<1>2. ASSUME NEW s \in Sockets, WaitingMoves(s) \/ ExitStep(s),
             \A l \in Lookups : ~EnterWaitingRoom(l)
      PROVE  UNCHANGED waitingVars
  BY <1>2 DEF WaitingMoves, Connect, JoinWaitingRoom, ExitStep, FindOpenRow, CloseRow,
     AnnounceRemoval
<1>3. ASSUME NEW s \in Sockets, Departs(s)
      PROVE  Waiting!Remove(s)
  BY <1>3 DEF Departs, Disconnect
<1>4. ASSUME NEW c \in Commands, CommandMoves(c)
      PROVE  UNCHANGED waitingVars
  BY <1>4 DEF CommandMoves, InsertBlock, DeleteBlock, FinishUnblock, BlockUser, UnblockUser
<1>5. ASSUME NEW q \in Requests, RequestMoves(q)
      PROVE  UNCHANGED waitingVars \/ \E s \in Sockets : Waiting!Remove(s)
  BY <1>5, ConstantsTyped DEF RequestMoves, JoinRoom, LearnMaster, CheckBlacklistRows,
     RefusePassword, JoinExistingRoom, StartCreatingRoom, RouterCreated, FetchBlacklist,
     RegisterRoom, RecordHistory, CompleteJoin
<1>6. CASE Restart \/ NobodyDeparts
  BY <1>6 DEF Restart, NobodyDeparts
<1> QED BY <1>1, <1>2, <1>3, <1>4, <1>5, <1>6, StepCases

(* The index of the waiting rooms never names a room that does not list    *)
(* the socket, late and repeated joins of it included: remove always finds *)
(* what the index promises.                                                *)
THEOREM IndexedAreListed == Spec => []IndexedIsListed
<1>1. Init => TypeInv /\ IndexedIsListed
  BY InitTyped DEF Init, Waiting!WaitingInit, IndexedIsListed
<1>2. TypeInv /\ IndexedIsListed /\ [Next]_vars => (TypeInv /\ IndexedIsListed)'
  <2> SUFFICES ASSUME TypeInv, IndexedIsListed, [Next]_vars
               PROVE  TypeInv' /\ IndexedIsListed'
    OBVIOUS
  <2>1. TypeInv'
    BY NextTyped
  <2> USE DEF IndexedIsListed
  <2>2. CASE UNCHANGED waitingVars
    BY <2>1, <2>2 DEF waitingVars
  <2>3. CASE Crash
    BY <2>1, <2>3 DEF Crash
  <2>4. ASSUME NEW s \in Sockets, Waiting!Remove(s)
        PROVE  IndexedIsListed'
    <3>1. waitingRoomIdBySocketId' = [waitingRoomIdBySocketId EXCEPT ![s] = None]
      BY <2>4 DEF Waiting!Remove
    <3>2. \A t \in Sockets \ {s}, id \in RoomIds :
            t \in socketsByRoomId[id] => t \in socketsByRoomId'[id]
      BY <2>4 DEF Waiting!Remove
    <3>3. \A t \in Sockets : waitingRoomIdBySocketId[t] \in RoomIds \cup {None}
      BY DEF TypeInv, TypeOK
    <3> QED BY <3>1, <3>2, <3>3 DEF TypeInv, TypeOK
  <2>5. ASSUME NEW s \in Sockets, NEW id \in RoomIds, Waiting!Join(id, s)
        PROVE  IndexedIsListed'
    <3>1. waitingRoomIdBySocketId' = [waitingRoomIdBySocketId EXCEPT ![s] = id]
      BY <2>5 DEF Waiting!Join
    <3>2. /\ s \in socketsByRoomId'[id]
          /\ \A x \in RoomIds : socketsByRoomId[x] \subseteq socketsByRoomId'[x]
      BY <2>5 DEF Waiting!Join, TypeInv, TypeOK
    <3>3. \A t \in Sockets : waitingRoomIdBySocketId[t] \in RoomIds \cup {None}
      BY DEF TypeInv, TypeOK
    <3> QED BY <3>1, <3>2, <3>3 DEF TypeInv, TypeOK
  <2>6. IndexedIsListed'
    BY <2>2, <2>3, <2>4, <2>5, WaitingCalls, ConstantsTyped DEF vars
  <2> QED BY <2>1, <2>6
<1> QED BY <1>1, <1>2, PTL DEF Spec
==========================================================================
