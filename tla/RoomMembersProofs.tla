------------------------ MODULE RoomMembersProofs ------------------------
(***************************************************************************)
(* The members of the rooms: a peer is found through its socket, it is     *)
(* taken out when the socket closes, and its time is recorded.             *)
(***************************************************************************)
EXTENDS RoomDirectoryProofs

----------------------------------------------------------------------------
(* Sockets and the index of the repository.                                *)

(* Only a socket that has been connected sends requests.                   *)
SocketsConnected == \A q \in Requests : pc[q] # "idle" => connection[SocketOf[q]] # "new"

(* While the socket of a peer is open, the index holds the room id it      *)
(* entered last: the peer's own, or that of another request.               *)
WentOn(q) ==
    \E other \in Requests : /\ SocketOf[other] = SocketOf[q] /\ Entered(other)
                           /\ targetId[other] # targetId[q]
Indexed ==
    \A r \in Requests : \A q \in peers[r] :
        connection[SocketOf[q]] = "open" =>
            roomIdBySocketId[SocketOf[q]] = targetId[q] \/ WentOn(q)

IndexInv == SocketsConnected /\ Indexed

(* A connection is made once and closed once.                              *)
LEMMA ConnectionSteps ==
  ASSUME TypeInv, Next, NEW s \in Sockets, connection'[s] # connection[s]
  PROVE  \/ Crash \/ (Departs(s) /\ connection[s] = "open" /\ connection'[s] = "closed")
         \/ (Connect(s) /\ connection[s] = "new" /\ connection'[s] = "open")
<1> USE DEF TypeInv, TypeOK
<1>1. ASSUME NEW t \in Sockets, WaitingMoves(t)
      PROVE  t = s /\ Connect(s)
  BY <1>1 DEF WaitingMoves, Connect, EnterWaitingRoom, JoinWaitingRoom
<1>2. ASSUME NEW t \in Sockets, ExitStep(t)
      PROVE  FALSE
  BY <1>2 DEF ExitStep, FindOpenRow, CloseRow, AnnounceRemoval, socketVars
<1>3. ASSUME NEW t \in Sockets, Departs(t)
      PROVE  t = s
  BY <1>3 DEF Departs, Disconnect
<1>4. ASSUME NEW c \in Commands, CommandMoves(c)
      PROVE  FALSE
  BY <1>4 DEF CommandMoves, InsertBlock, DeleteBlock, FinishUnblock, BlockUser, UnblockUser,
     socketVars
<1>5. ASSUME NEW q \in Requests, RequestMoves(q)
      PROVE  FALSE
  BY <1>5 DEF RequestMoves, JoinRoom, LearnMaster, CheckBlacklistRows, RefusePassword,
     JoinExistingRoom, StartCreatingRoom, RouterCreated, FetchBlacklist, RegisterRoom,
     RecordHistory, CompleteJoin, socketVars
<1>6. ~Restart /\ ~NobodyDeparts
  BY DEF Restart, NobodyDeparts, socketVars
<1>7. Crash \/ Departs(s) \/ Connect(s)
  BY <1>1, <1>2, <1>3, <1>4, <1>5, <1>6, StepCases
<1>8. Departs(s) => connection[s] = "open" /\ connection'[s] = "closed"
  BY DEF Departs, Disconnect
<1>9. Connect(s) => connection[s] = "new" /\ connection'[s] = "open"
  BY DEF Connect
<1> QED BY <1>7, <1>8, <1>9

LEMMA SocketsStayConnected ==
  ASSUME TypeInv, SocketsConnected, Next
  PROVE  SocketsConnected'
<1> SUFFICES ASSUME NEW q \in Requests, pc'[q] # "idle"
             PROVE  connection'[SocketOf[q]] # "new"
  BY DEF SocketsConnected
<1>0. SocketOf[q] \in Sockets
  BY ConstantsTyped
<1>1. CASE pc[q] # "idle"
  <2>1. connection[SocketOf[q]] # "new"
    BY <1>1 DEF SocketsConnected
  <2>2. CASE Crash
    BY <1>0, <2>1, <2>2 DEF Crash
  <2>3. CASE ~Crash
    BY <1>0, <2>1, <2>3, ConnectionSteps
  <2> QED BY <2>2, <2>3
<1>2. CASE pc[q] = "idle"
  <2>1. ~Crash
    BY <1>2 DEF Crash, InFlight, AwaitStages, TypeInv, TypeOK
  <2>2. RequestMoves(q)
    BY <1>2, <2>1, HandlerMoves
  <2>3. JoinRoom(q)
    BY <1>2, <2>2 DEF RequestMoves, LearnMaster, CheckBlacklistRows, RefusePassword,
       JoinExistingRoom, StartCreatingRoom, RouterCreated, FetchBlacklist, RegisterRoom,
       RecordHistory, CompleteJoin, Admitted
  <2> QED BY <2>3 DEF JoinRoom, Serves, socketVars
<1> QED BY <1>1, <1>2

LEMMA IndexKept ==
  ASSUME TypeInv, RegistryInv, Members, IndexInv, Next
  PROVE  IndexInv'
<1>1. SocketsConnected'
  BY SocketsStayConnected DEF IndexInv
<1>2. CASE Crash
  BY <1>1, <1>2 DEF Crash, IndexInv, Indexed
<1>3. CASE ~Crash
  <2> SUFFICES ASSUME NEW r \in Requests, NEW q \in peers'[r],
                      connection'[SocketOf[q]] = "open"
               PROVE  roomIdBySocketId'[SocketOf[q]] = targetId'[q] \/ WentOn(q)'
    BY <1>1 DEF IndexInv, Indexed
  <2> DEFINE s == SocketOf[q]
  <2>1. q \in Requests /\ s \in Sockets
    BY NextTyped, ConstantsTyped DEF TypeInv, TypeOK
  <2>2. CASE q \in peers[r]
    <3>1. Entered(q) /\ Entered(q)' /\ targetId'[q] = targetId[q]
      BY <1>3, <2>1, <2>2, EnteredStays DEF Members
    <3>2. connection[s] = "open"
      <4>1. connection[s] # "new"
        BY <2>1, <3>1 DEF IndexInv, SocketsConnected, Entered
      <4> QED BY <1>3, <2>1, <4>1, ConnectionSteps
    <3>3. WentOn(q) => WentOn(q)'
      BY <1>3, <3>1, EnteredStays DEF WentOn
    <3>4. CASE roomIdBySocketId'[s] = roomIdBySocketId[s]
      BY <2>2, <3>1, <3>2, <3>3, <3>4 DEF IndexInv, Indexed
    <3>5. ASSUME NEW t \in Sockets, Departs(t), roomIdBySocketId'[s] # roomIdBySocketId[s]
          PROVE  FALSE
      <4>1. s = t
        BY <2>1, <3>5 DEF Departs, Disconnect, LeaveRoom, registryVars, TypeInv, TypeOK
      <4> QED BY <2>1, <3>5, <4>1 DEF Departs, Disconnect, TypeInv, TypeOK
    <3>6. ASSUME NEW p \in Requests, JoinExistingRoom(p) \/ RegisterRoom(p),
                 roomIdBySocketId'[s] # roomIdBySocketId[s]
          PROVE  roomIdBySocketId'[s] = targetId'[q] \/ WentOn(q)'
      <4>1. Entered(p)'
        BY <3>6 DEF JoinExistingRoom, RegisterRoom, Goto, Entered, TypeInv, TypeOK
      <4>2. SocketOf[p] = s /\ roomIdBySocketId'[s] = targetId'[p]
        BY <2>1, <3>6 DEF JoinExistingRoom, RegisterRoom, MapsSocket, TypeInv, TypeOK
      <4> QED BY <4>1, <4>2 DEF WentOn
    <3> QED BY <1>3, <3>4, <3>5, <3>6, PeersGrow DEF registryVars
  <2>3. CASE q \notin peers[r]
    <3>1. ASSUME NEW p \in Requests, JoinExistingRoom(p) \/ RegisterRoom(p)
          PROVE  p = q
      BY <2>3, <3>1 DEF JoinExistingRoom, RegisterRoom, TypeInv, TypeOK
    <3>2. ASSUME NEW t \in Sockets, Departs(t), FindRoomBySocketId(t) # None
          PROVE  FALSE
      BY <2>3, <3>2, Departure DEF TypeInv, TypeOK
    <3>3. JoinExistingRoom(q) \/ RegisterRoom(q)
      BY <1>3, <2>3, <3>1, <3>2, PeersGrow DEF registryVars
    <3> QED BY <2>1, <3>3 DEF JoinExistingRoom, RegisterRoom, MapsSocket, TypeInv, TypeOK
  <2> QED BY <2>2, <2>3
<1> QED BY <1>2, <1>3

LEMMA IndexInvariant == Spec => [](TypeInv /\ RegistryInv /\ DirectoryInv /\ IndexInv)
<1>1. Init => IndexInv
  BY DEF Init, IndexInv, SocketsConnected, Indexed
<1>2. TypeInv /\ RegistryInv /\ DirectoryInv /\ IndexInv /\ [Next]_vars => IndexInv'
  <2>1. TypeInv /\ RegistryInv /\ DirectoryInv /\ IndexInv /\ Next => IndexInv'
    BY IndexKept DEF DirectoryInv
  <2>2. IndexInv /\ UNCHANGED vars => IndexInv'
    BY DEF IndexInv, SocketsConnected, Indexed, WentOn, Entered, vars, socketVars, requestVars,
       registryVars
  <2> QED BY <2>1, <2>2
<1> QED BY <1>1, <1>2, DirectoryInvariant, PTL DEF Spec

----------------------------------------------------------------------------
(* Rooms that have peers.                                                  *)

LEMMA HistorySpec == SpecH => Spec
  BY HistorySteps, PTL DEF SpecH, InitH, Spec

LEMMA PeerArrives ==
  ASSUME TypeInv, RegistryInv, Next, NEW q \in Requests, NEW r \in Requests,
         q \in peers'[r], q \notin peers[r]
  PROVE  JoinExistingRoom(q) \/ RegisterRoom(q)
<1>1. ~UNCHANGED registryVars /\ ~Crash
  BY DEF registryVars, Crash
<1>2. ASSUME NEW t \in Sockets, Departs(t), FindRoomBySocketId(t) # None
      PROVE  FALSE
  <2>1. PICK p \in Requests, x \in Requests : peers' = [peers EXCEPT ![x] = @ \ {p}]
    BY <1>2, Departure
  <2> QED BY <2>1 DEF TypeInv, TypeOK
<1>3. ASSUME NEW p \in Requests, JoinExistingRoom(p) \/ RegisterRoom(p)
      PROVE  p = q
  BY <1>3 DEF JoinExistingRoom, RegisterRoom, TypeInv, TypeOK
<1> QED BY <1>1, <1>2, <1>3, PeersGrow

LEMMA TargetSteps ==
  ASSUME TypeInv, Next, NEW q \in Requests, targetId'[q] # targetId[q]
  PROVE  pc[q] \in {"idle", "admit"}
<1>1. ASSUME NEW p \in Requests, RequestMoves(p)
      PROVE  p = q /\ pc[q] \in {"idle", "admit"}
  BY <1>1 DEF RequestMoves, JoinRoom, LearnMaster, CheckBlacklistRows, RefusePassword,
     JoinExistingRoom, StartCreatingRoom, RouterCreated, FetchBlacklist, RegisterRoom,
     RecordHistory, CompleteJoin, Admitted, TypeInv, TypeOK
<1>2. ~Crash /\ ~Restart /\ ~NobodyDeparts
  BY DEF Crash, Restart, NobodyDeparts, Stays, requestVars
<1>3. ASSUME NEW t \in Sockets PROVE ~WaitingMoves(t) /\ ~ExitStep(t) /\ ~Departs(t)
  BY DEF WaitingMoves, Connect, EnterWaitingRoom, JoinWaitingRoom, ExitStep,
     FindOpenRow, CloseRow, AnnounceRemoval, Departs, Stays, requestVars
<1>4. ASSUME NEW c \in Commands PROVE ~CommandMoves(c)
  BY DEF CommandMoves, InsertBlock, DeleteBlock, FinishUnblock, BlockUser,
     UnblockUser, requestVars
<1> QED BY <1>1, <1>2, <1>3, <1>4, StepCases

(* What protects a live room: two requests never build a Room for one id   *)
(* unless both are known to, and nobody builds one for the id of a Room    *)
(* that lives and was built alone.                                         *)
BuiltAlone ==
    \A id \in RoomIds : \A q \in Constructing(id) \ rivals : Constructing(id) = {q}
NoReplacement ==
    \A r \in rooms \ rivals : peers[r] # {} => Constructing(targetId[r]) = {}

LiveInv == BuiltAlone /\ NoReplacement /\ LiveRoomRegistered

(* Construction begins when no Room is registered for the id.              *)
LEMMA ConstructionBegins ==
  ASSUME TypeInv, Next, NEW id \in RoomIds, NEW q \in Constructing(id)', q \notin Constructing(id)
  PROVE  roomById[id] = None
<1> USE DEF Constructing
<1>1. q \in Requests /\ pc'[q] \in {"router", "room", "register"} /\ targetId'[q] = id
  OBVIOUS
<1>2. pc'[q] # pc[q]
  BY <1>1, TargetSteps
<1>3. ~Crash
  BY <1>1 DEF Crash, InFlight, AwaitStages, TypeInv, TypeOK
<1>4. RequestMoves(q)
  BY <1>1, <1>2, <1>3, HandlerMoves
<1>5. StartCreatingRoom(q) \/ RouterCreated(q) \/ FetchBlacklist(q)
  BY <1>1, <1>4 DEF RequestMoves, JoinRoom, LearnMaster, CheckBlacklistRows, RefusePassword,
     JoinExistingRoom, RegisterRoom, RecordHistory, CompleteJoin, Verdict, Goto, TypeInv, TypeOK
<1>6. ~RouterCreated(q) /\ ~FetchBlacklist(q)
  BY <1>1 DEF RouterCreated, FetchBlacklist
<1>7. StartCreatingRoom(q)
  BY <1>5, <1>6
<1> QED BY <1>1, <1>7 DEF StartCreatingRoom, TypeInv, TypeOK

(* Nobody enters a Room that is empty and built already.                   *)
LEMMA LiveBefore ==
  ASSUME TypeInv, RegistryInv, Next, NEW r \in rooms, peers'[r] # {}
  PROVE  peers[r] # {}
<1> SUFFICES ASSUME peers[r] = {} PROVE FALSE
  OBVIOUS
<1>1. PICK q : q \in peers'[r]
  OBVIOUS
<1>2. r \in Requests /\ q \in Requests
  BY <1>1, NextTyped DEF TypeInv, TypeOK
<1>3. JoinExistingRoom(q) \/ RegisterRoom(q)
  BY <1>1, <1>2, PeerArrives
<1>4. CASE JoinExistingRoom(q)
  <2>1. r = roomById[roomIdToJoin[SocketOf[q]]]
    BY <1>1, <1>2, <1>4 DEF JoinExistingRoom, TypeInv, TypeOK
  <2>2. roomIdToJoin[SocketOf[q]] \in RoomIds
    BY <1>2, <1>4 DEF JoinExistingRoom, Admitted, TypeInv, KnowsTarget, InFlight, AwaitStages
  <2> QED BY <1>2, <1>4, <2>1, <2>2
          DEF JoinExistingRoom, RegistryInv, RegisteredRoomLives
<1>5. CASE RegisterRoom(q)
  <2>1. q \notin rooms
    BY <1>2, <1>5 DEF RegisterRoom, TypeInv, KnowsTarget, Entered
  <2> QED BY <1>1, <1>2, <1>5, <2>1 DEF RegisterRoom, TypeInv, TypeOK
<1> QED BY <1>3, <1>4, <1>5

(* A live Room for whose id no other is being built stays registered.      *)
LEMMA LiveStaysRegistered ==
  ASSUME TypeInv, RegistryInv, Next, ~Crash, NEW r \in rooms, peers'[r] # {},
         roomById[targetId[r]] = r, Constructing(targetId[r]) = {}
  PROVE  roomById'[targetId[r]] = r
<1> DEFINE id == targetId[r]
<1>1. r \in Requests /\ id \in RoomIds
  BY ConstantsTyped DEF TypeInv, TypeOK, KnowsTarget
<1>2. ASSUME NEW s \in Sockets, Departs(s), FindRoomBySocketId(s) # None
      PROVE  roomById'[id] = r
  <2>1. PICK q \in Requests, x \in Requests :
           /\ targetId[x] \in RoomIds /\ roomById[targetId[x]] = x
           /\ peers' = [peers EXCEPT ![x] = @ \ {q}]
           /\ roomById' = IF peers[x] = {q}
                          THEN [roomById EXCEPT ![targetId[x]] = None] ELSE roomById
    BY <1>2, Departure
  <2>2. CASE x = r
    BY <1>1, <2>1, <2>2 DEF TypeInv, TypeOK
  <2>3. CASE x # r
    BY <1>1, <2>1, <2>3 DEF TypeInv, TypeOK
  <2> QED BY <2>2, <2>3
<1>3. ASSUME NEW q \in Requests, RegisterRoom(q)
      PROVE  roomById'[id] = r
  <2>1. targetId[q] # id
    BY <1>3 DEF RegisterRoom, Constructing
  <2> QED BY <1>1, <1>3, <2>1 DEF RegisterRoom, TypeInv, TypeOK
<1>4. ASSUME NEW q \in Requests, JoinExistingRoom(q)
      PROVE  roomById'[id] = r
  BY <1>4 DEF JoinExistingRoom
<1> QED BY <1>2, <1>3, <1>4, PeersGrow DEF registryVars

LEMMA LiveKept ==
  ASSUME TypeInv, TypeInv', RegistryInv, LiveInv, Next, HistoryStep
  PROVE  LiveInv'
<1>1. BuiltAlone'
  BY DEF HistoryStep, BuiltAlone, Constructing, InFlight, AwaitStages
<1>2. ASSUME NEW r \in rooms', r \notin rivals', peers'[r] # {}
      PROVE  Constructing(targetId[r])' = {} /\ roomById'[targetId'[r]] = r
  <2>1. r \in Requests /\ r \notin rivals /\ ~Crash
    BY <1>2 DEF HistoryStep, Crash, TypeInv, TypeOK
  <2>2. CASE r \in rooms
    <3> DEFINE id == targetId[r]
    <3>1. id \in RoomIds /\ targetId'[r] = id
      BY <2>1, <2>2, ConstantsTyped, EnteredStays DEF TypeInv, KnowsTarget
    <3>2. peers[r] # {}
      BY <1>2, <2>2, LiveBefore
    <3>3. roomById[id] = r /\ Constructing(id) = {}
      BY <2>1, <2>2, <3>2 DEF LiveInv, NoReplacement, LiveRoomRegistered
    <3>4. roomById[id] # None
      BY <2>1, <3>3, NoneIsFresh
    <3>5. Constructing(id)' = {}
      BY <3>1, <3>3, <3>4, ConstructionBegins
    <3>6. roomById'[id] = r
      BY <1>2, <2>1, <2>2, <3>3, LiveStaysRegistered
    <3> QED BY <3>1, <3>5, <3>6
  <2>3. CASE r \notin rooms
    <3>1. RegisterRoom(r)
      BY <1>2, <2>1, <2>3, RoomsGrow
    <3>2. /\ targetId[r] \in RoomIds /\ targetId' = targetId /\ r \in Constructing(targetId[r])
          /\ pc' = [pc EXCEPT ![r] = "history"]
      BY <2>1, <3>1 DEF RegisterRoom, Goto, Constructing, TypeInv, KnowsTarget, InFlight, AwaitStages
    <3>3. Constructing(targetId[r]) = {r}
      BY <2>1, <3>2 DEF LiveInv, BuiltAlone
    <3>4. ASSUME NEW q \in Requests, q \in Constructing(targetId[r])'
          PROVE  FALSE
      <4>1. q # r
        BY <2>1, <3>2, <3>4 DEF Constructing, TypeInv, TypeOK
      <4>2. q \in Constructing(targetId[r])
        BY <3>2, <3>4, <4>1 DEF Constructing, TypeInv, TypeOK
      <4> QED BY <3>3, <4>1, <4>2
    <3>5. Constructing(targetId[r])' = {}
      BY <3>4 DEF Constructing
    <3>6. roomById'[targetId'[r]] = r
      BY <3>1, <3>2 DEF RegisterRoom, TypeInv, TypeOK
    <3> QED BY <3>2, <3>5, <3>6
  <2> QED BY <2>2, <2>3
<1> QED BY <1>1, <1>2 DEF LiveInv, NoReplacement, LiveRoomRegistered

LEMMA LiveInvariant ==
  SpecH => [](TypeInv /\ RegistryInv /\ DirectoryInv /\ IndexInv /\ LiveInv)
<1>1. InitH => LiveInv
  BY DEF InitH, Init, LiveInv, BuiltAlone, NoReplacement, LiveRoomRegistered, Constructing
<1>2. TypeInv /\ TypeInv' /\ RegistryInv /\ LiveInv /\ [NextH]_allVars => LiveInv'
  <2>1. TypeInv /\ TypeInv' /\ RegistryInv /\ LiveInv /\ NextH => LiveInv'
    BY LiveKept DEF NextH
  <2>2. LiveInv /\ UNCHANGED allVars => LiveInv'
    BY DEF LiveInv, BuiltAlone, NoReplacement, LiveRoomRegistered, Constructing, allVars, vars,
       historyVars, requestVars, registryVars
  <2> QED BY <2>1, <2>2
<1> QED BY <1>1, <1>2, HistorySpec, IndexInvariant, PTL DEF SpecH

(* A room that still has peers is registered, unless its Room was under    *)
(* construction at the same time as another one for the id: that race is   *)
(* the only way in which a live room is dropped.  Rooms of the id that     *)
(* were emptied before, or are built after, do not matter.                 *)
THEOREM LiveRoomsRegistered == SpecH => []LiveRoomRegistered
  BY LiveInvariant, PTL DEF LiveInv

(* A connected peer is found through its socket, whatever joins, leaves    *)
(* and creations interleave, unless its socket went on to another room or  *)
(* its Room was built at the same time as another one for the id.          *)
THEOREM PeersReachable == SpecH => []PeerReachable
<1>1. ASSUME TypeInv, RegistryInv, DirectoryInv, IndexInv, LiveInv
      PROVE  PeerReachable
  <2> SUFFICES ASSUME NEW r \in rooms, NEW q \in peers[r],
                      connection[SocketOf[q]] = "open", ~WentOn(q), r \notin rivals
               PROVE  FindRoomBySocketId(SocketOf[q]) = r
    BY DEF PeerReachable, WentOn
  <2>1. r \in Requests /\ q \in Requests
    BY <1>1 DEF TypeInv, TypeOK
  <2>2. targetId[q] = targetId[r] /\ roomIdBySocketId[SocketOf[q]] = targetId[q]
    BY <1>1, <2>1 DEF DirectoryInv, Members, IndexInv, Indexed
  <2>3. roomById[targetId[r]] = r
    BY <1>1 DEF LiveInv, LiveRoomRegistered
  <2>4. targetId[r] # None
    BY <1>1, <2>1, ConstantsTyped, NoneIsFresh DEF TypeInv, KnowsTarget
  <2> QED BY <2>2, <2>3, <2>4 DEF FindRoomBySocketId
<1> QED BY <1>1, LiveInvariant, PTL

----------------------------------------------------------------------------
(* Departures.                                                             *)

Again(q) == \E other \in Requests \ {q} : SocketOf[other] = SocketOf[q] /\ Entered(other)

(* Closing the only peer of a socket in a registered room takes that peer  *)
(* out of the room.                                                        *)
LEMMA DepartureTakesPeer ==
  ASSUME TypeInv, RegistryInv, DirectoryInv, IndexInv, NEW q \in Requests, ~Again(q),
         NEW id \in RoomIds, roomById[id] # None, q \in peers[roomById[id]],
         Departs(SocketOf[q])
  PROVE  q \notin peers'[roomById[id]]
<1> DEFINE s == SocketOf[q]
           r == roomById[id]
<1>1. s \in Sockets /\ r \in Requests /\ id # None /\ targetId[r] = id
  BY ConstantsTyped, NoneIsFresh DEF TypeInv, TypeOK, RegistryInv, RegisteredRoomLives
<1>2. targetId[q] = id /\ connection[s] = "open"
  BY <1>1 DEF DirectoryInv, Members, Departs
<1>3. roomIdBySocketId[s] = id
  BY <1>1, <1>2 DEF IndexInv, Indexed, WentOn, Again
<1>4. FindRoomBySocketId(s) = r
  BY <1>1, <1>3 DEF FindRoomBySocketId
<1>5. PICK p \in Requests : /\ p \in peers[r] /\ SocketOf[p] = s
                           /\ peers' = [peers EXCEPT ![r] = @ \ {p}]
  BY <1>1, <1>4, Departure
<1>6. p = q
  BY <1>1, <1>5 DEF DirectoryInv, Members, Again
<1> QED BY <1>1, <1>5, <1>6 DEF TypeInv, TypeOK

LEMMA DepartedStaysRemoved ==
  ASSUME TypeInv, TypeInv', RegistryInv, DirectoryInv, IndexInv, DepartedPeerRemoved,
         Next, HistoryStep
  PROVE  DepartedPeerRemoved'
<1> SUFFICES ASSUME NEW id \in RoomIds, roomById'[id] # None, NEW q \in peers'[roomById'[id]],
                    connection'[SocketOf[q]] # "open", q \notin late', ~Again(q)'
             PROVE  FALSE
  BY DEF DepartedPeerRemoved, Again
<1> DEFINE s == SocketOf[q]
           r == roomById'[id]
<1>1. r \in Requests /\ q \in Requests /\ s \in Sockets /\ ~Crash
  BY ConstantsTyped DEF TypeInv, TypeOK, Crash
<1>2. CASE roomById[id] = r /\ q \in peers[r]
  <2>1. ~Again(q)
    BY <1>1, EnteredStays DEF Again
  <2>2. q \notin late
    BY <1>1 DEF HistoryStep
  <2>3. connection[s] = "open"
    BY <1>2, <2>1, <2>2 DEF DepartedPeerRemoved, Again
  <2>4. Departs(s)
    BY <1>1, <2>3, ConnectionSteps
  <2> QED BY <1>1, <1>2, <2>1, <2>4, DepartureTakesPeer
<1>3. CASE ~(roomById[id] = r /\ q \in peers[r])
  <2>1. JoinExistingRoom(q) \/ RegisterRoom(q)
    <3>1. ~UNCHANGED registryVars
      BY <1>3 DEF registryVars
    <3>2. ASSUME NEW t \in Sockets, Departs(t), FindRoomBySocketId(t) # None
          PROVE  FALSE
      <4>1. PICK p \in Requests, x \in Requests :
               /\ peers' = [peers EXCEPT ![x] = @ \ {p}]
               /\ targetId[x] \in RoomIds
               /\ \/ roomById' = [roomById EXCEPT ![targetId[x]] = None]
                  \/ roomById' = roomById
        BY <3>2, Departure
      <4>2. peers'[r] \subseteq peers[r] /\ roomById[id] = r
        BY <1>1, <4>1 DEF TypeInv, TypeOK
      <4> QED BY <1>3, <4>2
    <3>3. ASSUME NEW p \in Requests, JoinExistingRoom(p) \/ RegisterRoom(p)
          PROVE  p = q
      BY <1>1, <1>3, <3>3 DEF JoinExistingRoom, RegisterRoom, TypeInv, TypeOK
    <3> QED BY <1>1, <3>1, <3>2, <3>3, PeersGrow
  <2>2. Enters(q) /\ connection' = connection
    BY <1>1, <2>1, Entry DEF JoinExistingRoom, RegisterRoom, socketVars
  <2>3. connection[s] = "closed"
    <3>1. connection[s] # "new"
      BY <1>1, <2>1 DEF IndexInv, SocketsConnected, JoinExistingRoom, RegisterRoom, Admitted
    <3> QED BY <1>1, <2>2, <3>1 DEF TypeInv, TypeOK
  <2> QED BY <1>1, <2>2, <2>3 DEF HistoryStep
<1> QED BY <1>2, <1>3

(* A registered room keeps no peer whose socket has closed: leaves, kicks  *)
(* and blocks take the peer out of the very room it is in, unless the peer *)
(* entered on a closed socket or its socket entered twice.                 *)
THEOREM DepartedPeersRemoved == SpecH => []DepartedPeerRemoved
<1>1. InitH => DepartedPeerRemoved
  BY DEF InitH, Init, DepartedPeerRemoved
<1>2. TypeInv /\ TypeInv' /\ RegistryInv /\ DirectoryInv /\ IndexInv /\ DepartedPeerRemoved
      /\ [NextH]_allVars => DepartedPeerRemoved'
  <2>1. TypeInv /\ TypeInv' /\ RegistryInv /\ DirectoryInv /\ IndexInv /\ DepartedPeerRemoved
        /\ NextH => DepartedPeerRemoved'
    BY DepartedStaysRemoved DEF NextH
  <2>2. DepartedPeerRemoved /\ UNCHANGED allVars => DepartedPeerRemoved'
    BY DEF DepartedPeerRemoved, Entered, allVars, vars, historyVars, socketVars, requestVars,
       registryVars
  <2> QED BY <2>1, <2>2
<1> QED BY <1>1, <1>2, HistorySpec, IndexInvariant, PTL DEF SpecH

----------------------------------------------------------------------------
(* Study history.                                                          *)

Present(q) == \E r \in Requests : q \in peers[r]

(* A leave that looks for a row, or has found one and not closed it yet,   *)
(* is of a peer that had entered and is in no room; the row is one of the  *)
(* peer's user in the peer's room.                                         *)
Recording(q) == exit[SocketOf[q]].peer = q /\ exit[SocketOf[q]].step \in {"find", "close"}
LeaverKnown(s) ==
    exit[s].step \in {"find", "close"} =>
        LET q == exit[s].peer IN
        q \in Requests /\ SocketOf[q] = s /\ Entered(q) /\ ~Present(q)
RowKnown(s) ==
    exit[s].step = "close" =>
        LET q == exit[s].peer
            h == exit[s].row
        IN  /\ h \in Requests /\ historyRow[h] # "none"
            /\ UserOf[h] = UserOf[q] /\ targetId[h] = targetId[q]

(* A peer is in one room, and a row is of a request that has entered.      *)
InOneRoom == \A r, x \in Requests : \A q \in peers[r] \cap peers[x] : r = x
RowsOfEntered ==
    \A q \in Requests : historyRow[q] # "none" => pc[q] \in {"recorded", "joined", "lost"}

RowInv ==
    /\ InOneRoom /\ RowsOfEntered
    /\ \A s \in Sockets : LeaverKnown(s) /\ RowKnown(s)

(* Present peers and leaves that owe a row are together no more than the   *)
(* rows: the strengthening of StudyRowsCoverMembers that leaves keep.      *)
Accounted(id, u) ==
    {q \in Requests : UserOf[q] = u /\ targetId[q] = id /\ (Present(q) \/ Recording(q))}
RowsCover ==
    \A id \in RoomIds, u \in Users :
        Cardinality(Accounted(id, u)) <= Cardinality(CurrentRows(id, u))

----------------------------------------------------------------------------
(* What single steps change.                                               *)

LEMMA PresentBegins ==
  ASSUME TypeInv, RegistryInv, Next, NEW q \in Requests, Present(q)', ~Present(q)
  PROVE  (JoinExistingRoom(q) \/ RegisterRoom(q)) /\ ~Entered(q)
<1>1. PICK r \in Requests : q \in peers'[r] /\ q \notin peers[r]
  BY DEF Present
<1>2. JoinExistingRoom(q) \/ RegisterRoom(q)
  BY <1>1, PeerArrives
<1> QED BY <1>2, Entry DEF Enters

(* The room id of a request is settled when it enters.                     *)
LEMMA ExitSteps ==
  ASSUME TypeInv, Next, NEW s \in Sockets, exit'[s] # exit[s]
  PROVE  Crash \/ ExitStep(s) \/ (Departs(s) /\ FindRoomBySocketId(s) # None)
<1>1. ASSUME NEW p \in Requests PROVE ~RequestMoves(p)
  BY DEF RequestMoves, JoinRoom, LearnMaster, CheckBlacklistRows, RefusePassword,
     JoinExistingRoom, StartCreatingRoom, RouterCreated, FetchBlacklist, RegisterRoom,
     RecordHistory, CompleteJoin
<1>2. ~Restart /\ ~NobodyDeparts
  BY DEF Restart, NobodyDeparts
<1>3. ASSUME NEW t \in Sockets, WaitingMoves(t) PROVE FALSE
  BY <1>3 DEF WaitingMoves, Connect, EnterWaitingRoom, JoinWaitingRoom
<1>4. ASSUME NEW t \in Sockets, ExitStep(t) PROVE t = s
  BY <1>4 DEF ExitStep, FindOpenRow, CloseRow, AnnounceRemoval, TypeInv, TypeOK
<1>5. ASSUME NEW t \in Sockets, Departs(t)
      PROVE  t = s /\ FindRoomBySocketId(t) # None
  BY <1>5 DEF Departs, Disconnect, LeaveRoom, TypeInv, TypeOK
<1>6. ASSUME NEW c \in Commands PROVE ~CommandMoves(c)
  BY DEF CommandMoves, InsertBlock, DeleteBlock, FinishUnblock, BlockUser, UnblockUser
<1> QED BY <1>1, <1>2, <1>3, <1>4, <1>5, <1>6, StepCases

LEMMA RowSteps ==
  ASSUME TypeInv, Next, NEW h \in Requests, historyRow'[h] # historyRow[h]
  PROVE  \/ RecordHistory(h) /\ historyRow'[h] = "open"
         \/ \E s \in Sockets : CloseRow(s) /\ exit[s].row = h /\ historyRow'[h] = "closed"
<1>1. ASSUME NEW p \in Requests, RequestMoves(p)
      PROVE  RecordHistory(h) /\ historyRow'[h] = "open"
  BY <1>1 DEF RequestMoves, JoinRoom, LearnMaster, CheckBlacklistRows, RefusePassword,
     JoinExistingRoom, StartCreatingRoom, RouterCreated, FetchBlacklist, RegisterRoom,
     RecordHistory, CompleteJoin, dbVars, TypeInv, TypeOK
<1>2. ~Crash /\ ~Restart /\ ~NobodyDeparts
  BY DEF Crash, Restart, NobodyDeparts, Stays, dbVars
<1>3. ASSUME NEW t \in Sockets PROVE ~WaitingMoves(t) /\ ~Departs(t)
  BY DEF WaitingMoves, Connect, EnterWaitingRoom, JoinWaitingRoom, Departs, Stays, dbVars
<1>4. ASSUME NEW t \in Sockets, ExitStep(t)
      PROVE  CloseRow(t) /\ exit[t].row = h /\ historyRow'[h] = "closed"
  BY <1>4 DEF ExitStep, FindOpenRow, CloseRow, RowsClosedBy, AnnounceRemoval, dbVars
<1>5. ASSUME NEW c \in Commands PROVE ~CommandMoves(c)
  BY DEF CommandMoves, InsertBlock, DeleteBlock, FinishUnblock, BlockUser, UnblockUser, dbVars
<1> QED BY <1>1, <1>2, <1>3, <1>4, <1>5, StepCases

----------------------------------------------------------------------------
LEMMA RowsStayOfEntered ==
  ASSUME TypeInv, RowInv, Next
  PROVE  RowsOfEntered'
<1> SUFFICES ASSUME NEW q \in Requests, historyRow'[q] # "none"
             PROVE  pc'[q] \in {"recorded", "joined", "lost"}
  BY DEF RowsOfEntered
<1>1. CASE historyRow[q] # "none"
  <2>1. pc[q] \in {"recorded", "joined", "lost"}
    BY <1>1 DEF RowInv, RowsOfEntered
  <2>2. CASE pc'[q] = pc[q]
    BY <2>1, <2>2
  <2>3. CASE Crash
    BY <2>1, <2>3 DEF Crash, TypeInv, TypeOK
  <2>4. CASE RequestMoves(q)
    BY <2>1, <2>4 DEF RequestMoves, JoinRoom, LearnMaster, CheckBlacklistRows, RefusePassword,
       JoinExistingRoom, StartCreatingRoom, RouterCreated, FetchBlacklist, RegisterRoom,
       RecordHistory, CompleteJoin, Admitted, Goto, TypeInv, TypeOK
  <2> QED BY <2>2, <2>3, <2>4, HandlerMoves
<1>2. CASE historyRow[q] = "none"
  <2>1. RecordHistory(q)
    BY <1>2, RowSteps DEF RowInv, RowKnown, CloseRow
  <2> QED BY <2>1 DEF RecordHistory, Goto, TypeInv, TypeOK
<1> QED BY <1>1, <1>2

LEMMA StaysInOneRoom ==
  ASSUME TypeInv, RegistryInv, DirectoryInv, InOneRoom, Next
  PROVE  InOneRoom'
<1> SUFFICES ASSUME NEW r \in Requests, NEW x \in Requests, NEW q \in peers'[r] \cap peers'[x]
             PROVE  r = x
  BY DEF InOneRoom
<1>1. q \in Requests
  BY NextTyped DEF TypeInv, TypeOK
<1>2. CASE Present(q)
  <2>1. Entered(q) /\ ~Crash
    BY <1>2 DEF Present, DirectoryInv, Members, Crash
  <2>2. q \in peers[r] /\ q \in peers[x]
    <3>1. ASSUME NEW p \in Requests, JoinExistingRoom(p) \/ RegisterRoom(p)
          PROVE  p # q
      BY <2>1, <3>1, Entry DEF Enters
    <3>2. CASE registryVars' = registryVars
      BY <3>2 DEF registryVars
    <3>3. ASSUME NEW t \in Sockets, Departs(t), FindRoomBySocketId(t) # None
          PROVE  \A y \in Requests : peers'[y] \subseteq peers[y]
      <4>1. PICK p \in Requests, y \in Requests : peers' = [peers EXCEPT ![y] = @ \ {p}]
        BY <3>3, Departure
      <4> QED BY <4>1 DEF TypeInv, TypeOK
    <3>4. ASSUME NEW p \in Requests, JoinExistingRoom(p) \/ RegisterRoom(p)
          PROVE  \A y \in Requests : peers'[y] \subseteq peers[y] \cup {p}
      BY <3>4 DEF JoinExistingRoom, RegisterRoom, TypeInv, TypeOK
    <3> QED BY <2>1, <3>1, <3>2, <3>3, <3>4, PeersGrow
  <2> QED BY <2>2 DEF InOneRoom
<1>3. CASE ~Present(q)
  <2>1. JoinExistingRoom(q) \/ RegisterRoom(q)
    BY <1>1, <1>3, PresentBegins DEF Present
  <2>2. \A y \in Requests : q \notin peers[y]
    BY <1>3 DEF Present
  <2> QED BY <2>1, <2>2 DEF JoinExistingRoom, RegisterRoom, TypeInv, TypeOK
<1> QED BY <1>2, <1>3

LEMMA LeaversStayKnown ==
  ASSUME TypeInv, RegistryInv, DirectoryInv, RowInv, Next, NEW s \in Sockets
  PROVE  LeaverKnown(s)' /\ RowKnown(s)'
<1> DEFINE q == exit[s].peer
           h == exit[s].row
<1>0. LeaverKnown(s) /\ RowKnown(s) /\ exit[s] \in ExitRecords
  BY DEF RowInv, TypeInv, TypeOK
<1>1. CASE Crash
  <2>1. exit'[s] = NoExit \/ exit'[s] = ExitDone
    BY <1>1 DEF Crash
  <2> QED BY <2>1 DEF LeaverKnown, RowKnown, NoExit, ExitDone
<1>2. ASSUME ~Crash, exit[s].step \in {"find", "close"}
      PROVE  \E p \in Requests : /\ p = q /\ SocketOf[p] = s /\ Entered(p)' /\ ~Present(p)'
                                /\ targetId'[p] = targetId[p]
  <2>1. PICK p \in Requests : p = q /\ SocketOf[p] = s /\ Entered(p) /\ ~Present(p)
    BY <1>0, <1>2 DEF LeaverKnown
  <2>2. Entered(p)' /\ targetId'[p] = targetId[p]
    BY <1>2, <2>1, EnteredStays
  <2>3. ~Present(p)'
    BY <2>1, PresentBegins
  <2> QED BY <2>1, <2>2, <2>3
<1>3. ASSUME NEW x \in Requests, historyRow[x] # "none"
      PROVE  historyRow'[x] # "none" /\ targetId'[x] = targetId[x]
  <2>1. historyRow'[x] # "none"
    BY <1>3, RowSteps
  <2>2. pc[x] \in {"recorded", "joined", "lost"}
    BY <1>3 DEF RowInv, RowsOfEntered
  <2> QED BY <2>1, <2>2, TargetSteps
<1>4. CASE ~Crash /\ exit'[s] = exit[s]
  <2>1. LeaverKnown(s)'
    BY <1>2, <1>4 DEF LeaverKnown
  <2>2. RowKnown(s)'
    BY <1>0, <1>2, <1>3, <1>4 DEF RowKnown
  <2> QED BY <2>1, <2>2
<1>5. CASE ~Crash /\ ExitStep(s)
  <2>1. CASE exit'[s].step \notin {"find", "close"}
    BY <2>1 DEF LeaverKnown, RowKnown
  <2>2. CASE exit'[s].step \in {"find", "close"}
    <3>1. AfterExit(s).step \notin {"find", "close"} /\ ExitDone.step \notin {"find", "close"}
      BY <1>0 DEF AfterExit, ExitDone, NoExit, ExitRecords
    <3>2. FindOpenRow(s)
      BY <1>5, <2>2, <3>1 DEF ExitStep, CloseRow, AnnounceRemoval, TypeInv, TypeOK
    <3>3. PICK x \in OpenRows(q) : exit'[s] = [exit[s] EXCEPT !.step = "close", !.row = x]
      BY <2>2, <3>1, <3>2 DEF FindOpenRow, TypeInv, TypeOK
    <3>4. exit[s].step = "find" /\ exit'[s].peer = q /\ exit'[s].row = x
      BY <1>0, <3>2, <3>3 DEF FindOpenRow, ExitRecords
    <3>5. x \in Requests /\ historyRow[x] = "open" /\ targetId[x] = targetId[q]
          /\ UserOf[x] = UserOf[q]
      BY <3>3 DEF OpenRows
    <3> QED BY <1>2, <1>3, <1>5, <3>4, <3>5 DEF LeaverKnown, RowKnown
  <2> QED BY <2>1, <2>2
<1>6. CASE ~Crash /\ Departs(s) /\ FindRoomBySocketId(s) # None
  <2>1. PICK p \in Requests, r \in Requests :
            /\ p \in peers[r] /\ SocketOf[p] = s
            /\ peers' = [peers EXCEPT ![r] = @ \ {p}]
            /\ exit' = [exit EXCEPT ![s] = [step |-> "find", peer |-> p,
                            removed |-> peers[r] = {p}, row |-> None]]
    BY <1>6, Departure
  <2>2. exit'[s].step = "find" /\ exit'[s].peer = p
    BY <2>1 DEF TypeInv, TypeOK
  <2>3. Entered(p)'
    BY <1>6, <2>1, EnteredStays DEF DirectoryInv, Members
  <2>4. ~Present(p)'
    BY <2>1 DEF Present, RowInv, InOneRoom, TypeInv, TypeOK
  <2> QED BY <2>1, <2>2, <2>3, <2>4 DEF LeaverKnown, RowKnown
<1> QED BY <1>1, <1>4, <1>5, <1>6, ExitSteps

LEMMA RowInvKept ==
  ASSUME TypeInv, RegistryInv, DirectoryInv, RowInv, Next
  PROVE  RowInv'
  BY RowsStayOfEntered, StaysInOneRoom, LeaversStayKnown DEF RowInv

----------------------------------------------------------------------------
(* Counting.                                                               *)

LEMMA CoverOfMore ==
  ASSUME NEW A, NEW B, IsFiniteSet(A), IsFiniteSet(B), Cardinality(A) <= Cardinality(B),
         NEW A2 \in SUBSET A, NEW B2, IsFiniteSet(B2), B \subseteq B2
  PROVE  Cardinality(A2) <= Cardinality(B2)
<1>1. Cardinality(A2) <= Cardinality(A) /\ Cardinality(B) <= Cardinality(B2) /\ IsFiniteSet(A2)
  BY FS_Subset
<1> QED BY <1>1, FS_CardinalityType

LEMMA CoverOfOneMore ==
  ASSUME NEW A, NEW B, IsFiniteSet(A), IsFiniteSet(B), Cardinality(A) <= Cardinality(B),
         NEW q, NEW A2 \in SUBSET (A \cup {q}), NEW B2, IsFiniteSet(B2),
         B \cup {q} \subseteq B2, q \notin B
  PROVE  Cardinality(A2) <= Cardinality(B2)
<1>0. Cardinality(A) \in Nat /\ Cardinality(B) \in Nat
  BY FS_CardinalityType
<1>1. /\ IsFiniteSet(A \cup {q})
      /\ Cardinality(A \cup {q}) = Cardinality(A) \/ Cardinality(A \cup {q}) = Cardinality(A) + 1
  BY FS_AddElement
<1>2. IsFiniteSet(B \cup {q}) /\ Cardinality(B \cup {q}) = Cardinality(B) + 1
  BY FS_AddElement
<1>3. Cardinality(A \cup {q}) <= Cardinality(B \cup {q})
  BY <1>0, <1>1, <1>2
<1> QED BY <1>1, <1>2, <1>3, CoverOfMore

LEMMA CoverOfOneLess ==
  ASSUME NEW A, NEW B, IsFiniteSet(A), IsFiniteSet(B), Cardinality(A) <= Cardinality(B),
         NEW q \in A, NEW A2 \in SUBSET (A \ {q}), NEW h, NEW B2, IsFiniteSet(B2),
         B \ {h} \subseteq B2
  PROVE  Cardinality(A2) <= Cardinality(B2)
<1>0. Cardinality(A) \in Nat /\ Cardinality(B) \in Nat
  BY FS_CardinalityType
<1>1. IsFiniteSet(A \ {q}) /\ Cardinality(A \ {q}) = Cardinality(A) - 1
  BY FS_RemoveElement
<1>2. /\ IsFiniteSet(B \ {h})
      /\ Cardinality(B \ {h}) = Cardinality(B) \/ Cardinality(B \ {h}) = Cardinality(B) - 1
  BY FS_RemoveElement
<1>3. Cardinality(A \ {q}) <= Cardinality(B \ {h})
  BY <1>0, <1>1, <1>2
<1> QED BY <1>1, <1>2, <1>3, CoverOfMore

LEMMA SetsFinite ==
  ASSUME NEW id, NEW u
  PROVE  /\ IsFiniteSet(Accounted(id, u)) /\ IsFiniteSet(CurrentRows(id, u))
         /\ IsFiniteSet(Accounted(id, u)') /\ IsFiniteSet(CurrentRows(id, u)')
<1>1. /\ Accounted(id, u) \subseteq Requests /\ CurrentRows(id, u) \subseteq Requests
      /\ Accounted(id, u)' \subseteq Requests /\ CurrentRows(id, u)' \subseteq Requests
  BY DEF Accounted, CurrentRows
<1> QED BY <1>1, RequestsFinite, FS_Subset

(* Who is accounted for after a step was before, unless it enters.         *)
LEMMA AccountedSteps ==
  ASSUME TypeInv, RegistryInv, DirectoryInv, RowInv, Next, ~Crash, NEW q \in Requests,
         Present(q)' \/ Recording(q)', ~(JoinExistingRoom(q) \/ RegisterRoom(q))
  PROVE  (Present(q) \/ Recording(q)) /\ targetId'[q] = targetId[q]
<1> DEFINE s == SocketOf[q]
<1>0. s \in Sockets
  BY ConstantsTyped
<1>1. Present(q) \/ Recording(q)
  <2>1. CASE Present(q)'
    BY <2>1, PresentBegins
  <2>2. CASE Recording(q)' /\ exit'[s] = exit[s]
    BY <2>2 DEF Recording
  <2>3. CASE Recording(q)' /\ ExitStep(s)
    <3>1. exit[s] \in ExitRecords
      BY <1>0 DEF TypeInv, TypeOK
    <3>2. AfterExit(s).step \notin {"find", "close"} /\ ExitDone.step \notin {"find", "close"}
      BY <3>1 DEF AfterExit, ExitDone, NoExit, ExitRecords
    <3>3. exit'[s].step \in {"find", "close"} /\ exit'[s].peer = q
      BY <2>3 DEF Recording
    <3>4. FindOpenRow(s)
      BY <1>0, <2>3, <3>2, <3>3 DEF ExitStep, CloseRow, AnnounceRemoval, TypeInv, TypeOK
    <3>5. PICK x \in Requests : exit'[s] = [exit[s] EXCEPT !.step = "close", !.row = x]
      BY <1>0, <3>2, <3>3, <3>4 DEF FindOpenRow, OpenRows, TypeInv, TypeOK
    <3>6. exit[s].step = "find" /\ exit[s].peer = q
      BY <3>1, <3>3, <3>4, <3>5 DEF FindOpenRow, ExitRecords
    <3> QED BY <3>6 DEF Recording
  <2>4. CASE Recording(q)' /\ Departs(s) /\ FindRoomBySocketId(s) # None
    <3> HIDE DEF s
    <3>1. PICK p \in Requests, r \in Requests :
              /\ p \in peers[r] /\ SocketOf[p] = s
              /\ peers' = [peers EXCEPT ![r] = @ \ {p}]
              /\ exit' = [exit EXCEPT ![s] = [step |-> "find", peer |-> p,
                              removed |-> peers[r] = {p}, row |-> None]]
      BY <1>0, <2>4, Departure
    <3> USE DEF s
    <3>2. p = q
      BY <1>0, <2>4, <3>1 DEF Recording, TypeInv, TypeOK
    <3> QED BY <3>1, <3>2 DEF Present
  <2> QED BY <1>0, <2>1, <2>2, <2>3, <2>4, ExitSteps
<1>2. Entered(q)
  BY <1>0, <1>1 DEF Present, Recording, DirectoryInv, Members, RowInv, LeaverKnown
<1> QED BY <1>1, <1>2, EnteredStays

(* A row stays current until a leave closes it.                            *)
LEMMA CurrentSteps ==
  ASSUME TypeInv, RowInv, Next, ~Crash, NEW h \in Requests,
         historyRow[h] = "open" \/ pc[h] = "history",
         \A s \in Sockets : CloseRow(s) => exit[s].row # h
  PROVE  (historyRow'[h] = "open" \/ pc'[h] = "history") /\ targetId'[h] = targetId[h]
<1>1. targetId'[h] = targetId[h]
  BY TargetSteps DEF RowInv, RowsOfEntered
<1>2. CASE historyRow[h] = "open"
  BY <1>1, <1>2, RowSteps
<1>3. CASE historyRow[h] # "open" /\ pc[h] = "history"
  <2>1. pc'[h] = "history" \/ RequestMoves(h)
    BY <1>3, HandlerMoves
  <2>2. RequestMoves(h) => RecordHistory(h)
    BY <1>3 DEF RequestMoves, JoinRoom, LearnMaster, CheckBlacklistRows, RefusePassword,
       JoinExistingRoom, StartCreatingRoom, RouterCreated, FetchBlacklist, RegisterRoom,
       CompleteJoin, Admitted
  <2>3. RecordHistory(h) => historyRow'[h] = "open"
    BY DEF RecordHistory, TypeInv, TypeOK
  <2> QED BY <1>1, <2>1, <2>2, <2>3
<1> QED BY <1>2, <1>3

LEMMA RowsStayCovering ==
  ASSUME TypeInv, TypeInv', RegistryInv, DirectoryInv, RowInv, RowInv', RowsCover, Next
  PROVE  RowsCover'
<1> SUFFICES ASSUME NEW id \in RoomIds, NEW u \in Users
             PROVE  Cardinality(Accounted(id, u)') <= Cardinality(CurrentRows(id, u)')
  BY DEF RowsCover
<1> DEFINE A == Accounted(id, u)
           B == CurrentRows(id, u)
<1>0. /\ IsFiniteSet(A) /\ IsFiniteSet(B) /\ IsFiniteSet(A') /\ IsFiniteSet(B')
      /\ Cardinality(A) <= Cardinality(B)
  BY SetsFinite DEF RowsCover
<1>1. CASE Crash
  <2>1. \A q \in Requests : ~Present(q)'
    BY <1>1 DEF Crash, Present
  <2>2. \A s \in Sockets : exit'[s].step \in {"none", "done"}
    BY <1>1 DEF Crash, NoExit, ExitDone
  <2>3. A' = {}
    BY <2>1, <2>2, ConstantsTyped DEF Accounted, Recording
  <2> QED BY <1>0, <2>3, FS_EmptySet, FS_CardinalityType
<1>2. ASSUME NEW q \in Requests, JoinExistingRoom(q) \/ RegisterRoom(q)
      PROVE  Cardinality(A') <= Cardinality(B')
  <2>0. pc[q] \in {"admit", "register"} /\ pc' = [pc EXCEPT ![q] = "history"]
    BY <1>2 DEF JoinExistingRoom, RegisterRoom, Admitted, Goto
  <2>a. pc'[q] = "history" /\ pc' # pc /\ \A p \in Requests \ {q} : pc'[p] = pc[p]
    BY <2>0 DEF TypeInv, TypeOK
  <2>b. ~Crash
    BY <2>0, <2>a DEF Crash
  <2>c. \A p \in Requests \ {q} : ~JoinExistingRoom(p) /\ ~RegisterRoom(p)
    BY <2>a DEF JoinExistingRoom, RegisterRoom, Admitted, Goto, TypeInv, TypeOK
  <2>d. \A s \in Sockets : ~CloseRow(s)
    BY <2>a DEF CloseRow, requestVars
  <2>1. /\ ~Crash /\ pc[q] \in {"admit", "register"} /\ pc'[q] = "history"
        /\ \A p \in Requests \ {q} : ~JoinExistingRoom(p) /\ ~RegisterRoom(p)
        /\ \A s \in Sockets : ~CloseRow(s)
    BY <2>0, <2>a, <2>b, <2>c, <2>d
  <2>2. B \subseteq B'
    BY <2>1, CurrentSteps DEF CurrentRows
  <2>3. A' \subseteq A \cup {q}
    BY <2>1, AccountedSteps DEF Accounted
  <2>4. q \notin B
    BY <2>1 DEF CurrentRows, RowInv, RowsOfEntered
  <2>5. CASE q \in A'
    <3>1. q \in B'
      BY <2>1, <2>5 DEF Accounted, CurrentRows
    <3> QED BY <1>0, <2>2, <2>3, <2>4, <3>1, CoverOfOneMore
  <2>6. CASE q \notin A'
    <3>1. A' \subseteq A
      BY <2>3, <2>6
    <3> QED BY <1>0, <2>2, <3>1, CoverOfMore
  <2> QED BY <2>5, <2>6
<1>3. ASSUME ~Crash, NEW s \in Sockets, CloseRow(s)
      PROVE  Cardinality(A') <= Cardinality(B')
  <2>0. PICK q \in Requests, h \in Requests :
            /\ q = exit[s].peer /\ h = exit[s].row /\ SocketOf[q] = s
            /\ UserOf[h] = UserOf[q] /\ targetId[h] = targetId[q] /\ ~Present(q)
    BY <1>3 DEF CloseRow, RowInv, LeaverKnown, RowKnown
  <2>1. Recording(q)
    BY <1>3, <2>0 DEF CloseRow, Recording
  <2>2. \A t \in Sockets : CloseRow(t) => exit[t].row = h
    <3>1. ASSUME NEW t \in Sockets, CloseRow(t) PROVE t = s
      <4>1. exit' = [exit EXCEPT ![s] = AfterExit(s)] /\ exit' = [exit EXCEPT ![t] = AfterExit(t)]
            /\ exit[s].step = "close" /\ exit[s] \in ExitRecords
        BY <1>3, <3>1 DEF CloseRow, TypeInv, TypeOK
      <4>2. AfterExit(s).step # "close"
        BY <4>1 DEF AfterExit, ExitDone, NoExit, ExitRecords
      <4>3. exit'[s] # exit[s]
        BY <4>1, <4>2 DEF TypeInv, TypeOK
      <4> QED BY <4>1, <4>3 DEF TypeInv, TypeOK
    <3> QED BY <2>0, <3>1
  <2>a. \A p \in Requests : ~JoinExistingRoom(p) /\ ~RegisterRoom(p)
    BY <1>3 DEF CloseRow, JoinExistingRoom, RegisterRoom, Admitted, requestVars, Goto, TypeInv, TypeOK
  <2>b. ~Present(q)'
    BY <2>0, <2>a, PresentBegins
  <2>c. ~Recording(q)'
    <3>1. exit[s] \in ExitRecords /\ exit'[s] = AfterExit(s)
      BY <1>3 DEF CloseRow, TypeInv, TypeOK
    <3>2. AfterExit(s).step \notin {"find", "close"}
      BY <3>1 DEF AfterExit, ExitDone, NoExit, ExitRecords
    <3> QED BY <2>0, <3>1, <3>2 DEF Recording
  <2>3. A' \subseteq A \ {q}
    BY <1>3, <2>a, <2>b, <2>c, AccountedSteps DEF Accounted
  <2>4. B \ {h} \subseteq B'
    BY <1>3, <2>2, CurrentSteps DEF CurrentRows
  <2>5. CASE q \in A
    BY <1>0, <2>3, <2>4, <2>5, CoverOfOneLess
  <2>6. CASE q \notin A
    <3>1. h \notin B
      BY <2>0, <2>1, <2>6 DEF Accounted, CurrentRows
    <3> QED BY <1>0, <2>3, <2>4, <3>1, CoverOfMore
  <2> QED BY <2>5, <2>6
<1>4. CASE /\ ~Crash /\ \A s \in Sockets : ~CloseRow(s)
           /\ \A q \in Requests : ~JoinExistingRoom(q) /\ ~RegisterRoom(q)
  <2>1. A' \subseteq A
    BY <1>4, AccountedSteps DEF Accounted
  <2>2. B \subseteq B'
    BY <1>4, CurrentSteps DEF CurrentRows
  <2> QED BY <1>0, <2>1, <2>2, CoverOfMore
<1> QED BY <1>1, <1>2, <1>3, <1>4

(* No leave ends the record of a user who stays: the rows of a user in a   *)
(* room that are open, or about to be inserted, are always as many as the  *)
(* user's peers there, though a leave closes whichever open row it finds,  *)
(* and two leaves may find the same one.                                   *)
THEOREM StudyRowsCover == Spec => []StudyRowsCoverMembers
<1>1. Init => RowInv /\ RowsCover
  <2> SUFFICES ASSUME Init PROVE RowInv /\ RowsCover
    OBVIOUS
  <2>1. RowInv /\ \A q \in Requests : ~Present(q) /\ ~Recording(q)
    BY ConstantsTyped DEF Init, RowInv, InOneRoom, RowsOfEntered, LeaverKnown, RowKnown, NoExit, Present,
       Recording
  <2>2. ASSUME NEW id \in RoomIds, NEW u \in Users
        PROVE  Cardinality(Accounted(id, u)) <= Cardinality(CurrentRows(id, u))
    <3>1. Accounted(id, u) = {}
      BY <2>1 DEF Accounted
    <3> QED BY <3>1, SetsFinite, FS_EmptySet, FS_CardinalityType
  <2> QED BY <2>1, <2>2 DEF RowsCover
<1>2. TypeInv /\ TypeInv' /\ RegistryInv /\ DirectoryInv /\ RowInv /\ RowsCover /\ [Next]_vars
      => (RowInv /\ RowsCover)'
  <2>1. TypeInv /\ TypeInv' /\ RegistryInv /\ DirectoryInv /\ RowInv /\ RowsCover /\ Next
        => (RowInv /\ RowsCover)'
    BY RowInvKept, RowsStayCovering
  <2>2. RowInv /\ UNCHANGED vars => RowInv'
    BY DEF RowInv, InOneRoom, RowsOfEntered, LeaverKnown, RowKnown, Present, Entered, vars,
       requestVars, registryVars, dbVars
  <2>3. RowsCover /\ UNCHANGED vars => RowsCover'
    BY DEF RowsCover, Accounted, CurrentRows, Present, Recording, vars, requestVars,
       registryVars, dbVars
  <2> QED BY <2>1, <2>2, <2>3
<1>3. ASSUME TypeInv, DirectoryInv, RowsCover
      PROVE  StudyRowsCoverMembers
  <2> SUFFICES ASSUME NEW id \in RoomIds, NEW u \in Users
               PROVE  Cardinality(MembersOf(id, u)) <= Cardinality(CurrentRows(id, u))
    BY DEF StudyRowsCoverMembers
  <2>1. MembersOf(id, u) \subseteq Accounted(id, u)
    BY <1>3 DEF MembersOf, Accounted, Present, DirectoryInv, Members, TypeInv, TypeOK
  <2> QED BY <1>3, <2>1, SetsFinite, CoverOfMore DEF RowsCover
<1> QED BY <1>1, <1>2, <1>3, DirectoryInvariant, PTL DEF Spec
==========================================================================
