----------------------- MODULE RoomDirectoryProofs -----------------------
(***************************************************************************)
(* The server implements the directory of rooms, and what it tells the     *)
(* routing server agrees with its registry.                                *)
(***************************************************************************)
EXTENDS RoomServiceProofs

----------------------------------------------------------------------------
(* Who has entered a room stays where it is.                               *)

LEMMA EnteredStays ==
  ASSUME TypeInv, Next, ~Crash, NEW q \in Requests, Entered(q)
  PROVE  Entered(q)' /\ targetId'[q] = targetId[q]
<1> USE DEF Entered
<1>1. CASE UNCHANGED requestVars
  BY <1>1 DEF requestVars
<1>2. ASSUME NEW p \in Requests, RequestMoves(p)
      PROVE  Entered(q)' /\ targetId'[q] = targetId[q]
  BY <1>2 DEF RequestMoves, JoinRoom, LearnMaster, CheckBlacklistRows, RefusePassword,
     JoinExistingRoom, StartCreatingRoom, RouterCreated, FetchBlacklist, RegisterRoom,
     RecordHistory, CompleteJoin, Admitted, Goto, TypeInv, TypeOK
<1>3. UNCHANGED requestVars \/ \E p \in Requests : RequestMoves(p)
  <2>1. Restart \/ NobodyDeparts => UNCHANGED requestVars
    BY DEF Restart, NobodyDeparts, Stays
  <2>2. ASSUME NEW s \in Sockets, WaitingMoves(s) \/ ExitStep(s) \/ Departs(s)
        PROVE  UNCHANGED requestVars
    BY <2>2 DEF WaitingMoves, Connect, EnterWaitingRoom, JoinWaitingRoom, ExitStep,
       FindOpenRow, CloseRow, AnnounceRemoval, Departs, Stays
  <2>3. ASSUME NEW c \in Commands, CommandMoves(c)
        PROVE  UNCHANGED requestVars
    BY <2>3 DEF CommandMoves, InsertBlock, DeleteBlock, FinishUnblock, BlockUser, UnblockUser
  <2> QED BY <2>1, <2>2, <2>3, StepCases
<1> QED BY <1>1, <1>2, <1>3

(* A Room object is built by RegisterRoom and lost in a crash only.        *)
LEMMA RoomsGrow ==
  ASSUME TypeInv, Next, ~Crash
  PROVE  \/ rooms' = rooms
         \/ \E q \in Requests : RegisterRoom(q) /\ rooms' = rooms \cup {q}
<1>1. Restart \/ NobodyDeparts => rooms' = rooms
  BY DEF Restart, NobodyDeparts, Stays
<1>2. ASSUME NEW s \in Sockets, WaitingMoves(s) \/ ExitStep(s) \/ Departs(s)
      PROVE  rooms' = rooms
  BY <1>2 DEF WaitingMoves, Connect, EnterWaitingRoom, JoinWaitingRoom, ExitStep,
     FindOpenRow, CloseRow, AnnounceRemoval, Departs, Stays
<1>3. ASSUME NEW c \in Commands, CommandMoves(c)
      PROVE  rooms' = rooms
  BY <1>3 DEF CommandMoves, InsertBlock, DeleteBlock, FinishUnblock, BlockUser, UnblockUser
<1>4. ASSUME NEW q \in Requests, RequestMoves(q)
      PROVE  rooms' = rooms \/ (RegisterRoom(q) /\ rooms' = rooms \cup {q})
  BY <1>4 DEF RequestMoves, JoinRoom, LearnMaster, CheckBlacklistRows, RefusePassword,
     JoinExistingRoom, StartCreatingRoom, RouterCreated, FetchBlacklist, RegisterRoom,
     RecordHistory, CompleteJoin
<1> QED BY <1>1, <1>2, <1>3, <1>4, StepCases

----------------------------------------------------------------------------
(* Who is in a Room has entered it, under the id of the Room.              *)
Members ==
    \A r \in Requests : \A q \in peers[r] :
        r \in rooms /\ Entered(q) /\ targetId[q] = targetId[r]

LEMMA MembersKept ==
  ASSUME TypeInv, RegistryInv, Members, Next
  PROVE  Members'
<1>1. CASE Crash
  BY <1>1 DEF Crash, Members
<1>2. CASE ~Crash
  <2>1. rooms \subseteq rooms'
    BY <1>2, RoomsGrow
  <2>2. ASSUME NEW r \in Requests, NEW q \in peers[r]
        PROVE  r \in rooms' /\ Entered(q)' /\ targetId'[q] = targetId'[r]
    <3>1. q \in Requests /\ r \in rooms /\ Entered(q) /\ Entered(r) /\ targetId[q] = targetId[r]
      BY DEF Members, TypeInv, TypeOK, KnowsTarget
    <3> QED BY <1>2, <2>1, <3>1, EnteredStays
  <2>3. CASE \A r \in Requests : peers'[r] \subseteq peers[r]
    BY <2>2, <2>3 DEF Members
  <2>4. ASSUME NEW p \in Requests, JoinExistingRoom(p)
        PROVE  Members'
    <3> DEFINE id == roomIdToJoin[SocketOf[p]]
               r == roomById[id]
    <3>1. id \in RoomIds /\ r \in Requests /\ r \in rooms /\ targetId[r] = id /\ p # r
      BY <2>4, NoneIsFresh DEF JoinExistingRoom, Admitted, TypeInv, TypeOK, KnowsTarget, InFlight,
         AwaitStages, RegistryInv, RegisteredRoomLives, Entered
    <3>2. /\ peers' = [peers EXCEPT ![r] = @ \cup {p}]
          /\ targetId'[p] = id /\ targetId'[r] = id /\ Entered(p)'
      BY <2>4, <3>1 DEF JoinExistingRoom, Goto, Entered, TypeInv, TypeOK
    <3> QED BY <2>1, <2>2, <3>1, <3>2 DEF Members, TypeInv, TypeOK
  <2>5. ASSUME NEW p \in Requests, RegisterRoom(p)
        PROVE  Members'
    <3>1. p \in rooms' /\ Entered(p)' /\ peers' = [peers EXCEPT ![p] = {p}]
      BY <2>5 DEF RegisterRoom, Goto, Entered, TypeInv, TypeOK
    <3> QED BY <2>2, <3>1 DEF Members, TypeInv, TypeOK
  <2>6. ASSUME NEW s \in Sockets, Departs(s), FindRoomBySocketId(s) # None
        PROVE  \A r \in Requests : peers'[r] \subseteq peers[r]
    BY <2>6, RoomFound DEF Departs, Disconnect, LeaveRoom, TypeInv, TypeOK
  <2> QED BY <1>2, <2>3, <2>4, <2>5, <2>6, PeersGrow DEF registryVars
<1> QED BY <1>1, <1>2

----------------------------------------------------------------------------
(* The handler of a disconnect begins when its socket closes, and knows a  *)
(* peer that had entered.                                                  *)
Leaver(s) ==
    /\ connection[s] # "closed" => exit[s] = NoExit
    /\ exit[s].step = "announce" => exit[s].removed
    /\ exit[s].removed => /\ exit[s].step \in {"find", "close", "announce"}
                          /\ exit[s].peer \in Requests /\ Entered(exit[s].peer)
Leavers == \A s \in Sockets : Leaver(s)

LEMMA LeaverFrame ==
  ASSUME TypeInv, Next, ~Crash, NEW s \in Sockets, Leaver(s), exit'[s] = exit[s],
         connection'[s] = "closed" \/ connection'[s] = connection[s] \/ exit[s] = NoExit
  PROVE  Leaver(s)'
<1>1. exit[s].removed => Entered(exit[s].peer)'
  BY EnteredStays DEF Leaver
<1> QED BY <1>1 DEF Leaver, NoExit

(* Closing the socket of a peer that is in a room: the peer leaves it, and *)
(* the last one takes the room along.                                      *)
LEMMA Departure ==
  ASSUME TypeInv, RegistryInv, NEW s \in Sockets, Departs(s), FindRoomBySocketId(s) # None
  PROVE  \E q \in Requests, r \in Requests :
            /\ r = FindRoomBySocketId(s) /\ q \in peers[r] /\ SocketOf[q] = s
            /\ targetId[r] = roomIdBySocketId[s] /\ targetId[r] \in RoomIds
            /\ roomById[targetId[r]] = r
            /\ peers' = [peers EXCEPT ![r] = @ \ {q}]
            /\ exit' = [exit EXCEPT ![s] = [step |-> "find", peer |-> q,
                            removed |-> peers[r] = {q}, row |-> None]]
            /\ roomById' = IF peers[r] = {q}
                           THEN [roomById EXCEPT ![targetId[r]] = None] ELSE roomById
<1> DEFINE r == FindRoomBySocketId(s)
<1>1. /\ r \in Requests /\ roomIdBySocketId[s] \in RoomIds
      /\ r = roomById[roomIdBySocketId[s]] /\ targetId[r] = roomIdBySocketId[s]
  BY RoomFound DEF TypeInv, RegistryInv, RegisteredRoomLives
<1>2. PICK q \in PeersOn(r, s) :
          /\ peers' = [peers EXCEPT ![r] = @ \ {q}]
          /\ roomById' = IF EmptiesRoom(r, q)
                         THEN [roomById EXCEPT ![targetId[r]] = None] ELSE roomById
          /\ exit' = [exit EXCEPT ![s] = [step |-> "find", peer |-> q,
                                          removed |-> EmptiesRoom(r, q), row |-> None]]
  BY DEF Departs, Disconnect, LeaveRoom
<1>3. q \in Requests /\ q \in peers[r] /\ SocketOf[q] = s
  BY <1>1, <1>2 DEF PeersOn, TypeInv, TypeOK
<1> QED BY <1>1, <1>2, <1>3 DEF EmptiesRoom

LEMMA LeaversKept ==
  ASSUME TypeInv, RegistryInv, Members, Leavers, Next
  PROVE  Leavers'
<1> SUFFICES ASSUME NEW t \in Sockets PROVE Leaver(t)'
  BY DEF Leavers
<1>0. Leaver(t) /\ connection[t] \in {"new", "open", "closed"}
  BY DEF Leavers, TypeInv, TypeOK
<1>1. CASE Crash
  BY <1>0, <1>1 DEF Crash, Leaver, NoExit, ExitDone
<1>2. CASE ~Crash /\ UNCHANGED <<connection, exit>>
  BY <1>0, <1>2, LeaverFrame
<1>3. ASSUME ~Crash, NEW s \in Sockets, WaitingMoves(s)
      PROVE  Leaver(t)'
  <2>1. exit' = exit /\ (connection'[t] = connection[t] \/ connection[t] # "closed")
    BY <1>3 DEF WaitingMoves, Connect, EnterWaitingRoom, JoinWaitingRoom, TypeInv, TypeOK
  <2> QED BY <1>0, <1>3, <2>1, LeaverFrame DEF Leaver
<1>4. ASSUME ~Crash, NEW s \in Sockets, ExitStep(s)
      PROVE  Leaver(t)'
  <2>1. connection' = connection /\ requestVars' = requestVars
    BY <1>4 DEF ExitStep, FindOpenRow, CloseRow, AnnounceRemoval, socketVars
  <2>2. CASE s # t
    <3>1. exit'[t] = exit[t]
      BY <1>4, <2>2 DEF ExitStep, FindOpenRow, CloseRow, AnnounceRemoval, TypeInv, TypeOK
    <3> QED BY <1>0, <1>4, <2>1, <3>1, LeaverFrame
  <2>3. CASE s = t
    <3>0. exit[t].step \in {"find", "close", "announce"}
      BY <1>4, <2>3 DEF ExitStep, FindOpenRow, CloseRow, AnnounceRemoval
    <3>1. exit[t] # NoExit /\ exit[t] \in ExitRecords
      BY <3>0 DEF NoExit, TypeInv, TypeOK
    <3>2. \/ exit'[t] = AfterExit(t)
          \/ \E h \in Requests : exit'[t] = [exit[t] EXCEPT !.step = "close", !.row = h]
          \/ exit'[t] = ExitDone
      BY <1>4, <2>3 DEF ExitStep, FindOpenRow, CloseRow, AnnounceRemoval, OpenRows, TypeInv, TypeOK
    <3>3. exit'[t].removed => exit[t].removed /\ exit'[t].peer = exit[t].peer
      BY <3>1, <3>2 DEF AfterExit, ExitDone, NoExit, ExitRecords
    <3>4. /\ exit'[t].step = "announce" => exit'[t].removed
          /\ exit'[t].removed => exit'[t].step \in {"find", "close", "announce"}
      BY <3>1, <3>2 DEF AfterExit, ExitDone, NoExit, ExitRecords
    <3> QED BY <1>0, <2>1, <3>1, <3>3, <3>4 DEF Leaver, requestVars, Entered
  <2> QED BY <2>2, <2>3
<1>5. ASSUME ~Crash, NEW s \in Sockets, Departs(s)
      PROVE  Leaver(t)'
  <2>1. connection' = [connection EXCEPT ![s] = "closed"] /\ requestVars' = requestVars
    BY <1>5 DEF Departs, Disconnect, Stays
  <2>2. CASE FindRoomBySocketId(s) = None
    <3>1. exit' = exit
      BY <1>5, <2>2 DEF Departs, Disconnect
    <3> QED BY <1>0, <1>5, <2>1, <3>1, LeaverFrame DEF TypeInv, TypeOK
  <2>3. CASE FindRoomBySocketId(s) # None
    <3>1. PICK q \in Requests, r \in Requests :
            /\ q \in peers[r]
            /\ exit' = [exit EXCEPT ![s] = [step |-> "find", peer |-> q,
                            removed |-> peers[r] = {q}, row |-> None]]
      BY <1>5, <2>3, Departure
    <3>2. CASE t = s
      <4>1. exit'[t] = [step |-> "find", peer |-> q, removed |-> peers[r] = {q}, row |-> None]
        BY <3>1, <3>2 DEF TypeInv, TypeOK
      <4>2. Entered(q)' /\ connection'[t] = "closed"
        BY <2>1, <3>1, <3>2 DEF Members, Entered, requestVars, TypeInv, TypeOK
      <4> QED BY <4>1, <4>2 DEF Leaver
    <3>3. CASE t # s
      BY <1>0, <1>5, <2>1, <3>1, <3>3, LeaverFrame DEF TypeInv, TypeOK
    <3> QED BY <3>2, <3>3
  <2> QED BY <2>2, <2>3
<1>6. ASSUME NEW c \in Commands, CommandMoves(c)
      PROVE  UNCHANGED <<connection, exit>>
  BY <1>6 DEF CommandMoves, InsertBlock, DeleteBlock, FinishUnblock, BlockUser, UnblockUser,
     socketVars
<1>7. ASSUME NEW q \in Requests, RequestMoves(q)
      PROVE  UNCHANGED <<connection, exit>>
  BY <1>7 DEF RequestMoves, JoinRoom, LearnMaster, CheckBlacklistRows, RefusePassword,
     JoinExistingRoom, StartCreatingRoom, RouterCreated, FetchBlacklist, RegisterRoom,
     RecordHistory, CompleteJoin, socketVars
<1>8. Restart \/ NobodyDeparts => UNCHANGED <<connection, exit>>
  BY DEF Restart, NobodyDeparts, socketVars
<1> QED BY <1>1, <1>2, <1>3, <1>4, <1>5, <1>6, <1>7, <1>8, StepCases

----------------------------------------------------------------------------
(* A process that has ended has no rooms and owes nothing.                 *)
DeadIsEmpty == ~alive => rooms = {} /\ \A s \in Sockets : ~exit[s].removed

DirectoryInv == Members /\ Leavers /\ DeadIsEmpty

LEMMA AliveSteps ==
  ASSUME TypeInv, Next, ~alive, ~Crash
  PROVE  Restart \/ (NobodyDeparts /\ alive' = alive)
<1>1. ASSUME NEW q \in Requests PROVE ~RequestMoves(q)
  BY DEF RequestMoves, JoinRoom, LearnMaster, CheckBlacklistRows, RefusePassword,
     JoinExistingRoom, StartCreatingRoom, RouterCreated, FetchBlacklist, RegisterRoom,
     RecordHistory, CompleteJoin, Serves, Admitted
<1>2. ASSUME NEW s \in Sockets PROVE ~WaitingMoves(s) /\ ~ExitStep(s) /\ ~Departs(s)
  BY DEF WaitingMoves, Connect, EnterWaitingRoom, JoinWaitingRoom, ExitStep, FindOpenRow,
     CloseRow, AnnounceRemoval, Departs, Serves
<1>3. ASSUME NEW c \in Commands PROVE ~CommandMoves(c)
  BY DEF CommandMoves, InsertBlock, DeleteBlock, FinishUnblock, BlockUser, UnblockUser,
     CanModerate, Serves
<1>4. NobodyDeparts => alive' = alive
  BY DEF NobodyDeparts, Stays, processVars
<1> QED BY <1>1, <1>2, <1>3, <1>4, StepCases

LEMMA AliveEnds ==
  ASSUME TypeInv, Next, alive, ~Crash
  PROVE  alive'
<1>1. ASSUME NEW q \in Requests, RequestMoves(q) PROVE alive' = alive
  BY <1>1 DEF RequestMoves, JoinRoom, LearnMaster, CheckBlacklistRows, RefusePassword,
     JoinExistingRoom, StartCreatingRoom, RouterCreated, FetchBlacklist, RegisterRoom,
     RecordHistory, CompleteJoin, processVars
<1>2. ASSUME NEW s \in Sockets, WaitingMoves(s) \/ ExitStep(s) \/ Departs(s)
      PROVE  alive' = alive
  BY <1>2 DEF WaitingMoves, Connect, EnterWaitingRoom, JoinWaitingRoom, ExitStep, FindOpenRow,
     CloseRow, AnnounceRemoval, Departs, Stays, processVars
<1>3. ASSUME NEW c \in Commands, CommandMoves(c) PROVE alive' = alive
  BY <1>3 DEF CommandMoves, InsertBlock, DeleteBlock, FinishUnblock, BlockUser, UnblockUser,
     processVars
<1>4. NobodyDeparts \/ Restart => alive'
  BY DEF NobodyDeparts, Stays, Restart, processVars
<1> QED BY <1>1, <1>2, <1>3, <1>4, StepCases

LEMMA DeadStaysEmpty ==
  ASSUME TypeInv, DeadIsEmpty, Leavers, Next
  PROVE  DeadIsEmpty'
<1>1. CASE Crash
  BY <1>1 DEF Crash, DeadIsEmpty, NoExit, ExitDone
<1>2. CASE ~Crash /\ ~alive
  BY <1>2, AliveSteps DEF DeadIsEmpty, Restart, NobodyDeparts, Stays
<1>3. CASE ~Crash /\ alive
  BY <1>3, AliveEnds DEF DeadIsEmpty
<1> QED BY <1>1, <1>2, <1>3

LEMMA DirectoryInvariant == Spec => [](TypeInv /\ RegistryInv /\ DirectoryInv)
<1>1. Init => DirectoryInv
  BY DEF Init, DirectoryInv, Members, Leavers, Leaver, DeadIsEmpty, NoExit
<1>2. TypeInv /\ RegistryInv /\ DirectoryInv /\ [Next]_vars => DirectoryInv'
  <2>1. TypeInv /\ RegistryInv /\ DirectoryInv /\ Next => DirectoryInv'
    BY MembersKept, LeaversKept, DeadStaysEmpty DEF DirectoryInv
  <2>2. DirectoryInv /\ UNCHANGED vars => DirectoryInv'
    BY DEF DirectoryInv, Members, Leavers, Leaver, DeadIsEmpty, Entered, vars, processVars,
       socketVars, requestVars, registryVars
  <2> QED BY <2>1, <2>2
<1> QED BY <1>1, <1>2, InitTyped, NextTyped, InitRegistry, NextKeepsRegistry, PTL DEF Spec

----------------------------------------------------------------------------
(* Every step is a step of the directory or leaves it as it is.            *)

Registered == {id \in RoomIds : roomById[id] # None}
OwesCreation(q) == q \in rooms /\ pc[q] \in {"history", "recorded"}
Creation(q) == [by |-> q, about |-> "created", room |-> targetId[q]]
Removal(s) == [by |-> s, about |-> "removed", room |-> targetId[exit[s].peer]]

LEMMA OwedElements ==
  ASSUME TypeInv, NEW m
  PROVE  m \in Owed <=> \/ \E q \in Requests : OwesCreation(q) /\ m = Creation(q)
                       \/ \E s \in Sockets : exit[s].removed /\ m = Removal(s)
<1>1. rooms \subseteq Requests
  BY DEF TypeInv, TypeOK
<1> QED BY <1>1 DEF Owed, OwesCreation, Creation, Removal

LEMMA OwedElementsAfter ==
  ASSUME TypeInv', NEW m
  PROVE  m \in Owed' <=> \/ \E q \in Requests : OwesCreation(q)' /\ m = Creation(q)'
                        \/ \E s \in Sockets : exit'[s].removed /\ m = Removal(s)'
<1>1. rooms' \subseteq Requests
  BY DEF TypeInv, TypeOK
<1> QED BY <1>1 DEF Owed, OwesCreation, Creation, Removal

(* Steps that touch neither the registry nor a debt.                       *)
LEMMA QuietStep ==
  ASSUME TypeInv, TypeInv', UNCHANGED <<alive, roomById, running>>,
         \A q \in Requests : OwesCreation(q)' <=> OwesCreation(q),
         \A q \in Requests : OwesCreation(q) => targetId'[q] = targetId[q],
         \A s \in Sockets : exit'[s].removed <=> exit[s].removed,
         \A s \in Sockets : exit[s].removed =>
            targetId'[exit'[s].peer] = targetId[exit[s].peer]
  PROVE  UNCHANGED Directory!directoryVars
<1>1. ASSUME NEW m PROVE m \in Owed' <=> m \in Owed
  BY OwedElements, OwedElementsAfter DEF Creation, Removal
<1>2. Owed' = Owed
  BY <1>1, Zenon
<1> QED BY <1>2 DEF Directory!directoryVars

(* Steps that leave everybody who owes an announcement where it is.        *)
LEMMA DebtsStay ==
  ASSUME TypeInv, TypeInv', DirectoryInv, Next, ~Crash, NEW s \in Sockets, exit[s].removed,
         exit'[s].peer = exit[s].peer
  PROVE  targetId'[exit'[s].peer] = targetId[exit[s].peer]
<1>1. exit[s].peer \in Requests /\ Entered(exit[s].peer)
  BY DEF DirectoryInv, Leavers, Leaver
<1> QED BY <1>1, EnteredStays

LEMMA OpensRoom ==
  ASSUME TypeInv, TypeInv', DirectoryInv, Next, ~Crash, NEW q \in Requests, RegisterRoom(q)
  PROVE  \E id \in RoomIds : Directory!Open(q, id)
<1>1. q \notin rooms /\ targetId[q] \in RoomIds /\ q # None
  BY NoneIsFresh DEF TypeInv, KnowsTarget, RegisterRoom, Entered, InFlight, AwaitStages
<1>2. /\ alive /\ alive' = alive /\ running' = running /\ targetId' = targetId /\ exit' = exit
      /\ roomById' = [roomById EXCEPT ![targetId[q]] = q]
      /\ rooms' = rooms \cup {q} /\ pc' = [pc EXCEPT ![q] = "history"]
  BY DEF RegisterRoom, Goto, processVars
<1>3. Registered' = Registered \cup {targetId[q]}
  BY <1>1, <1>2 DEF Registered, TypeInv, TypeOK
<1>4. \A x \in Requests : OwesCreation(x)' <=> OwesCreation(x) \/ x = q
  BY <1>1, <1>2 DEF OwesCreation, TypeInv, TypeOK
<1>5. ASSUME NEW m PROVE m \in Owed' <=> m \in Owed \cup {Creation(q)}
  BY <1>2, <1>4, OwedElements, OwedElementsAfter DEF Creation, Removal
<1>6. Owed' = Owed \cup {Creation(q)}
  BY <1>5, Zenon
<1>7. PICK id \in RoomIds : id = targetId[q]
  BY <1>1
<1>8. Directory!Open(q, id)
  BY <1>2, <1>3, <1>6, <1>7 DEF Directory!Open, Directory!Owes, Registered, Creation
<1> QED BY <1>8

LEMMA AnnouncesCreation ==
  ASSUME TypeInv, TypeInv', NEW q \in Requests, CompleteJoin(q), q \in rooms
  PROVE  \E m \in Owed : Directory!Announce(m)
<1>1. /\ alive /\ alive' = alive /\ targetId' = targetId /\ exit' = exit /\ rooms' = rooms
      /\ roomById' = roomById /\ pc[q] = "recorded" /\ pc' = [pc EXCEPT ![q] = "joined"]
      /\ running' = running \cup {targetId[q]}
  BY DEF CompleteJoin, Goto, processVars, registryVars
<1>2. \A x \in Requests : OwesCreation(x)' <=> OwesCreation(x) /\ x # q
  BY <1>1 DEF OwesCreation, TypeInv, TypeOK
<1>3. ASSUME NEW m PROVE m \in Owed' <=> m \in Owed \ {Creation(q)}
  BY <1>1, <1>2, OwedElements, OwedElementsAfter DEF Creation, Removal
<1>4. Owed' = Owed \ {Creation(q)}
  BY <1>3, Zenon
<1>5. Creation(q) \in Owed
  BY <1>1, OwedElements DEF OwesCreation
<1>6. PICK m \in Owed : m = Creation(q)
  BY <1>5
<1>7. Directory!Announce(m)
  BY <1>1, <1>4, <1>6 DEF Directory!Announce, Creation
<1> QED BY <1>7

LEMMA AnnouncesRemoval ==
  ASSUME TypeInv, TypeInv', DirectoryInv, NEW s \in Sockets, AnnounceRemoval(s)
  PROVE  \E m \in Owed : Directory!Announce(m)
<1>1. /\ alive /\ alive' = alive /\ UNCHANGED <<targetId, pc, rooms, roomById>>
      /\ exit' = [exit EXCEPT ![s] = ExitDone] /\ exit[s].step = "announce"
      /\ running' = running \ {targetId[exit[s].peer]}
  BY DEF AnnounceRemoval, processVars, registryVars, requestVars
<1>2. exit[s].removed
  BY <1>1 DEF DirectoryInv, Leavers, Leaver
<1>3. /\ \A x \in Sockets : exit'[x].removed <=> exit[x].removed /\ x # s
      /\ \A x \in Sockets \ {s} : exit'[x] = exit[x]
  BY <1>1 DEF ExitDone, NoExit, TypeInv, TypeOK
<1>4. ASSUME NEW m PROVE m \in Owed' <=> m \in Owed \ {Removal(s)}
  BY <1>1, <1>3, OwedElements, OwedElementsAfter DEF Creation, Removal, OwesCreation
<1>5. Owed' = Owed \ {Removal(s)}
  BY <1>4, Zenon
<1>6. Removal(s) \in Owed
  BY <1>2, OwedElements
<1>7. PICK m \in Owed : m = Removal(s)
  BY <1>6
<1>8. Directory!Announce(m)
  BY <1>1, <1>5, <1>7 DEF Directory!Announce, Removal
<1> QED BY <1>8

LEMMA ClosesRoom ==
  ASSUME TypeInv, TypeInv', RegistryInv, DirectoryInv, NEW s \in Sockets, Departs(s)
  PROVE  \/ UNCHANGED Directory!directoryVars
         \/ \E id \in RoomIds : Directory!Close(s, id)
<1>1. /\ alive /\ alive' = alive /\ UNCHANGED <<targetId, pc, rooms, running>>
      /\ connection[s] = "open"
  BY DEF Departs, Stays, processVars, requestVars
<1>2. CASE FindRoomBySocketId(s) = None
  BY <1>1, <1>2, QuietStep DEF Departs, Disconnect, registryVars, OwesCreation
<1>3. CASE FindRoomBySocketId(s) # None
  <2>1. PICK q \in Requests, r \in Requests :
            /\ q \in peers[r]
            /\ targetId[r] \in RoomIds /\ roomById[targetId[r]] = r
            /\ exit' = [exit EXCEPT ![s] = [step |-> "find", peer |-> q,
                            removed |-> peers[r] = {q}, row |-> None]]
            /\ roomById' = IF peers[r] = {q}
                           THEN [roomById EXCEPT ![targetId[r]] = None] ELSE roomById
    BY <1>3, Departure
  <2>2. targetId[q] = targetId[r] /\ r # None
    BY <2>1, NoneIsFresh DEF DirectoryInv, Members
  <2>3. ~exit[s].removed
    BY <1>1 DEF DirectoryInv, Leavers, Leaver, NoExit
  <2>4. /\ \A x \in Sockets \ {s} : exit'[x] = exit[x]
        /\ exit'[s].peer = q /\ (exit'[s].removed <=> peers[r] = {q})
    BY <2>1 DEF TypeInv, TypeOK
  <2>5. CASE peers[r] # {q}
    BY <1>1, <2>1, <2>3, <2>4, <2>5, QuietStep DEF OwesCreation
  <2>6. CASE peers[r] = {q}
    <3>0. PICK id \in RoomIds : id = targetId[r]
      BY <2>1
    <3> DEFINE removal == [by |-> s, about |-> "removed", room |-> id]
    <3>1. Removal(s)' = removal
      BY <1>1, <2>2, <2>4, <3>0 DEF Removal
    <3>2. ASSUME NEW m PROVE m \in Owed' <=> m \in Owed \cup {removal}
      BY <1>1, <2>3, <2>4, <2>6, <3>1, OwedElements, OwedElementsAfter
         DEF Creation, Removal, OwesCreation
    <3>3. Owed' = Owed \cup {removal}
      BY <3>2, Zenon
    <3>4. Registered' = Registered \ {id} /\ id \in Registered
      BY <2>1, <2>2, <2>6, <3>0 DEF Registered, TypeInv, TypeOK
    <3>5. Directory!Close(s, id)
      BY <1>1, <3>3, <3>4 DEF Directory!Close, Directory!Owes, Registered
    <3> QED BY <3>5
  <2> QED BY <2>5, <2>6
<1> QED BY <1>2, <1>3

LEMMA NoRegistered ==
  ASSUME TypeInv, rooms = {}, \A s \in Sockets : ~exit[s].removed
  PROVE  Owed = {}
  BY OwedElements DEF OwesCreation

LEMMA StopsOrDead ==
  ASSUME TypeInv, TypeInv', RegistryInv, DirectoryInv, Crash
  PROVE  Directory!Stop \/ UNCHANGED Directory!directoryVars
<1>1. /\ ~alive' /\ running' = running /\ rooms' = {}
      /\ \A id \in RoomIds : roomById'[id] = None
      /\ \A s \in Sockets : ~exit'[s].removed
  BY DEF Crash, NoExit, ExitDone
<1>2. Registered' = {} /\ Owed' = {}
  <2>1. \A m : m \notin Owed'
    BY <1>1, OwedElementsAfter DEF OwesCreation
  <2> QED BY <1>1, <2>1 DEF Registered
<1>3. CASE alive
  BY <1>1, <1>2, <1>3 DEF Directory!Stop, Registered
<1>4. CASE ~alive
  <2>1. Registered = {} /\ Owed = {}
    BY <1>4, NoRegistered
       DEF DirectoryInv, DeadIsEmpty, RegistryInv, RegisteredRoomLives, Registered
  <2> QED BY <1>1, <1>2, <1>4, <2>1 DEF Directory!directoryVars, Registered, TypeInv, TypeOK
<1> QED BY <1>3, <1>4

LEMMA StartsAgain ==
  ASSUME TypeInv, TypeInv', Restart
  PROVE  Directory!StartAgain
<1>1. /\ ~alive /\ alive' = TRUE /\ running' = {}
      /\ UNCHANGED <<roomById, rooms, exit, pc, targetId>>
  BY DEF Restart, registryVars, requestVars
<1>2. Owed' = Owed
  BY <1>1 DEF Owed
<1> QED BY <1>1, <1>2 DEF Directory!StartAgain

LEMMA DirectorySteps ==
  ASSUME TypeInv, TypeInv', RegistryInv, DirectoryInv, Next
  PROVE  [Directory!DirectoryNext]_Directory!directoryVars
<1> USE DEF Directory!DirectoryNext
<1>1. CASE Crash
  BY <1>1, StopsOrDead
<1>2. CASE Restart
  BY <1>2, StartsAgain
<1>3. ASSUME NEW s \in Sockets, Departs(s)
      PROVE  [Directory!DirectoryNext]_Directory!directoryVars
  BY <1>3, ClosesRoom
<1>4. ASSUME ~Crash, NEW q \in Requests, RequestMoves(q)
      PROVE  [Directory!DirectoryNext]_Directory!directoryVars
  <2>1. CASE RegisterRoom(q)
    BY <1>4, <2>1, OpensRoom
  <2>2. CASE CompleteJoin(q) /\ q \in rooms
    BY <2>2, AnnouncesCreation
  <2>3. CASE ~RegisterRoom(q) /\ ~(CompleteJoin(q) /\ q \in rooms)
    <3>1. /\ UNCHANGED <<alive, roomById, running, rooms, exit>>
          /\ \A x \in Requests \ {q} : pc'[x] = pc[x] /\ targetId'[x] = targetId[x]
      BY <1>4, <2>3 DEF RequestMoves, JoinRoom, LearnMaster, CheckBlacklistRows,
         RefusePassword, JoinExistingRoom, StartCreatingRoom, RouterCreated, FetchBlacklist,
         RecordHistory, CompleteJoin, Goto, processVars, registryVars, TypeInv, TypeOK
    <3>2. q \in rooms => RecordHistory(q)
      BY <1>4, <2>3 DEF RequestMoves, JoinRoom, LearnMaster, CheckBlacklistRows,
         RefusePassword, JoinExistingRoom, StartCreatingRoom, RouterCreated, FetchBlacklist,
         Admitted, TypeInv, KnowsTarget, Entered
    <3>3. RecordHistory(q) =>
            /\ pc[q] = "history" /\ pc'[q] = "recorded" /\ targetId' = targetId
      BY DEF RecordHistory, Goto, TypeInv, TypeOK
    <3>4. \A x \in Requests : /\ OwesCreation(x)' <=> OwesCreation(x)
                              /\ OwesCreation(x) => targetId'[x] = targetId[x]
      BY <3>1, <3>2, <3>3 DEF OwesCreation
    <3> QED BY <1>4, <3>1, <3>4, QuietStep, DebtsStay
  <2> QED BY <2>1, <2>2, <2>3
<1>5. ASSUME NEW s \in Sockets, ExitStep(s)
      PROVE  [Directory!DirectoryNext]_Directory!directoryVars
  <2>1. CASE AnnounceRemoval(s)
    BY <2>1, AnnouncesRemoval
  <2>2. CASE FindOpenRow(s) \/ CloseRow(s)
    <3>1. /\ UNCHANGED <<alive, roomById, running, rooms, requestVars>>
          /\ exit[s].step \in {"find", "close"} /\ exit[s] \in ExitRecords
          /\ \A x \in Sockets \ {s} : exit'[x] = exit[x]
      BY <2>2 DEF FindOpenRow, CloseRow, processVars, registryVars, requestVars,
         TypeInv, TypeOK
    <3>2. \/ exit'[s] = AfterExit(s)
          \/ \E h \in Requests : exit'[s] = [exit[s] EXCEPT !.step = "close", !.row = h]
      BY <2>2 DEF FindOpenRow, CloseRow, OpenRows, TypeInv, TypeOK
    <3>3. /\ exit'[s].removed <=> exit[s].removed
          /\ exit[s].removed => exit'[s].peer = exit[s].peer
      BY <3>1, <3>2 DEF AfterExit, ExitDone, NoExit, ExitRecords
    <3> QED BY <3>1, <3>3, QuietStep DEF OwesCreation, requestVars
  <2> QED BY <1>5, <2>1, <2>2 DEF ExitStep
<1>6. CASE NobodyDeparts \/ \E s \in Sockets : WaitingMoves(s)
  <2>1. UNCHANGED <<alive, roomById, running, rooms, exit, requestVars>>
    BY <1>6 DEF NobodyDeparts, Stays, WaitingMoves, Connect, EnterWaitingRoom,
       JoinWaitingRoom, processVars, registryVars, requestVars
  <2> QED BY <2>1, QuietStep DEF OwesCreation, requestVars
<1>7. CASE \E c \in Commands : CommandMoves(c)
  <2>1. UNCHANGED <<alive, roomById, running, rooms, exit, requestVars>>
    BY <1>7 DEF CommandMoves, InsertBlock, DeleteBlock, FinishUnblock, BlockUser, UnblockUser,
       processVars, registryVars, requestVars
  <2> QED BY <2>1, QuietStep DEF OwesCreation, requestVars
<1> QED BY <1>1, <1>2, <1>3, <1>4, <1>5, <1>6, <1>7, StepCases

(* The server implements RoomDirectory: every interleaving of creations,   *)
(* departures, kicks, blocks and crashes is, to the routing server, a room *)
(* opened or closed by one handler and announced by it once.               *)
THEOREM ServerImplementsDirectory == Spec => ImplementsDirectory
<1>1. Init => Directory!DirectoryInit
  BY DEF Init, Directory!DirectoryInit, Owed, NoExit
<1>2. TypeInv /\ TypeInv' /\ RegistryInv /\ DirectoryInv /\ [Next]_vars
      => [Directory!DirectoryNext]_Directory!directoryVars
  <2>1. UNCHANGED vars => UNCHANGED Directory!directoryVars
    BY DEF vars, processVars, requestVars, registryVars, Directory!directoryVars, Owed
  <2> QED BY <2>1, DirectorySteps
<1> QED BY <1>1, <1>2, DirectoryInvariant, PTL
        DEF Spec, ImplementsDirectory, Directory!DirectorySpec

----------------------------------------------------------------------------
(* What the routing server has been told.  A room that is owed a creation  *)
(* only is registered, one that is owed a removal only is not, and one     *)
(* that is owed nothing has been announced as it is.                       *)
OwedOf(about, id) == \E m \in Owed : m.about = about /\ m.room = id

ToldRight(id) ==
    /\ OwedOf("created", id) => id \in Registered
    /\ OwedOf("removed", id) => id \notin Registered
    /\ ~OwedOf("created", id) /\ ~OwedOf("removed", id) =>
          (id \in running <=> id \in Registered)

ToldInv == alive => \A id \in RoomIds \ contested : ToldRight(id)

LEMMA OwedHandlers ==
  ASSUME TypeInv, NEW id \in RoomIds
  PROVE  /\ OwedOf("created", id) <=> Creating(id) # {}
         /\ OwedOf("removed", id) <=> Removing(id) # {}
<1>1. ASSUME NEW m \in Owed
      PROVE  /\ m.about = "created" => \E q \in Requests : OwesCreation(q) /\ m = Creation(q)
             /\ m.about = "removed" => \E s \in Sockets : exit[s].removed /\ m = Removal(s)
  BY OwedElements DEF Creation, Removal
<1>2. ASSUME NEW q \in Requests, OwesCreation(q)
      PROVE  Creation(q) \in Owed
  BY <1>2, OwedElements
<1>3. ASSUME NEW s \in Sockets, exit[s].removed
      PROVE  Removal(s) \in Owed
  BY <1>3, OwedElements
<1>4. OwedOf("created", id) <=> Creating(id) # {}
  <2>1. rooms \subseteq Requests
    BY DEF TypeInv, TypeOK
  <2>2. \A q \in Requests : Creation(q).about = "created" /\ Creation(q).room = targetId[q]
    BY DEF Creation
  <2> QED BY <1>1, <1>2, <2>1, <2>2 DEF OwedOf, Creating, OwesCreation
<1>5. OwedOf("removed", id) <=> Removing(id) # {}
  <2>1. \A s \in Sockets : /\ Removal(s).about = "removed"
                           /\ Removal(s).room = targetId[exit[s].peer]
    BY DEF Removal
  <2> QED BY <1>1, <1>3, <2>1 DEF OwedOf, Removing
<1> QED BY <1>4, <1>5

LEMMA OwedHandlersAfter ==
  ASSUME TypeInv', NEW id \in RoomIds
  PROVE  /\ OwedOf("created", id)' <=> Creating(id)' # {}
         /\ OwedOf("removed", id)' <=> Removing(id)' # {}
<1>1. ASSUME NEW m \in Owed'
      PROVE  /\ m.about = "created" => \E q \in Requests : OwesCreation(q)' /\ m = Creation(q)'
             /\ m.about = "removed" => \E s \in Sockets : exit'[s].removed /\ m = Removal(s)'
  BY OwedElementsAfter DEF Creation, Removal
<1>2. ASSUME NEW q \in Requests, OwesCreation(q)'
      PROVE  Creation(q)' \in Owed'
  BY <1>2, OwedElementsAfter
<1>3. ASSUME NEW s \in Sockets, exit'[s].removed
      PROVE  Removal(s)' \in Owed'
  BY <1>3, OwedElementsAfter
<1>4. OwedOf("created", id)' <=> Creating(id)' # {}
  <2>1. rooms' \subseteq Requests
    BY DEF TypeInv, TypeOK
  <2>2. \A q \in Requests : Creation(q)'.about = "created" /\ Creation(q)'.room = targetId'[q]
    BY DEF Creation
  <2> QED BY <1>1, <1>2, <2>1, <2>2 DEF OwedOf, Creating, OwesCreation
<1>5. OwedOf("removed", id)' <=> Removing(id)' # {}
  <2>1. \A s \in Sockets : /\ Removal(s)'.about = "removed"
                           /\ Removal(s)'.room = targetId'[exit'[s].peer]
    BY DEF Removal
  <2> QED BY <1>1, <1>3, <2>1 DEF OwedOf, Removing
<1> QED BY <1>4, <1>5

LEMMA ToldKept ==
  ASSUME TypeInv, TypeInv', RegistryInv, DirectoryInv, ToldInv, HistoryStep,
         [Directory!DirectoryNext]_Directory!directoryVars
  PROVE  ToldInv'
<1> SUFFICES ASSUME alive', NEW id \in RoomIds, id \notin contested' PROVE ToldRight(id)'
  BY DEF ToldInv
<1>1. CASE ~alive
  <2>1. Registered = {} /\ Owed = {}
    BY <1>1, NoRegistered
       DEF DirectoryInv, DeadIsEmpty, RegistryInv, RegisteredRoomLives, Registered
  <2>2. Registered' = {} /\ Owed' = {} /\ running' = {}
    <3>1. UNCHANGED Directory!directoryVars => alive' = alive
      BY DEF Directory!directoryVars
    <3>2. Directory!StartAgain
      BY <1>1, <2>1, <3>1 DEF Directory!DirectoryNext, Directory!Stop, Directory!Open,
         Directory!Close, Directory!Announce
    <3> QED BY <2>1, <3>2 DEF Directory!StartAgain, Registered
  <2> QED BY <2>2 DEF ToldRight, OwedOf
<1>2. CASE alive
  <2>1. ToldRight(id) /\ ~(OwedOf("created", id)' /\ OwedOf("removed", id)')
    BY <1>2, OwedHandlersAfter DEF ToldInv, HistoryStep
  <2> USE DEF ToldRight
  <2>2. CASE UNCHANGED Directory!directoryVars
    BY <2>1, <2>2 DEF Directory!directoryVars, Registered, OwedOf
  <2>3. ASSUME NEW h, NEW x \in RoomIds, Directory!Open(h, x)
        PROVE  ToldRight(id)'
    <3> DEFINE m == [by |-> h, about |-> "created", room |-> x]
    <3>1. /\ Owed' = Owed \cup {m} /\ running' = running
          /\ Registered' = Registered \cup {x}
      BY <2>3 DEF Directory!Open, Directory!Owes, Registered
    <3>2. m.about = "created" /\ m.room = x
      OBVIOUS
    <3> HIDE DEF m
    <3>3. /\ x = id => OwedOf("created", id)'
          /\ x # id => (OwedOf("created", id)' <=> OwedOf("created", id))
          /\ OwedOf("removed", id)' <=> OwedOf("removed", id)
      BY <3>1, <3>2 DEF OwedOf
    <3> QED BY <2>1, <3>1, <3>3
  <2>4. ASSUME NEW h, NEW x \in RoomIds, Directory!Close(h, x)
        PROVE  ToldRight(id)'
    <3> DEFINE m == [by |-> h, about |-> "removed", room |-> x]
    <3>1. /\ Owed' = Owed \cup {m} /\ running' = running
          /\ Registered' = Registered \ {x}
      BY <2>4 DEF Directory!Close, Directory!Owes, Registered
    <3>2. m.about = "removed" /\ m.room = x
      OBVIOUS
    <3> HIDE DEF m
    <3>3. /\ x = id => OwedOf("removed", id)'
          /\ x # id => (OwedOf("removed", id)' <=> OwedOf("removed", id))
          /\ OwedOf("created", id)' <=> OwedOf("created", id)
      BY <3>1, <3>2 DEF OwedOf
    <3> QED BY <2>1, <3>1, <3>3
  <2>5. ASSUME NEW m \in Owed, Directory!Announce(m)
        PROVE  ToldRight(id)'
    <3>1. m.about \in {"created", "removed"}
      BY OwedElements DEF Creation, Removal
    <3>2. /\ Owed' = Owed \ {m} /\ Registered' = Registered
          /\ running' = IF m.about = "created" THEN running \cup {m.room}
                                               ELSE running \ {m.room}
      BY <2>5 DEF Directory!Announce, Registered
    <3>3. /\ OwedOf("created", id)' => OwedOf("created", id)
          /\ OwedOf("removed", id)' => OwedOf("removed", id)
      BY <3>2 DEF OwedOf
    <3>4. CASE m.room # id
      <4>1. /\ OwedOf("created", id)' <=> OwedOf("created", id)
            /\ OwedOf("removed", id)' <=> OwedOf("removed", id)
        BY <3>2, <3>4 DEF OwedOf
      <4>2. id \in running' <=> id \in running
        BY <3>2, <3>4
      <4> QED BY <2>1, <3>2, <4>1, <4>2
    <3>5. CASE m.room = id /\ m.about = "created"
      <4>1. OwedOf("created", id) /\ id \in running'
        BY <3>2, <3>5 DEF OwedOf
      <4> QED BY <2>1, <3>2, <3>3, <4>1
    <3>6. CASE m.room = id /\ m.about = "removed"
      <4>1. OwedOf("removed", id) /\ id \notin running'
        BY <3>2, <3>6 DEF OwedOf
      <4> QED BY <2>1, <3>2, <3>3, <4>1
    <3> QED BY <3>1, <3>4, <3>5, <3>6
  <2>6. ~Directory!Stop /\ ~Directory!StartAgain
    BY <1>2 DEF Directory!Stop, Directory!StartAgain
  <2> QED BY <2>2, <2>3, <2>4, <2>5, <2>6 DEF Directory!DirectoryNext
<1> QED BY <1>1, <1>2

(* Whenever no announcement of a room is owed, the routing server has been *)
(* told of it exactly if it is registered, whatever other rooms and the    *)
(* process went through, unless its creation and removal overlapped.       *)
THEOREM RoutingServerAgrees == SpecH => []RoutingAgrees
<1>1. SpecH => [](TypeInv /\ RegistryInv /\ DirectoryInv)
  <2>1. SpecH => Spec
    BY HistorySteps, PTL DEF SpecH, InitH, Spec
  <2> QED BY <2>1, DirectoryInvariant
<1>2. InitH => ToldInv
  BY DEF InitH, Init, ToldInv, ToldRight, OwedOf, Owed, Registered, NoExit
<1>3. TypeInv /\ TypeInv' /\ RegistryInv /\ DirectoryInv /\ ToldInv /\ [NextH]_allVars
      => ToldInv'
  <2> SUFFICES ASSUME TypeInv, TypeInv', RegistryInv, DirectoryInv, ToldInv,
                      [NextH]_allVars
               PROVE  ToldInv'
    OBVIOUS
  <2>1. CASE NextH
    BY <2>1, ToldKept, DirectorySteps DEF NextH
  <2>2. CASE UNCHANGED allVars
    <3> USE <2>2
    <3>1. Owed' = Owed
      BY DEF Owed, Creation, Removal, OwesCreation, allVars, vars, requestVars
    <3>2. Registered' = Registered
      BY DEF Registered, allVars, vars, registryVars
    <3>3. alive' = alive /\ running' = running /\ contested' = contested
      BY DEF allVars, vars, historyVars, processVars
    <3> QED BY <3>1, <3>2, <3>3 DEF ToldInv, ToldRight, OwedOf
  <2> QED BY <2>1, <2>2
<1>4. TypeInv /\ ToldInv => RoutingAgrees
  BY OwedHandlers DEF ToldInv, ToldRight, RoutingAgrees, Registered
<1> QED BY <1>1, <1>2, <1>3, <1>4, PTL DEF SpecH
==========================================================================
