------------------------- MODULE RoomListsProofs -------------------------
(***************************************************************************)
(* The lists that are kept twice: the two maps of the waiting rooms, and   *)
(* the blocked users of a running room, in memory and in the block table.  *)
(***************************************************************************)
EXTENDS RoomMembersProofs

----------------------------------------------------------------------------
(* Waiting rooms.                                                          *)

(* One of the maps against the other, for one socket.                      *)
ListedOnce(s) ==
    /\ \A id \in RoomIds : s \in socketsByRoomId[id] => id = waitingRoomIdBySocketId[s]
    /\ connection[s] = "closed" => \A id \in RoomIds : s \notin socketsByRoomId[id]

Exact == \A s \in Sockets \ strayed : ListedOnce(s)

LEMMA ListedOnceFrame ==
  ASSUME TypeInv, Next, ~Crash, NEW s \in Sockets, ~Departs(s), ListedOnce(s),
         waitingRoomIdBySocketId'[s] = waitingRoomIdBySocketId[s],
         \A id \in RoomIds : s \in socketsByRoomId'[id] => s \in socketsByRoomId[id]
  PROVE  ListedOnce(s)'
<1>1. connection'[s] = "closed" => connection[s] = "closed"
  BY ConnectionSteps
<1> QED BY <1>1 DEF ListedOnce

LEMMA RemovedOnce ==
  ASSUME TypeInv, NEW s \in Sockets, ListedOnce(s), Waiting!Remove(s)
  PROVE  ListedOnce(s)'
  BY DEF ListedOnce, Waiting!Remove

LEMMA ExactKept ==
  ASSUME TypeInv, Exact, Next, HistoryStep
  PROVE  Exact'
<1> SUFFICES ASSUME NEW s \in Sockets, s \notin strayed' PROVE ListedOnce(s)'
  BY DEF Exact
<1>1. CASE WaitingRoomsOf(s)' = {}
  BY <1>1 DEF WaitingRoomsOf, ListedOnce
<1>2. CASE WaitingRoomsOf(s)' # {}
  <2>1. /\ s \notin strayed
        /\ \A l \in AnswersTo(s) : connection[s] # "closed"
                                   /\ WaitingRoomsOf(s) \ {lookup[l]} = {}
    BY <1>2 DEF HistoryStep
  <2>2. ListedOnce(s)
    BY <2>1 DEF Exact
  <2>3. ~Crash
    BY <1>2 DEF Crash, WaitingRoomsOf
  <2>4. CASE Departs(s)
    BY <2>2, <2>4, RemovedOnce DEF Departs, Disconnect
  <2>5. CASE ~Departs(s) /\ UNCHANGED waitingVars
    BY <2>2, <2>3, <2>5, ListedOnceFrame DEF waitingVars
  <2>6. ASSUME ~Departs(s), NEW t \in Sockets, Waiting!Remove(t)
        PROVE  ListedOnce(s)'
    <3>1. CASE t = s
      BY <2>2, <2>6, <3>1, RemovedOnce
    <3>2. CASE t # s
      <4>1. /\ waitingRoomIdBySocketId'[s] = waitingRoomIdBySocketId[s]
            /\ \A id \in RoomIds : s \in socketsByRoomId'[id] => s \in socketsByRoomId[id]
        BY <2>6, <3>2 DEF Waiting!Remove, TypeInv, TypeOK
      <4> QED BY <2>2, <2>3, <2>6, <4>1, ListedOnceFrame
    <3> QED BY <3>1, <3>2
  <2>7. ASSUME ~Departs(s), NEW l \in Lookups, EnterWaitingRoom(l), lookup[l] \in DbRooms,
               Waiting!Join(lookup[l], CallerOf[l])
        PROVE  ListedOnce(s)'
    <3> DEFINE t == CallerOf[l]
    <3>0. lookup[l] \in RoomIds /\ t \in Sockets
      BY <2>7, ConstantsTyped
    <3>1. CASE t = s
      <4>1. l \in AnswersTo(s) /\ connection' = connection
        BY <2>7, <3>1 DEF EnterWaitingRoom, AnswersTo, PutInWaitingRoom, processVars, TypeInv,
           TypeOK
      <4>2. connection'[s] # "closed"
        BY <2>1, <4>1
      <4>3. waitingRoomIdBySocketId'[s] = lookup[l]
        BY <2>7, <3>1 DEF Waiting!Join, TypeInv, TypeOK
      <4>4. \A id \in RoomIds \ {lookup[l]} : s \notin socketsByRoomId[id]
        BY <2>1, <4>1 DEF WaitingRoomsOf
      <4>5. \A id \in RoomIds \ {lookup[l]} : s \notin socketsByRoomId'[id]
        BY <2>7, <3>0, <3>1, <4>4 DEF Waiting!Join, TypeInv, TypeOK
      <4> QED BY <4>2, <4>3, <4>5 DEF ListedOnce
    <3>2. CASE t # s
      <4>1. /\ waitingRoomIdBySocketId'[s] = waitingRoomIdBySocketId[s]
            /\ \A id \in RoomIds : s \in socketsByRoomId'[id] => s \in socketsByRoomId[id]
        BY <2>7, <3>0, <3>2 DEF Waiting!Join, TypeInv, TypeOK
      <4> QED BY <2>2, <2>3, <2>7, <4>1, ListedOnceFrame
    <3> QED BY <3>1, <3>2
  <2> QED BY <2>3, <2>4, <2>5, <2>6, <2>7, WaitingCalls
<1> QED BY <1>1, <1>2

LEMMA ExactInvariant == SpecH => []Exact
<1>1. InitH => TypeInv /\ Exact
  BY InitTyped DEF InitH, Init, Waiting!WaitingInit, Exact, ListedOnce
<1>2. TypeInv /\ Exact /\ [NextH]_allVars => (TypeInv /\ Exact)'
  <2>1. TypeInv /\ Exact /\ NextH => Exact'
    BY ExactKept DEF NextH
  <2>2. Exact /\ UNCHANGED allVars => Exact'
    BY DEF Exact, ListedOnce, allVars, vars, historyVars, socketVars, waitingVars
  <2> QED BY <2>1, <2>2, HistorySteps, NextTyped
<1> QED BY <1>1, <1>2, PTL DEF SpecH

(* The lists and the index of the waiting rooms are each other's inverse,  *)
(* and a closed socket is in neither, for every socket that was never put  *)
(* in a waiting room while closed or while listed in another: late answers *)
(* and calls for two rooms, overlapping or not, are the only ways to leave *)
(* a socket behind.                                                        *)
THEOREM WaitingListsAreExact == SpecH => []WaitingListsExact
<1>1. TypeInv /\ Exact /\ IndexedIsListed => WaitingListsExact
  <2> SUFFICES ASSUME TypeInv, Exact, IndexedIsListed, NEW s \in Sockets \ strayed
               PROVE  /\ WaitingRoomsOf(s) = {waitingRoomIdBySocketId[s]} \ {None}
                      /\ connection[s] = "closed" => WaitingRoomsOf(s) = {}
    BY DEF WaitingListsExact
  <2>1. ListedOnce(s) /\ waitingRoomIdBySocketId[s] \in RoomIds \cup {None}
    BY DEF Exact, TypeInv, TypeOK
  <2> QED BY <2>1, NoneIsFresh DEF ListedOnce, IndexedIsListed, WaitingRoomsOf
<1> QED BY <1>1, ExactInvariant, HistorySpec, RegistryInvariant, IndexedAreListed, PTL

----------------------------------------------------------------------------
(* Blocked users.                                                          *)

(* A block or unblock call acts on the Room it found, registered or not.   *)
On(c, id) == InProgress(c) /\ targetId[command[c].room] = id
Builds(q, id) == pc[q] = "register" /\ targetId[q] = id

Held == \A c \in Commands : InProgress(c) => command[c].room \in rooms

(* What a call in progress has done to the table, and has still to do to   *)
(* the Room.                                                               *)
HalfDone(c, r, id) ==
    /\ command[c].room = r
    /\ command[c].step \in {"insert", "delete"} => blacklist[r] = blockRows[id]
    /\ command[c].step = "inserted" => blockRows[id] = blacklist[r] \cup {command[c].user}
    /\ command[c].step = "deleted" => blockRows[id] = blacklist[r] \ {command[c].user}
RowsAgree(id, r) ==
    /\ (\A c \in Commands : ~On(c, id)) => blacklist[r] = blockRows[id]
    /\ \A c \in Commands : On(c, id) => HalfDone(c, r, id)

Alone(id) ==
    /\ \A c, d \in Commands : On(c, id) /\ On(d, id) => c = d
    /\ \A c \in Commands, q \in Requests : ~(On(c, id) /\ Builds(q, id))
BuiltAgrees(id) == \A q \in Requests : Builds(q, id) => blacklist[q] = blockRows[id]
Agreed(id) ==
    /\ Alone(id) /\ BuiltAgrees(id)
    /\ roomById[id] # None => RowsAgree(id, roomById[id])

(* A process that has ended has no call in progress.                       *)
NoneInProgress ==
    /\ \A c \in Commands : ~InProgress(c)
    /\ \A q \in Requests : pc[q] # "register"
BlockInv ==
    /\ Held
    /\ IF alive THEN \A id \in RoomIds \ skewed : Agreed(id) ELSE NoneInProgress

(* The steps by what they do to both lists and to the calls.               *)
LEMMA ListSteps ==
  ASSUME TypeInv, Next, ~Crash
  PROVE  \/ UNCHANGED <<blacklist, blockRows, command>>
         \/ \E q \in Requests : FetchBlacklist(q)
         \/ \E c \in Commands : CommandMoves(c) \/ (Lists(c) /\ blockRows' = blockRows)
<1>1. ASSUME NEW q \in Requests, RequestMoves(q), ~FetchBlacklist(q)
      PROVE  UNCHANGED <<blacklist, blockRows, command>>
  BY <1>1 DEF RequestMoves, JoinRoom, LearnMaster, CheckBlacklistRows, RefusePassword,
     JoinExistingRoom, StartCreatingRoom, RouterCreated, RegisterRoom, RecordHistory,
     CompleteJoin, dbVars
<1>2. ASSUME NEW s \in Sockets, WaitingMoves(s) \/ ExitStep(s)
      PROVE  UNCHANGED <<blacklist, blockRows, command>>
  BY <1>2 DEF WaitingMoves, Connect, EnterWaitingRoom, JoinWaitingRoom, ExitStep, FindOpenRow,
     CloseRow, AnnounceRemoval, dbVars
<1>3. CASE Restart
  BY <1>3 DEF Restart, dbVars
<1>4. ASSUME NobodyDeparts \/ \E s \in Sockets : Departs(s)
      PROVE  \/ UNCHANGED <<blacklist, blockRows, command>>
             \/ \E c \in Commands : Lists(c) /\ blockRows' = blockRows
  BY <1>4 DEF NobodyDeparts, Departs, Stays, ListsOrNot, dbVars
<1> QED BY <1>1, <1>2, <1>3, <1>4, StepCases

LEMMA CommandMovesOne ==
  ASSUME TypeInv, NEW c \in Commands, CommandMoves(c) \/ Lists(c)
  PROVE  \A d \in Commands \ {c} : command'[d] = command[d]
  BY DEF CommandMoves, InsertBlock, DeleteBlock, FinishUnblock, BlockUser, UnblockUser, Lists,
     TypeInv, TypeOK

(* A new call is on the room that is registered.                           *)
LEMMA CallBegins ==
  ASSUME TypeInv, RegistryInv, NEW c \in Commands, NEW s \in Sockets, NEW u \in Users,
         BlockUser(c, s, u) \/ UnblockUser(c, s, u)
  PROVE  /\ ~InProgress(c) /\ UNCHANGED <<blacklist, blockRows, requestVars, registryVars, rooms>>
         /\ \E x \in RoomIds : /\ command'[c].room = roomById[x] /\ roomById[x] \in rooms
                              /\ targetId[roomById[x]] = x
         /\ command'[c].step \in {"insert", "delete"}
<1>1. /\ roomIdBySocketId[s] \in RoomIds
      /\ FindRoomBySocketId(s) = roomById[roomIdBySocketId[s]]
      /\ FindRoomBySocketId(s) # None
  BY RoomFound DEF BlockUser, UnblockUser, CanModerate, TypeInv
<1>2. /\ FindRoomBySocketId(s) \in rooms
      /\ targetId[FindRoomBySocketId(s)] = roomIdBySocketId[s]
  BY <1>1 DEF RegistryInv, RegisteredRoomLives
<1>3. command'[c].room = FindRoomBySocketId(s) /\ command'[c].step \in {"insert", "delete"}
  BY DEF BlockUser, UnblockUser, TypeInv, TypeOK
<1>4. ~InProgress(c) /\ UNCHANGED <<blacklist, blockRows, requestVars, registryVars, rooms>>
  BY DEF BlockUser, UnblockUser, InProgress, dbVars
<1> QED BY <1>1, <1>2, <1>3, <1>4

(* A call under way stays on its Room.                                     *)
LEMMA RoomOfCallStays ==
  ASSUME TypeInv, NEW c \in Commands,
         InsertBlock(c) \/ DeleteBlock(c) \/ FinishUnblock(c) \/ Lists(c)
  PROVE  InProgress(c) /\ (InProgress(c)' => command'[c].room = command[c].room)
<1>1. command[c] \in CommandRecords
  BY DEF TypeInv, TypeOK
<1>2. InProgress(c)
  BY DEF InsertBlock, DeleteBlock, FinishUnblock, Lists, InProgress
<1>3. CASE InsertBlock(c)
  BY <1>1, <1>2, <1>3 DEF InsertBlock, CommandRecords, TypeInv, TypeOK
<1>4. CASE DeleteBlock(c)
  <2>1. command'[c] = CommandDone \/ command'[c] = [command[c] EXCEPT !.step = "deleted"]
    BY <1>4 DEF DeleteBlock, TypeInv, TypeOK
  <2> QED BY <1>1, <1>2, <2>1 DEF InProgress, CommandDone, NoCommand, CommandRecords
<1>5. CASE FinishUnblock(c) \/ Lists(c)
  <2>1. command'[c] = CommandDone
    BY <1>5 DEF FinishUnblock, Lists, TypeInv, TypeOK
  <2> QED BY <1>2, <2>1 DEF InProgress, CommandDone, NoCommand
<1> QED BY <1>3, <1>4, <1>5

LEMMA HeldKept ==
  ASSUME TypeInv, RegistryInv, Held, Next
  PROVE  Held'
<1>1. CASE Crash
  BY <1>1 DEF Crash, Held, InProgress, NoCommand, CommandDone
<1>2. CASE ~Crash
  <2> SUFFICES ASSUME NEW d \in Commands, InProgress(d)' PROVE command'[d].room \in rooms'
    BY DEF Held
  <2>1. rooms \subseteq rooms'
    BY <1>2, RoomsGrow
  <2>2. CASE command'[d] = command[d]
    BY <2>1, <2>2 DEF Held, InProgress
  <2>3. ASSUME NEW c \in Commands, CommandMoves(c) \/ Lists(c), command'[d] # command[d]
        PROVE  command'[d].room \in rooms'
    <3>1. d = c
      BY <2>3, CommandMovesOne
    <3>2. CASE \E s \in Sockets, u \in Users : BlockUser(c, s, u) \/ UnblockUser(c, s, u)
      BY <2>1, <3>1, <3>2, CallBegins
    <3>3. CASE InsertBlock(c) \/ DeleteBlock(c) \/ FinishUnblock(c) \/ Lists(c)
      BY <2>1, <3>1, <3>3, RoomOfCallStays DEF Held
    <3> QED BY <2>3, <3>2, <3>3 DEF CommandMoves
  <2>4. ASSUME NEW q \in Requests, FetchBlacklist(q) PROVE command' = command
    BY <2>4 DEF FetchBlacklist
  <2> QED BY <1>2, <2>2, <2>3, <2>4, ListSteps
<1> QED BY <1>1, <1>2

(* The room id of a Room is settled, so a call that does not move is where *)
(* it was.                                                                 *)
LEMMA OnStays ==
  ASSUME TypeInv, Held, Next, ~Crash, NEW c \in Commands, NEW id,
         command'[c] = command[c]
  PROVE  On(c, id)' <=> On(c, id)
<1>1. InProgress(c)' <=> InProgress(c)
  BY DEF InProgress
<1>2. ASSUME InProgress(c)
      PROVE  targetId'[command[c].room] = targetId[command[c].room]
  <2>1. PICK r \in Requests : r = command[c].room /\ r \in rooms
    BY <1>2 DEF TypeInv, TypeOK, Held
  <2>2. Entered(r)
    BY <2>1 DEF TypeInv, KnowsTarget
  <2> QED BY <2>1, <2>2, EnteredStays
<1> QED BY <1>1, <1>2 DEF On

LEMMA OnMoves ==
  ASSUME TypeInv, Held, Next, ~Crash, NEW c \in Commands, NEW id,
         InsertBlock(c) \/ DeleteBlock(c) \/ FinishUnblock(c) \/ Lists(c)
  PROVE  On(c, id)' => On(c, id)
<1> SUFFICES ASSUME On(c, id)' PROVE On(c, id)
  OBVIOUS
<1>1. InProgress(c) /\ command'[c].room = command[c].room
  BY RoomOfCallStays DEF On
<1>2. PICK r \in Requests : r = command[c].room /\ r \in rooms
  BY <1>1 DEF TypeInv, TypeOK, Held
<1>3. Entered(r)
  BY <1>2 DEF TypeInv, KnowsTarget
<1> QED BY <1>1, <1>2, <1>3, EnteredStays DEF On

(* Of two calls on a room one is older: while no two were on it, a third   *)
(* does not appear in the step that adds the second.                       *)
LEMMA StaysAlone ==
  ASSUME TypeInv, RegistryInv, Held, Next, ~Crash, HistoryStep, alive,
         NEW id \in RoomIds \ skewed', Alone(id)
  PROVE  Alone(id)'
<1>1. /\ ~(Cardinality(CommandsOn(id)') > 1)
      /\ ~(CommandsOn(id)' # {} /\ Building(id)' # {})
  BY DEF HistoryStep
<1>2. ASSUME NEW c \in Commands, NEW q \in Requests, On(c, id)', Builds(q, id)'
      PROVE  FALSE
  <2>1. c \in CommandsOn(id)' /\ q \in Building(id)'
    BY <1>2 DEF On, Builds, CommandsOn, Building
  <2> QED BY <1>1, <2>1
<1>3. ASSUME NEW c \in Commands, NEW d \in Commands, On(c, id)', On(d, id)', c # d
      PROVE  FALSE
  <2>1. \A x \in Commands : On(x, id)' => x \in {c, d}
    <3> SUFFICES ASSUME NEW x \in Commands, On(x, id)', x # c, x # d PROVE FALSE
      OBVIOUS
    <3>1. PICK e \in Commands : \A y \in Commands \ {e} : command'[y] = command[y]
      <4>1. ASSUME NEW q \in Requests, FetchBlacklist(q) PROVE command' = command
        BY <4>1 DEF FetchBlacklist
      <4> QED BY <4>1, ListSteps, CommandMovesOne
    <3>2. \A y \in Commands \ {e} : On(y, id)' => On(y, id)
      BY <3>1, OnStays
    <3>3. CASE e = x
      BY <1>3, <3>2, <3>3 DEF Alone
    <3>4. CASE e # x
      BY <1>3, <3>2, <3>4 DEF Alone
    <3> QED BY <3>3, <3>4
  <2>2. CommandsOn(id)' = {c} \cup {d}
    BY <1>3, <2>1 DEF CommandsOn, On
  <2>3. Cardinality({c} \cup {d}) = 2
    <3>1. IsFiniteSet({c}) /\ Cardinality({c}) = 1
      BY FS_Singleton
    <3> QED BY <1>3, <3>1, FS_AddElement
  <2> QED BY <1>1, <2>2, <2>3
<1> QED BY <1>2, <1>3 DEF Alone

LEMMA BuildSteps ==
  ASSUME TypeInv, Next, ~Crash, NEW q \in Requests, NEW id, Builds(q, id)'
  PROVE  Builds(q, id) \/ (FetchBlacklist(q) /\ targetId[q] = id)
<1>1. CASE pc[q] = "register"
  BY <1>1, TargetSteps DEF Builds
<1>2. CASE pc[q] # "register"
  <2>1. RequestMoves(q)
    BY <1>2, HandlerMoves DEF Builds
  <2>2. FetchBlacklist(q)
    BY <2>1 DEF Builds, RequestMoves, JoinRoom, LearnMaster, CheckBlacklistRows, RefusePassword,
       JoinExistingRoom, StartCreatingRoom, RouterCreated, RegisterRoom, RecordHistory,
       CompleteJoin, Admitted, Goto, Verdict, TypeInv, TypeOK
  <2> QED BY <2>2 DEF FetchBlacklist, Builds
<1> QED BY <1>1, <1>2

(* What a step of a call does to one room's rows.                          *)
LEMMA RowsChange ==
  ASSUME TypeInv, NEW c \in Commands, NEW id \in RoomIds, CommandMoves(c),
         blockRows'[id] # blockRows[id]
  PROVE  On(c, id)
  BY DEF CommandMoves, InsertBlock, DeleteBlock, FinishUnblock, BlockUser, UnblockUser, dbVars,
     On, InProgress, TypeInv, TypeOK

LEMMA BlacklistChange ==
  ASSUME TypeInv, Held, NEW c \in Commands, CommandMoves(c) \/ Lists(c), NEW r \in Requests,
         blacklist'[r] # blacklist[r]
  PROVE  InProgress(c) /\ command[c].room = r /\ r \in rooms
<1>1. InProgress(c) /\ command[c].room = r
  BY DEF CommandMoves, InsertBlock, DeleteBlock, FinishUnblock, BlockUser, UnblockUser, Lists,
     InProgress, TypeInv, TypeOK
<1> QED BY <1>1 DEF Held

LEMMA BuiltStaysAgreed ==
  ASSUME TypeInv, RegistryInv, Held, Next, ~Crash, NEW id \in RoomIds, Alone(id), BuiltAgrees(id)
  PROVE  BuiltAgrees(id)'
<1> SUFFICES ASSUME NEW q \in Requests, Builds(q, id)' PROVE blacklist'[q] = blockRows'[id]
  BY DEF BuiltAgrees
<1>1. CASE FetchBlacklist(q) /\ targetId[q] = id
  BY <1>1 DEF FetchBlacklist, StoredBlacklist, dbVars, TypeInv, TypeOK
<1>2. CASE Builds(q, id)
  <2>1. blacklist[q] = blockRows[id] /\ pc[q] = "register" /\ q \notin rooms
    BY <1>2 DEF BuiltAgrees, Builds, TypeInv, KnowsTarget, Entered
  <2>2. CASE UNCHANGED <<blacklist, blockRows>>
    BY <2>1, <2>2
  <2>3. ASSUME NEW p \in Requests, FetchBlacklist(p)
        PROVE  blacklist'[q] = blockRows'[id]
    BY <2>1, <2>3 DEF FetchBlacklist, dbVars, TypeInv, TypeOK
  <2>4. ASSUME NEW c \in Commands, CommandMoves(c) \/ Lists(c)
        PROVE  blacklist'[q] = blacklist[q]
    BY <2>1, <2>4, BlacklistChange
  <2>5. ASSUME NEW c \in Commands, CommandMoves(c)
        PROVE  blockRows'[id] = blockRows[id]
    BY <1>2, <2>5, RowsChange DEF Alone
  <2> QED BY <2>1, <2>2, <2>3, <2>4, <2>5, ListSteps
<1> QED BY <1>1, <1>2, BuildSteps

LEMMA FrameOfRows ==
  ASSUME TypeInv, Held, Next, ~Crash, NEW id, NEW r,
         RowsAgree(id, r), blacklist'[r] = blacklist[r], blockRows'[id] = blockRows[id],
         \A d \in Commands : command'[d] = command[d] \/ (~On(d, id) /\ ~On(d, id)')
  PROVE  RowsAgree(id, r)'
<1>1. \A d \in Commands : On(d, id)' <=> On(d, id)
  BY OnStays
<1>2. ASSUME NEW d \in Commands, On(d, id)'
      PROVE  HalfDone(d, r, id)'
  <2>1. On(d, id) /\ command'[d] = command[d]
    BY <1>1, <1>2
  <2> QED BY <2>1 DEF RowsAgree, HalfDone
<1> QED BY <1>1, <1>2 DEF RowsAgree

(* A Room that stays registered.                                           *)
LEMMA RunningStaysAgreed ==
  ASSUME TypeInv, RegistryInv, Held, Next, ~Crash, NEW id \in RoomIds, Alone(id), Alone(id)',
         NEW r \in Requests, roomById[id] = r, RowsAgree(id, r)
  PROVE  RowsAgree(id, r)'
<1>0. r \in rooms /\ targetId[r] = id /\ Entered(r)
  BY NoneIsFresh DEF RegistryInv, RegisteredRoomLives, TypeInv, KnowsTarget
<1>1. CASE UNCHANGED <<blacklist, blockRows, command>>
  BY <1>1, FrameOfRows
<1>2. ASSUME NEW q \in Requests, FetchBlacklist(q)
      PROVE  RowsAgree(id, r)'
  <2>1. q # r
    BY <1>0, <1>2 DEF FetchBlacklist, Entered
  <2>2. blacklist'[r] = blacklist[r] /\ blockRows' = blockRows /\ command' = command
    BY <1>2, <2>1 DEF FetchBlacklist, dbVars, TypeInv, TypeOK
  <2> QED BY <2>2, FrameOfRows
<1>3. ASSUME NEW c \in Commands, NEW s \in Sockets, NEW u \in Users,
             BlockUser(c, s, u) \/ UnblockUser(c, s, u)
      PROVE  RowsAgree(id, r)'
  <2>1. \A d \in Commands \ {c} : command'[d] = command[d]
    BY <1>3, CommandMovesOne DEF CommandMoves
  <2>2. PICK x \in RoomIds :
           /\ ~On(c, id) /\ UNCHANGED <<blacklist, blockRows, targetId>>
           /\ command'[c].room = roomById[x] /\ targetId[roomById[x]] = x
           /\ command'[c].step \in {"insert", "delete"}
    BY <1>3, CallBegins DEF On, requestVars
  <2>3. CASE ~On(c, id)'
    BY <2>1, <2>2, <2>3, FrameOfRows
  <2>4. CASE On(c, id)'
    <3>1. x = id /\ command'[c].room = r
      BY <2>2, <2>4 DEF On
    <3>2. \A d \in Commands \ {c} : ~On(d, id)' /\ ~On(d, id)
      BY <2>1, <2>4, OnStays DEF Alone
    <3>3. blacklist[r] = blockRows[id]
      BY <2>2, <3>2 DEF RowsAgree
    <3>4. HalfDone(c, r, id)'
      BY <2>2, <3>1, <3>3 DEF HalfDone
    <3> QED BY <2>4, <3>2, <3>4 DEF RowsAgree
  <2> QED BY <2>3, <2>4
<1>4. ASSUME NEW c \in Commands,
             InsertBlock(c) \/ DeleteBlock(c) \/ FinishUnblock(c)
             \/ (Lists(c) /\ blockRows' = blockRows)
      PROVE  RowsAgree(id, r)'
  <2>1. /\ \A d \in Commands \ {c} : command'[d] = command[d]
        /\ InProgress(c) /\ (On(c, id)' => On(c, id))
    BY <1>4, CommandMovesOne, OnMoves, RoomOfCallStays DEF CommandMoves
  <2>2. CASE ~On(c, id)
    <3>1. blockRows'[id] = blockRows[id]
      BY <1>4, <2>2, RowsChange DEF CommandMoves
    <3>2. blacklist'[r] = blacklist[r]
      BY <1>0, <1>4, <2>1, <2>2, BlacklistChange DEF CommandMoves, On
    <3> QED BY <2>1, <2>2, <3>1, <3>2, FrameOfRows
  <2>3. CASE On(c, id)
    <3>1. HalfDone(c, r, id) /\ targetId[command[c].room] = id
      BY <2>3 DEF RowsAgree, On
    <3>2. \A d \in Commands \ {c} : ~On(d, id)'
      BY <2>1, <2>3, OnStays DEF Alone
    <3>3. command[c] \in CommandRecords
      BY DEF TypeInv, TypeOK
    <3>4. CASE InsertBlock(c)
      <4>1. /\ command'[c] = [command[c] EXCEPT !.step = "inserted"]
            /\ blockRows'[id] = blockRows[id] \cup {command[c].user}
            /\ blacklist' = blacklist /\ command[c].step = "insert"
        BY <3>1, <3>4 DEF InsertBlock, TypeInv, TypeOK
      <4>2. HalfDone(c, r, id)'
        BY <3>1, <3>3, <4>1 DEF HalfDone, CommandRecords
      <4>3. On(c, id)'
        BY <1>0, <3>1, <3>3, <3>4, <4>1, EnteredStays DEF On, InProgress, HalfDone, CommandRecords
      <4> QED BY <3>2, <4>2, <4>3 DEF RowsAgree
    <3>5. CASE DeleteBlock(c)
      <4>1. /\ blockRows'[id] = blockRows[id] \ {command[c].user}
            /\ blacklist' = blacklist /\ command[c].step = "delete"
            /\ command'[c] = IF command[c].user \in blockRows[id]
                             THEN [command[c] EXCEPT !.step = "deleted"] ELSE CommandDone
        BY <3>1, <3>5 DEF DeleteBlock, TypeInv, TypeOK
      <4>2. CASE command[c].user \in blockRows[id]
        <5>1. HalfDone(c, r, id)'
          BY <3>1, <3>3, <4>1, <4>2 DEF HalfDone, CommandRecords
        <5>2. On(c, id)'
          BY <1>0, <3>1, <3>3, <4>1, <4>2, EnteredStays DEF On, InProgress, HalfDone, CommandRecords
        <5> QED BY <3>2, <5>1, <5>2 DEF RowsAgree
      <4>3. CASE command[c].user \notin blockRows[id]
        <5>1. ~On(c, id)'
          BY <4>1, <4>3 DEF On, InProgress, CommandDone, NoCommand
        <5>2. blacklist'[r] = blockRows'[id]
          BY <3>1, <4>1, <4>3 DEF HalfDone
        <5> QED BY <3>2, <5>1, <5>2 DEF RowsAgree
      <4> QED BY <4>2, <4>3
    <3>6. CASE FinishUnblock(c) \/ (Lists(c) /\ blockRows' = blockRows)
      <4>1. command'[c] = CommandDone /\ blockRows' = blockRows
        BY <3>6 DEF FinishUnblock, Lists, dbVars, TypeInv, TypeOK
      <4>2. ~On(c, id)'
        BY <4>1 DEF On, InProgress, CommandDone, NoCommand
      <4>3. blacklist'[r] = blockRows'[id]
        BY <3>1, <3>6, <4>1 DEF HalfDone, FinishUnblock, Lists, TypeInv, TypeOK
      <4> QED BY <3>2, <4>2, <4>3 DEF RowsAgree
    <3> QED BY <1>4, <3>4, <3>5, <3>6
  <2> QED BY <2>2, <2>3
<1> QED BY <1>1, <1>2, <1>3, <1>4, ListSteps DEF CommandMoves

(* A Room that is registered by the step.                                  *)
LEMMA NewlyRegistered ==
  ASSUME TypeInv, RegistryInv, Next, ~Crash, NEW id \in RoomIds,
         roomById'[id] # None, roomById'[id] # roomById[id]
  PROVE  \E q \in Requests : RegisterRoom(q) /\ Builds(q, id) /\ roomById'[id] = q
<1>1. ~UNCHANGED registryVars
  BY DEF registryVars
<1>2. ASSUME NEW s \in Sockets, Departs(s), FindRoomBySocketId(s) # None
      PROVE  FALSE
  <2>1. PICK x \in RoomIds : \/ roomById' = [roomById EXCEPT ![x] = None]
                             \/ roomById' = roomById
    BY <1>2, Departure
  <2> QED BY <2>1 DEF TypeInv, TypeOK
<1>3. PICK q \in Requests : RegisterRoom(q)
  BY <1>1, <1>2, PeersGrow DEF JoinExistingRoom
<1> QED BY <1>3 DEF RegisterRoom, Builds, TypeInv, TypeOK

LEMMA StaysAgreed ==
  ASSUME TypeInv, TypeInv', RegistryInv, Held, Next, ~Crash, HistoryStep, alive,
         NEW id \in RoomIds \ skewed', Agreed(id)
  PROVE  Agreed(id)'
<1>1. Alone(id)' /\ BuiltAgrees(id)'
  BY StaysAlone, BuiltStaysAgreed DEF Agreed
<1>2. ASSUME roomById'[id] # None, roomById'[id] = roomById[id]
      PROVE  RowsAgree(id, roomById[id])'
  <2>1. PICK r \in Requests : r = roomById[id]
    BY <1>2 DEF TypeInv, TypeOK
  <2>2. RowsAgree(id, r)'
    BY <1>1, <1>2, <2>1, RunningStaysAgreed DEF Agreed
  <2> QED BY <1>2, <2>1, <2>2
<1>3. ASSUME roomById'[id] # None, roomById'[id] # roomById[id]
      PROVE  RowsAgree(id, roomById[id])'
  <2>1. PICK q \in Requests : RegisterRoom(q) /\ Builds(q, id) /\ roomById'[id] = q
    BY <1>3, NewlyRegistered
  <2>2. UNCHANGED <<blacklist, blockRows, command>>
    BY <2>1 DEF RegisterRoom, dbVars
  <2>3. blacklist[q] = blockRows[id] /\ \A c \in Commands : ~On(c, id)
    BY <2>1 DEF Agreed, Alone, BuiltAgrees
  <2>4. \A c \in Commands : ~On(c, id)'
    BY <2>2, <2>3, OnStays
  <2>5. RowsAgree(id, q)'
    BY <2>2, <2>3, <2>4 DEF RowsAgree
  <2> QED BY <2>1, <2>5
<1> QED BY <1>1, <1>2, <1>3 DEF Agreed

LEMMA BlockInvKept ==
  ASSUME TypeInv, TypeInv', RegistryInv, DirectoryInv, BlockInv, Next, HistoryStep
  PROVE  BlockInv'
<1>1. Held'
  BY HeldKept DEF BlockInv
<1>2. CASE Crash
  <2>1. ~alive' /\ NoneInProgress'
    BY <1>2 DEF Crash, NoneInProgress, InProgress, NoCommand, CommandDone, InFlight, AwaitStages
  <2> QED BY <1>1, <2>1 DEF BlockInv
<1>3. CASE ~Crash /\ alive
  <2>1. alive'
    BY <1>3, AliveEnds
  <2>2. ASSUME NEW id \in RoomIds \ skewed' PROVE Agreed(id)'
    <3>1. id \notin skewed
      BY <1>3 DEF HistoryStep
    <3> QED BY <1>3, <3>1, StaysAgreed DEF BlockInv
  <2> QED BY <1>1, <2>1, <2>2 DEF BlockInv
<1>4. CASE ~Crash /\ ~alive
  <2>1. rooms' = {} /\ UNCHANGED <<pc, command>>
    BY <1>4, AliveSteps DEF DirectoryInv, DeadIsEmpty, Restart, NobodyDeparts, Stays, requestVars,
       BlockInv, NoneInProgress, ListsOrNot, Lists, InProgress
  <2>2. NoneInProgress'
    BY <1>4, <2>1 DEF BlockInv, NoneInProgress, InProgress
  <2>3. \A id \in RoomIds : roomById'[id] = None
    <3>1. \A id \in RoomIds : roomById[id] = None
      BY <1>4 DEF RegistryInv, RegisteredRoomLives, DirectoryInv, DeadIsEmpty
    <3> QED BY <1>4, <3>1, AliveSteps DEF Restart, NobodyDeparts, registryVars
  <2>4. \A id \in RoomIds : Agreed(id)'
    BY <2>2, <2>3 DEF NoneInProgress, Agreed, Alone, BuiltAgrees, On, Builds
  <2> QED BY <1>1, <2>2, <2>4 DEF BlockInv
<1> QED BY <1>2, <1>3, <1>4

(* With no block or unblock call under way the users a running room turns  *)
(* away are those of the block table, whatever joins, leaves, crashes and  *)
(* blocks of other rooms interleave, as long as no two calls on the room,  *)
(* or a call and the construction of its Room, ever overlapped.            *)
THEOREM BlacklistsAgree == SpecH => []BlacklistAgrees
<1>1. InitH => BlockInv
  BY DEF InitH, Init, BlockInv, Held, Agreed, Alone, BuiltAgrees, On, Builds, InProgress, NoCommand
<1>2. TypeInv /\ TypeInv' /\ RegistryInv /\ DirectoryInv /\ BlockInv /\ [NextH]_allVars
      => BlockInv'
  <2>1. TypeInv /\ TypeInv' /\ RegistryInv /\ DirectoryInv /\ BlockInv /\ NextH => BlockInv'
    BY BlockInvKept DEF NextH
  <2>2. BlockInv /\ UNCHANGED allVars => BlockInv'
    <3> SUFFICES ASSUME BlockInv, UNCHANGED allVars PROVE BlockInv'
      OBVIOUS
    <3>1. UNCHANGED <<alive, pc, targetId, rooms, blacklist, roomById, command, blockRows, skewed>>
      BY DEF allVars, vars, historyVars, processVars, requestVars, registryVars, dbVars
    <3> QED BY <3>1 DEF BlockInv, Held, NoneInProgress, InProgress, Agreed, Alone, BuiltAgrees,
            RowsAgree, HalfDone, On, Builds
  <2> QED BY <2>1, <2>2
<1>3. BlockInv => BlacklistAgrees
  BY DEF BlockInv, Agreed, RowsAgree, On, BlacklistAgrees, CommandsOn
<1> QED BY <1>1, <1>2, <1>3, HistorySpec, DirectoryInvariant, PTL DEF SpecH

==========================================================================
