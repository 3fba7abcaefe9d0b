------------------------- MODULE RoomViewsProofs -------------------------
(***************************************************************************)
(* What the clients show, for every number of them: in a room and in a     *)
(* waiting room.                                                           *)
(***************************************************************************)
EXTENDS RoomViews, RoomListsProofs

----------------------------------------------------------------------------
(* Everything proved of RoomService holds of it with its clients.          *)

LEMMA ViewedSteps == [NextV]_viewedVars => [NextH]_allVars
  BY DEF NextV, ReadJoiners, viewedVars

LEMMA ViewedSpec == SpecV => SpecH
  BY ViewedSteps, PTL DEF SpecV, InitV, SpecH

BaseInv == TypeInv /\ RegistryInv /\ DirectoryInv /\ IndexInv /\ RowInv

LEMMA BaseInvariant == Spec => []BaseInv
<1>1. Init => RowInv
  BY DEF Init, RowInv, InOneRoom, RowsOfEntered, LeaverKnown, RowKnown, NoExit
<1>2. TypeInv /\ RegistryInv /\ DirectoryInv /\ RowInv /\ [Next]_vars => RowInv'
  <2>1. RowInv /\ UNCHANGED vars => RowInv'
    BY DEF RowInv, InOneRoom, RowsOfEntered, LeaverKnown, RowKnown, Present, Entered,
       vars, requestVars, registryVars, dbVars
  <2> QED BY <2>1, RowInvKept
<1> QED BY <1>1, <1>2, IndexInvariant, PTL DEF Spec, BaseInv

(* A handler holds the Room it entered its peer in.                        *)
HomeKnown ==
    /\ \A r \in Requests : \A q \in peers[r] : home[q] = r
    /\ \A q \in Requests : Entered(q) => home[q] \in Requests

LEMMA HomeStaysKnown ==
  ASSUME BaseInv, BaseInv', HomeKnown, Next, ViewStep
  PROVE  HomeKnown'
<1> DEFINE Came(q) == \E x \in Requests : q \in peers'[x] \ peers[x]
           New(q) == CHOOSE x \in Requests : q \in peers'[x] \ peers[x]
<1>1. ASSUME NEW q \in Requests
      PROVE  /\ home'[q] = IF Came(q) THEN New(q) ELSE home[q]
             /\ Came(q) => New(q) \in Requests /\ q \in peers'[New(q)]
  <2>1. home'[q] = IF Came(q) THEN New(q) ELSE home[q]
    BY DEF ViewStep
  <2>2. Came(q) => New(q) \in Requests /\ q \in peers'[New(q)]
    OBVIOUS
  <2> QED BY <2>1, <2>2
<1> HIDE DEF New
<1>2. ASSUME NEW r \in Requests, NEW q \in peers'[r]
      PROVE  home'[q] = r
  <2>1. q \in Requests /\ \A x \in Requests : q \in peers'[x] => x = r
    BY <1>2 DEF BaseInv, TypeInv, TypeOK, RowInv, InOneRoom
  <2>2. ~Came(q) => q \in peers[r]
    BY <1>2
  <2> QED BY <1>1, <2>1, <2>2 DEF HomeKnown
<1>3. ASSUME NEW q \in Requests, Entered(q)'
      PROVE  home'[q] \in Requests
  <2>1. CASE Entered(q)
    BY <1>1, <2>1 DEF HomeKnown
  <2>2. CASE ~Entered(q)
    <3>1. ~Crash
      BY <1>3, <2>2 DEF Crash, Entered, InFlight, AwaitStages
    <3>2. JoinExistingRoom(q) \/ RegisterRoom(q)
      <4>1. RequestMoves(q)
        BY <1>3, <2>2, <3>1, HandlerMoves DEF Entered, BaseInv
      <4> QED BY <1>3, <2>2, <4>1 DEF RequestMoves, JoinRoom, LearnMaster, CheckBlacklistRows,
              RefusePassword, StartCreatingRoom, RouterCreated, FetchBlacklist, RecordHistory,
              CompleteJoin, Admitted, Goto, Verdict, Entered, BaseInv, TypeInv, TypeOK
    <3>3. \A x \in Requests : q \notin peers[x]
      BY <2>2 DEF BaseInv, DirectoryInv, Members
    <3>4. CASE JoinExistingRoom(q)
      <4>1. roomIdToJoin[SocketOf[q]] \in RoomIds
        BY <3>4 DEF BaseInv, TypeInv, KnowsTarget, InFlight, AwaitStages, JoinExistingRoom, Admitted
      <4>2. PICK r \in Requests : peers' = [peers EXCEPT ![r] = @ \cup {q}]
        BY <3>4, <4>1 DEF JoinExistingRoom, BaseInv, TypeInv, TypeOK
      <4>3. q \in peers'[r]
        BY <4>2 DEF BaseInv, TypeInv, TypeOK
      <4> QED BY <1>1, <3>3, <4>3
    <3>5. CASE RegisterRoom(q)
      <4>1. q \in peers'[q]
        BY <3>5 DEF RegisterRoom, BaseInv, TypeInv, TypeOK
      <4> QED BY <1>1, <3>3, <4>1
    <3> QED BY <3>2, <3>4, <3>5
  <2> QED BY <2>1, <2>2
<1> QED BY <1>2, <1>3 DEF HomeKnown

----------------------------------------------------------------------------
(* What a step announces.                                                  *)

LEMMA AnswerSteps ==
  ASSUME TypeInv, Next, NEW q \in Answered
  PROVE  CompleteJoin(q) /\ UNCHANGED <<peers, roomById, rooms, connection>>
<1>1. q \in Requests /\ pc[q] = "recorded" /\ pc'[q] = "joined"
  BY DEF Answered
<1>2. ~Crash
  BY <1>1 DEF Crash, InFlight, AwaitStages
<1>3. RequestMoves(q)
  BY <1>1, <1>2, HandlerMoves
<1>4. CompleteJoin(q)
  BY <1>1, <1>3 DEF RequestMoves, JoinRoom, LearnMaster, CheckBlacklistRows, RefusePassword,
     JoinExistingRoom, StartCreatingRoom, RouterCreated, FetchBlacklist, RegisterRoom,
     RecordHistory, Admitted
<1> QED BY <1>4 DEF CompleteJoin, registryVars, socketVars

(* Who is joined was answered, now or before.                              *)
LEMMA JoinedSteps ==
  ASSUME TypeInv, Next, NEW q \in Requests, pc'[q] = "joined", q \notin Answered
  PROVE  pc[q] = "joined"
<1> SUFFICES ASSUME pc'[q] # pc[q] PROVE FALSE
  OBVIOUS
<1>1. CASE Crash
  BY <1>1 DEF Crash, Answered
<1>2. CASE RequestMoves(q)
  BY <1>2 DEF Answered, RequestMoves, JoinRoom, LearnMaster, CheckBlacklistRows, RefusePassword,
     JoinExistingRoom, StartCreatingRoom, RouterCreated, FetchBlacklist, RegisterRoom,
     RecordHistory, CompleteJoin, Admitted, Goto, Verdict, TypeInv, TypeOK
<1> QED BY <1>1, <1>2, HandlerMoves

(* A client that shows a room after a step that did not answer it showed   *)
(* the same room before.                                                   *)
LEMMA ViewerBefore ==
  ASSUME BaseInv, BaseInv', Next, NEW r \in Requests, NEW p \in peers'[r], Views(p, r)',
         p \notin Answered
  PROVE  p \in Requests /\ Views(p, r) /\ InRoomView(p) /\ alive'
<1>1. p \in Requests /\ pc'[p] = "joined" /\ connection'[SocketOf[p]] = "open"
  BY DEF BaseInv, TypeInv, TypeOK, Views
<1>2. pc[p] = "joined"
  BY <1>1, JoinedSteps DEF BaseInv
<1>3. p \in peers[r]
  BY <1>1, <1>2, PeerArrives DEF BaseInv, JoinExistingRoom, RegisterRoom, Admitted
<1>4. connection[SocketOf[p]] = "open"
  <2>1. connection[SocketOf[p]] # "new" /\ SocketOf[p] \in Sockets
    BY <1>1, <1>2, ConstantsTyped DEF BaseInv, IndexInv, SocketsConnected
  <2>2. ~Crash
    BY DEF Crash
  <2> QED BY <1>1, <2>1, <2>2, ConnectionSteps DEF BaseInv
<1>5. alive'
  BY DEF BaseInv, DirectoryInv, DeadIsEmpty, Members
<1> QED BY <1>1, <1>2, <1>3, <1>4, <1>5 DEF Views, InRoomView

LEMMA AnsweredShows ==
  ASSUME BaseInv, BaseInv', HomeKnown, Next, ViewStep, NEW r \in Requests, NEW p \in peers'[r],
         Views(p, r)', p \in Answered
  PROVE  shown'[p] = UsersIn(peers[r]) /\ peers' = peers
<1>1. p \in Requests /\ peers' = peers /\ p \in peers[r]
  BY AnswerSteps DEF Answered, BaseInv
<1>2. InRoomView(p)
  BY <1>1 DEF InRoomView, Views, BaseInv, DirectoryInv, DeadIsEmpty, Members
<1>3. home[p] = r
  BY <1>1 DEF HomeKnown
<1> QED BY <1>1, <1>2, <1>3 DEF ViewStep, ShowRoom, PeerStates

LEMMA LeaverFromHome ==
  ASSUME BaseInv, HomeKnown, NEW r \in Requests, NEW q \in peers[r], q \notin peers'[r], alive'
  PROVE  q \in Leaving /\ ToldOfExit(q) = peers'[r]
  BY DEF Leaving, ToldOfExit, HomeKnown, BaseInv, TypeInv, TypeOK

----------------------------------------------------------------------------
(* Views of a room.                                                        *)

LEMMA CurrentKept ==
  ASSUME BaseInv, BaseInv', HomeKnown, RoomViewCurrent, Next, ViewStep
  PROVE  RoomViewCurrent'
<1> SUFFICES ASSUME NEW r \in rooms', NEW p \in peers'[r], Views(p, r)', NEW u \in shown'[p]
             PROVE  u \in UsersIn(peers'[r]) \cup vanished'
  BY DEF RoomViewCurrent
<1>0. r \in Requests
  BY DEF BaseInv, TypeInv, TypeOK
<1>1. CASE p \in Answered
  BY <1>0, <1>1, AnsweredShows
<1>2. CASE p \notin Answered
  <2>1. p \in Requests /\ Views(p, r) /\ InRoomView(p) /\ alive'
    BY <1>0, <1>2, ViewerBefore
  <2>2. /\ u \in shown[p] \/ \E o \in Answered : u = UserOf[o] /\ p \in ToldOfJoin(o)
        /\ \A o \in Leaving : p \in ToldOfExit(o) => u # UserOf[o]
    BY <1>2, <2>1 DEF ViewStep, ShowRoom, UsersIn
  <2>3. /\ vanished \subseteq vanished'
        /\ \A o \in Answered : o \notin rooms \cup peers[home[o]] => UserOf[o] \in vanished'
    BY <2>1 DEF ViewStep, UsersIn
  <2>4. CASE u \in shown[p]
    <3>1. r \in rooms /\ p \in peers[r]
      BY <1>0, <2>1 DEF Views, BaseInv, DirectoryInv, Members
    <3>2. u \in vanished \/ \E o \in peers[r] : u = UserOf[o]
      BY <2>1, <2>4, <3>1 DEF RoomViewCurrent, UsersIn
    <3>3. ASSUME NEW o \in peers[r], u = UserOf[o], o \notin peers'[r]
          PROVE  FALSE
      BY <1>0, <2>1, <2>2, <3>3, LeaverFromHome
    <3> QED BY <2>3, <3>2, <3>3 DEF UsersIn
  <2>5. ASSUME NEW o \in Answered, u = UserOf[o], p \in ToldOfJoin(o)
        PROVE  u \in UsersIn(peers'[r]) \cup vanished'
    <3>1. /\ o \in Requests /\ o \notin rooms /\ p \in peers[home[o]]
          /\ home[o] \in Requests
      BY <2>5 DEF ToldOfJoin, Answered, HomeKnown, Entered
    <3>2. peers' = peers
      BY AnswerSteps DEF BaseInv
    <3>3. CASE o \notin peers[home[o]]
      BY <2>3, <2>5, <3>1, <3>3
    <3>4. CASE o \in peers[home[o]]
      <4>1. home[o] = r
        BY <1>0, <2>1, <3>1 DEF Views, HomeKnown
      <4> QED BY <2>5, <3>2, <3>4, <4>1 DEF UsersIn
    <3> QED BY <3>3, <3>4
  <2> QED BY <2>2, <2>4, <2>5
<1> QED BY <1>1, <1>2

(* The strengthening for completeness: the peer a Room was built for is    *)
(* in every view, though it is never announced.                            *)
Joined(q) == pc[q] = "joined" \/ q \in rooms
ViewsComplete ==
    \A r \in Requests : \A p, q \in peers[r] :
        Views(p, r) /\ Joined(q) /\ UserOf[p] # UserOf[q] /\ OnlyRequestOfItsUser(q)
        => UserOf[q] \in shown[p]

LEMMA CompleteKept ==
  ASSUME BaseInv, BaseInv', HomeKnown, ViewsComplete, Next, ViewStep
  PROVE  ViewsComplete'
<1> SUFFICES ASSUME NEW r \in Requests, NEW p \in peers'[r], NEW q \in peers'[r],
                    Views(p, r)', Joined(q)', UserOf[p] # UserOf[q], OnlyRequestOfItsUser(q)
             PROVE  UserOf[q] \in shown'[p]
  BY DEF ViewsComplete, OnlyRequestOfItsUser
<1>0. p \in Requests /\ q \in Requests
  BY DEF BaseInv, TypeInv, TypeOK
<1>1. CASE p \in Answered
  BY <1>1, AnsweredShows DEF UsersIn
<1>2. CASE p \notin Answered
  <2>1. Views(p, r) /\ InRoomView(p) /\ alive' /\ p \in peers[r]
    BY <1>2, ViewerBefore DEF Views
  <2>2. shown'[p] = (shown[p] \cup UsersIn({o \in Answered : p \in ToldOfJoin(o)}))
                    \ UsersIn({o \in Leaving : p \in ToldOfExit(o)})
    BY <1>0, <1>2, <2>1 DEF ViewStep, ShowRoom
  <2>3. q \in peers[r]
    <3>1. CASE JoinExistingRoom(q)
      BY <1>0, <3>1 DEF JoinExistingRoom, Joined, Goto, Admitted, BaseInv, TypeInv, TypeOK,
         KnowsTarget, Entered
    <3>2. CASE RegisterRoom(q)
      <4>1. q \notin peers[r] => r = q
        BY <1>0, <3>2 DEF RegisterRoom, BaseInv, TypeInv, TypeOK
      <4>2. r = q => p = q
        BY <1>0, <3>2 DEF RegisterRoom, BaseInv, TypeInv, TypeOK
      <4> QED BY <4>1, <4>2
    <3> QED BY <1>0, <3>1, <3>2, PeerArrives DEF BaseInv
  <2>4. ASSUME NEW o \in Leaving, UserOf[o] = UserOf[q]
        PROVE  FALSE
    <3>1. o = q
      BY <1>0, <2>4 DEF Leaving, OnlyRequestOfItsUser
    <3>2. PICK x \in Requests : q \in peers[x] /\ q \notin peers'[x]
      BY <2>4, <3>1 DEF Leaving
    <3>3. x = r
      BY <2>3, <3>2 DEF BaseInv, RowInv, InOneRoom
    <3> QED BY <3>2, <3>3
  <2>5. UserOf[q] \in shown[p] \cup UsersIn({o \in Answered : p \in ToldOfJoin(o)})
    <3>1. CASE Joined(q)
      BY <2>1, <2>3, <3>1 DEF ViewsComplete
    <3>2. CASE ~Joined(q)
      <4>1. q \notin rooms'
        <5>1. Entered(q) /\ ~Crash
          BY <2>3 DEF BaseInv, DirectoryInv, Members, Crash
        <5>2. ~RegisterRoom(q)
          BY <5>1 DEF RegisterRoom, Entered
        <5>3. \A o \in Requests : RegisterRoom(o) /\ rooms' = rooms \cup {o} => q \notin rooms'
          BY <3>2, <5>2 DEF Joined
        <5> QED BY <3>2, <5>1, <5>3, RoomsGrow DEF Joined, BaseInv
      <4>2. q \in Answered
        BY <1>0, <3>2, <4>1, JoinedSteps DEF Joined, BaseInv
      <4>3. home[q] = r
        BY <2>3 DEF HomeKnown
      <4>4. p \in ToldOfJoin(q)
        BY <2>1, <3>2, <4>3 DEF ToldOfJoin, Joined
      <4> QED BY <4>2, <4>4 DEF UsersIn
    <3> QED BY <3>1, <3>2
  <2> QED BY <2>2, <2>4, <2>5 DEF UsersIn
<1> QED BY <1>1, <1>2

ViewInv == HomeKnown /\ RoomViewCurrent /\ ViewsComplete

LEMMA ViewInvariant == SpecV => [](BaseInv /\ ViewInv)
<1>1. InitV => ViewInv
  BY DEF InitV, InitH, Init, ViewInv, HomeKnown, RoomViewCurrent, ViewsComplete, Entered
<1>2. BaseInv /\ BaseInv' /\ ViewInv /\ [NextV]_viewedVars => ViewInv'
  <2>1. CASE NextH /\ ViewStep
    BY <2>1, HomeStaysKnown, CurrentKept, CompleteKept DEF ViewInv, NextH
  <2>2. ASSUME ViewInv, UNCHANGED <<allVars, home, shown, vanished>>
        PROVE  ViewInv'
    <3>1. UNCHANGED <<peers, rooms, pc, connection, home, shown, vanished>>
      BY <2>2 DEF allVars, vars, socketVars, requestVars, registryVars
    <3> QED BY <2>2, <3>1 DEF ViewInv, HomeKnown, Entered, RoomViewCurrent, ViewsComplete, Views,
            Joined
  <2> QED BY <2>1, <2>2 DEF NextV, ReadJoiners, viewedVars, viewVars
<1> QED BY <1>1, <1>2, ViewedSpec, HistorySpec, BaseInvariant, PTL DEF SpecV

(* A client shows nobody who has left its room: every exit reaches it, in  *)
(* whatever order peers join, are answered and leave; the exception is a   *)
(* peer that leaves before its own join is announced.                      *)
THEOREM RoomViewsCurrent == SpecV => []RoomViewCurrent
<1>1. ViewInv => RoomViewCurrent
  BY DEF ViewInv
<1> QED BY <1>1, ViewInvariant, PTL

(* A client shows everybody who has joined its room, if each has one tab:  *)
(* the answer of its join and the announcements after it leave no gap, and *)
(* the peer the Room was built for, whom nobody announces, is in every     *)
(* answer.                                                                 *)
THEOREM RoomViewsComplete == SpecV => []RoomViewComplete
<1>1. BaseInv /\ ViewInv => RoomViewComplete
  BY DEF BaseInv, TypeInv, TypeOK, ViewInv, ViewsComplete, Joined, RoomViewComplete
<1> QED BY <1>1, ViewInvariant, PTL

----------------------------------------------------------------------------
(* Views of a waiting room.                                                *)

Single == \A q \in Requests : OnlyRequestOfItsUser(q)
Overwritten(id) == \E r \in rooms : targetId[r] = id /\ peers[r] # {} /\ roomById[id] # r

(* What a waiting client has been told: the joiners, and those announced   *)
(* for a room that is still being built.                                   *)
Expected(id) == JoinersOf(id) \cup UsersIn(Pending(id))

(* What the running process says of its waiting rooms.                     *)
DeadWaits == ~alive => \A id \in RoomIds : socketsByRoomId[id] = {}
SnapshotUsed(l) == snapshot[l] # None => lookup[l] \in DbRooms
WaitingView(s) ==
    \A id \in RoomIds : s \in socketsByRoomId[id] /\ ~Overwritten(id) =>
        joiners[s] = Expected(id)
SnapshotFresh(l) ==
    snapshot[l] # None /\ ~Overwritten(lookup[l]) =>
        Pending(lookup[l]) = {} /\ snapshot[l] = JoinersOf(lookup[l])
WaitInv ==
    /\ DeadWaits
    /\ \A l \in Lookups :
          /\ SnapshotUsed(l)
          /\ Single /\ l \notin missed => SnapshotFresh(l)
    /\ \A s \in Sockets : Single /\ s \notin strayed \cup outdated => WaitingView(s)

(* A Room that lost its place to another keeps the peers it has: leaves    *)
(* find the other.                                                         *)
LEMMA OverwrittenStays ==
  ASSUME TypeInv, RegistryInv, Next, ~Crash, NEW id \in RoomIds, Overwritten(id)
  PROVE  Overwritten(id)'
<1>1. PICK r \in rooms : targetId[r] = id /\ peers[r] # {} /\ roomById[id] # r
  BY DEF Overwritten
<1>2. r \in Requests /\ Entered(r) /\ r \in rooms'
  BY RoomsGrow DEF TypeInv, TypeOK, KnowsTarget
<1>3. targetId'[r] = id
  BY <1>1, <1>2, EnteredStays
<1>4. peers'[r] # {} /\ roomById'[id] # r
  <2>1. CASE UNCHANGED registryVars
    BY <1>1, <2>1 DEF registryVars
  <2>2. ASSUME NEW s \in Sockets, Departs(s), FindRoomBySocketId(s) # None
        PROVE  peers'[r] # {} /\ roomById'[id] # r
    <3>1. PICK q \in Requests, x \in Requests :
             /\ roomById[targetId[x]] = x /\ targetId[x] \in RoomIds
             /\ peers' = [peers EXCEPT ![x] = @ \ {q}]
             /\ roomById' \in {[roomById EXCEPT ![targetId[x]] = None], roomById}
      BY <2>2, Departure
    <3>2. x # r
      BY <1>1, <3>1
    <3> QED BY <1>1, <1>2, <3>1, <3>2, NoneIsFresh DEF TypeInv, TypeOK
  <2>3. ASSUME NEW q \in Requests, JoinExistingRoom(q)
        PROVE  peers'[r] # {} /\ roomById'[id] # r
    BY <1>1, <1>2, <2>3 DEF JoinExistingRoom, TypeInv, TypeOK
  <2>4. ASSUME NEW q \in Requests, RegisterRoom(q)
        PROVE  peers'[r] # {} /\ roomById'[id] # r
    <3>1. q # r
      BY <1>2, <2>4 DEF RegisterRoom, Entered
    <3> QED BY <1>1, <1>2, <2>4, <3>1 DEF RegisterRoom, TypeInv, TypeOK
  <2> QED BY <2>1, <2>2, <2>3, <2>4, PeersGrow
<1> QED BY <1>2, <1>3, <1>4 DEF Overwritten

LEMMA ArrivingSteps ==
  ASSUME TypeInv, Next, ~Crash, NEW q \in Requests
  PROVE  q \in Arriving <=> JoinExistingRoom(q) \/ RouterCreated(q)
<1>1. ASSUME JoinExistingRoom(q) \/ RouterCreated(q) PROVE q \in Arriving
  BY <1>1 DEF JoinExistingRoom, RouterCreated, Admitted, Goto, Arriving, TypeInv, TypeOK
<1>2. ASSUME q \in Arriving PROVE JoinExistingRoom(q) \/ RouterCreated(q)
  <2>1. RequestMoves(q)
    BY <1>2, HandlerMoves DEF Arriving
  <2> QED BY <1>2, <2>1 DEF Arriving, RequestMoves, JoinRoom, LearnMaster, CheckBlacklistRows,
          RefusePassword, StartCreatingRoom, FetchBlacklist, RegisterRoom, RecordHistory,
          CompleteJoin, Admitted, Goto, Verdict, TypeInv, TypeOK
<1> QED BY <1>1, <1>2

LEMMA PendingSteps ==
  ASSUME TypeInv, Next, ~Crash, NEW q \in Requests, NEW id
  PROVE  q \in Pending(id)' <=> \/ q \in Pending(id) /\ ~RegisterRoom(q)
                                \/ RouterCreated(q) /\ targetId[q] = id
<1>1. CASE pc'[q] = pc[q]
  <2>1. ~RegisterRoom(q) /\ ~RouterCreated(q)
    BY <1>1 DEF RegisterRoom, RouterCreated, Goto, TypeInv, TypeOK
  <2>2. pc[q] \in {"room", "register"} => targetId'[q] = targetId[q]
    BY TargetSteps
  <2> QED BY <1>1, <2>1, <2>2 DEF Pending
<1>2. CASE pc'[q] # pc[q]
  <2>1. RequestMoves(q)
    BY <1>2, HandlerMoves
  <2>2. CASE RegisterRoom(q)
    BY <2>2 DEF RegisterRoom, RouterCreated, Goto, Pending, TypeInv, TypeOK
  <2>3. CASE RouterCreated(q)
    BY <2>3 DEF RouterCreated, Goto, Pending, TypeInv, TypeOK
  <2>4. CASE FetchBlacklist(q)
    BY <2>4 DEF FetchBlacklist, RegisterRoom, RouterCreated, Goto, Pending, TypeInv, TypeOK
  <2>5. CASE ~RegisterRoom(q) /\ ~RouterCreated(q) /\ ~FetchBlacklist(q)
    <3>1. pc[q] \notin {"room", "register"} /\ pc'[q] \notin {"room", "register"}
      BY <2>1, <2>5 DEF RequestMoves, JoinRoom, LearnMaster, CheckBlacklistRows, RefusePassword,
         JoinExistingRoom, StartCreatingRoom, RecordHistory, CompleteJoin, Admitted, Goto,
         Verdict, TypeInv, TypeOK
    <3> QED BY <2>5, <3>1 DEF Pending
  <2> QED BY <2>2, <2>3, <2>4, <2>5
<1> QED BY <1>1, <1>2

(* One handler goes on at a time, and no socket closes in its step.        *)
LEMMA OneHandler ==
  ASSUME TypeInv, NEW q \in Requests,
         JoinExistingRoom(q) \/ RegisterRoom(q) \/ RouterCreated(q)
  PROVE  /\ \A p \in Requests : JoinExistingRoom(p) \/ RegisterRoom(p) \/ RouterCreated(p)
                                => p = q
         /\ JoinExistingRoom(q) => ~RegisterRoom(q) /\ ~RouterCreated(q)
         /\ RegisterRoom(q) => ~RouterCreated(q)
<1>1. ASSUME NEW p \in Requests, JoinExistingRoom(p) \/ RegisterRoom(p) \/ RouterCreated(p)
      PROVE  pc'[p] # pc[p] /\ \E stage : pc' = [pc EXCEPT ![p] = stage]
  BY <1>1 DEF JoinExistingRoom, RegisterRoom, RouterCreated, Admitted, Goto, TypeInv, TypeOK
<1>2. ASSUME NEW p \in Requests, JoinExistingRoom(p) \/ RegisterRoom(p) \/ RouterCreated(p)
      PROVE  p = q
  BY <1>1, <1>2 DEF TypeInv, TypeOK
<1> QED BY <1>2 DEF JoinExistingRoom, RegisterRoom, RouterCreated, Admitted

ArrivingAt(id) == {q \in Arriving : targetId'[q] = id}
LeavingFrom(id) == {q \in Leaving : targetId[q] = id}

(* While no Room of the id is overwritten, what is announced is what       *)
(* changes.                                                                *)
LEMMA ArrivalExpected ==
  ASSUME BaseInv, BaseInv', Next, ~Crash, NEW id \in RoomIds, ~Overwritten(id)',
         NEW q \in Requests, JoinExistingRoom(q) \/ RegisterRoom(q) \/ RouterCreated(q)
  PROVE  /\ LeavingFrom(id) = {}
         /\ Expected(id)' = Expected(id) \cup UsersIn(ArrivingAt(id))
<1> USE DEF BaseInv
<1>0. /\ \A p \in Requests : p \in Arriving => p = q
      /\ \A p \in Requests \ {q} : p \in Pending(id)' <=> p \in Pending(id)
  BY OneHandler, ArrivingSteps, PendingSteps
<1>1. CASE JoinExistingRoom(q)
  <2> DEFINE x == targetId'[q]
  <2>1. /\ x \in RoomIds /\ roomById[x] \in Requests /\ roomById' = roomById
        /\ peers' = [peers EXCEPT ![roomById[x]] = @ \cup {q}]
    BY <1>1 DEF JoinExistingRoom, Admitted, TypeInv, TypeOK, KnowsTarget, InFlight, AwaitStages
  <2>2. \A r \in Requests : peers[r] \subseteq peers'[r]
    BY <2>1 DEF TypeInv, TypeOK
  <2>3. q \in Arriving /\ q \notin Pending(id) /\ q \notin Pending(id)'
    BY <1>1, ArrivingSteps, PendingSteps, OneHandler DEF Pending, JoinExistingRoom, Admitted
  <2>4. Pending(id)' = Pending(id)
    BY <1>0, <2>3 DEF Pending
  <2>5. LeavingFrom(id) = {}
    BY <2>2 DEF LeavingFrom, Leaving
  <2>6. CASE x = id
    <3>1. ArrivingAt(id) = {q}
      BY <1>0, <2>3, <2>6 DEF ArrivingAt, Arriving
    <3>2. JoinersOf(id)' = JoinersOf(id) \cup {UserOf[q]}
      BY <2>1, <2>6, NoneIsFresh DEF JoinersOf, UsersIn, TypeInv, TypeOK
    <3> QED BY <2>4, <2>5, <3>1, <3>2 DEF Expected, UsersIn
  <2>7. CASE x # id
    <3>1. ArrivingAt(id) = {}
      BY <1>0, <2>7 DEF ArrivingAt, Arriving
    <3>2. JoinersOf(id)' = JoinersOf(id)
      BY <1>1, <2>1, <2>7, Entry DEF JoinersOf
    <3> QED BY <2>4, <2>5, <3>1, <3>2 DEF Expected, UsersIn
  <2> QED BY <2>6, <2>7
<1>2. CASE RouterCreated(q)
  <2>1. UNCHANGED <<peers, roomById>> /\ targetId'[q] = targetId[q]
    BY <1>2 DEF RouterCreated, registryVars
  <2>2. /\ q \in Arriving /\ q \notin Pending(id)
        /\ q \in Pending(id)' <=> targetId[q] = id
    BY <1>2, ArrivingSteps, PendingSteps DEF Pending, RouterCreated
  <2>3. Pending(id)' = Pending(id) \cup ArrivingAt(id)
    BY <1>0, <2>1, <2>2 DEF Pending, ArrivingAt, Arriving
  <2>4. LeavingFrom(id) = {} /\ JoinersOf(id)' = JoinersOf(id)
    BY <2>1 DEF LeavingFrom, Leaving, JoinersOf
  <2> QED BY <2>3, <2>4 DEF Expected, UsersIn
<1>3. CASE RegisterRoom(q)
  <2>1. /\ peers' = [peers EXCEPT ![q] = {q}] /\ rooms' = rooms \cup {q}
        /\ roomById' = [roomById EXCEPT ![targetId[q]] = q] /\ targetId' = targetId
        /\ targetId[q] \in RoomIds /\ q \notin rooms
    BY <1>3 DEF RegisterRoom, TypeInv, KnowsTarget, InFlight, AwaitStages, Entered
  <2>2. \A r \in Requests : peers[r] \subseteq peers'[r]
    BY <2>1 DEF TypeInv, TypeOK, DirectoryInv, Members
  <2>3. ArrivingAt(id) = {} /\ LeavingFrom(id) = {}
    BY <1>0, <1>3, <2>2, ArrivingSteps, OneHandler DEF ArrivingAt, Arriving, LeavingFrom, Leaving
  <2>4. q \notin Pending(id)' /\ (q \in Pending(id) <=> targetId[q] = id)
    BY <1>3, PendingSteps, OneHandler DEF Pending, RegisterRoom
  <2>5. CASE targetId[q] = id
    <3>1. roomById[id] = None
      <4> SUFFICES ASSUME roomById[id] # None PROVE FALSE
        OBVIOUS
      <4>1. PICK r \in Requests : r = roomById[id] /\ r \in rooms /\ targetId[r] = id /\ peers[r] # {}
        BY DEF RegistryInv, RegisteredRoomLives, TypeInv, TypeOK
      <4>2. peers'[r] # {} /\ r \in rooms' /\ targetId'[r] = id /\ roomById'[id] # r
        BY <2>1, <2>2, <2>5, <4>1 DEF TypeInv, TypeOK
      <4> QED BY <4>2 DEF Overwritten
    <3>2. JoinersOf(id) = {} /\ JoinersOf(id)' = {UserOf[q]}
      BY <2>1, <2>5, <3>1, NoneIsFresh DEF JoinersOf, UsersIn, TypeInv, TypeOK
    <3>3. Pending(id) = Pending(id)' \cup {q}
      BY <1>0, <2>4, <2>5 DEF Pending
    <3> QED BY <2>3, <3>2, <3>3 DEF Expected, UsersIn
  <2>6. CASE targetId[q] # id
    <3>1. JoinersOf(id)' = JoinersOf(id)
      <4>1. /\ roomById'[id] = roomById[id]
            /\ roomById[id] # None => peers'[roomById[id]] = peers[roomById[id]]
        BY <1>3, <2>1, <2>6, Entry
      <4> QED BY <4>1 DEF JoinersOf
    <3>2. Pending(id)' = Pending(id)
      BY <1>0, <2>4, <2>6 DEF Pending
    <3> QED BY <2>3, <3>1, <3>2 DEF Expected, UsersIn
  <2> QED BY <2>5, <2>6
<1> QED BY <1>1, <1>2, <1>3

LEMMA DepartureExpected ==
  ASSUME BaseInv, Next, ~Crash, Single, NEW id \in RoomIds,
         NEW s \in Sockets, Departs(s), FindRoomBySocketId(s) # None
  PROVE  /\ ArrivingAt(id) = {}
         /\ Pending(id)' = Pending(id)
         /\ Expected(id)' = Expected(id) \ UsersIn(LeavingFrom(id))
         /\ LeavingFrom(id) = {} => JoinersOf(id)' = JoinersOf(id)
<1> USE DEF BaseInv
<1>0. UNCHANGED <<pc, targetId>> /\ alive'
  BY DEF Departs, Stays, requestVars, processVars
<1>1. ArrivingAt(id) = {} /\ Pending(id)' = Pending(id)
  BY <1>0 DEF ArrivingAt, Arriving, Pending
<1>2. PICK q \in Requests, r \in Requests :
         /\ q \in peers[r] /\ targetId[r] \in RoomIds /\ roomById[targetId[r]] = r
         /\ peers' = [peers EXCEPT ![r] = @ \ {q}]
         /\ roomById' = IF peers[r] = {q} THEN [roomById EXCEPT ![targetId[r]] = None] ELSE roomById
  BY Departure
<1>3. targetId[q] = targetId[r] /\ Entered(q)
  BY <1>2 DEF DirectoryInv, Members
<1>4. Leaving = {q}
  BY <1>0, <1>2 DEF Leaving, TypeInv, TypeOK
<1>5. \A p \in Requests : UserOf[p] = UserOf[q] => p = q
  BY DEF Single, OnlyRequestOfItsUser
<1>6. CASE targetId[r] = id
  <2>1. LeavingFrom(id) = {q}
    BY <1>3, <1>4, <1>6 DEF LeavingFrom
  <2>2. q \notin Pending(id)
    BY <1>3 DEF Pending, Entered
  <2>3. UserOf[q] \notin UsersIn(Pending(id))
    BY <1>5, <2>2 DEF UsersIn, Pending
  <2>4. JoinersOf(id) = UsersIn(peers[r])
    BY <1>2, <1>6, NoneIsFresh DEF JoinersOf
  <2>5. JoinersOf(id)' = UsersIn(peers[r] \ {q})
    <3>1. CASE peers[r] = {q}
      BY <1>2, <1>6, <3>1 DEF JoinersOf, UsersIn, TypeInv, TypeOK
    <3>2. CASE peers[r] # {q}
      BY <1>2, <1>6, <3>2, NoneIsFresh DEF JoinersOf, TypeInv, TypeOK
    <3> QED BY <3>1, <3>2
  <2>6. UsersIn(peers[r] \ {q}) = UsersIn(peers[r]) \ {UserOf[q]}
    BY <1>5 DEF UsersIn, TypeInv, TypeOK
  <2>7. UsersIn({q}) = {UserOf[q]}
    BY DEF UsersIn
  <2> QED BY <1>1, <2>1, <2>3, <2>4, <2>5, <2>6, <2>7 DEF Expected
<1>7. CASE targetId[r] # id
  <2>1. LeavingFrom(id) = {} /\ UsersIn({}) = {}
    BY <1>3, <1>4, <1>7 DEF LeavingFrom, UsersIn
  <2>2. roomById'[id] = roomById[id]
    BY <1>2, <1>7 DEF TypeInv, TypeOK
  <2>3. roomById[id] # None => roomById[id] # r /\ roomById[id] \in Requests
    BY <1>7 DEF RegistryInv, RegisteredRoomLives, TypeInv, TypeOK
  <2>4. JoinersOf(id)' = JoinersOf(id)
    BY <1>2, <2>2, <2>3 DEF JoinersOf, TypeInv, TypeOK
  <2> QED BY <1>1, <2>1, <2>4 DEF Expected
<1> QED BY <1>6, <1>7

LEMMA QuietExpected ==
  ASSUME BaseInv, Next, ~Crash, NEW id, UNCHANGED registryVars,
         \A q \in Requests : ~JoinExistingRoom(q) /\ ~RegisterRoom(q) /\ ~RouterCreated(q)
  PROVE  /\ Arriving = {} /\ Leaving = {}
         /\ Pending(id)' = Pending(id) /\ JoinersOf(id)' = JoinersOf(id)
<1>1. Arriving = {}
  BY ArrivingSteps DEF Arriving, BaseInv
<1>2. \A q \in Requests : q \in Pending(id)' <=> q \in Pending(id)
  BY PendingSteps DEF BaseInv
<1>3. Pending(id)' = Pending(id)
  BY <1>2 DEF Pending
<1> QED BY <1>1, <1>3 DEF Leaving, JoinersOf, registryVars

LEMMA ExpectedSteps ==
  ASSUME BaseInv, BaseInv', Next, ~Crash, Single, NEW id \in RoomIds, ~Overwritten(id)'
  PROVE  Expected(id)' = (Expected(id) \cup UsersIn(ArrivingAt(id))) \ UsersIn(LeavingFrom(id))
<1>1. UsersIn({}) = {}
  BY DEF UsersIn
<1>2. CASE \E q \in Requests : JoinExistingRoom(q) \/ RegisterRoom(q) \/ RouterCreated(q)
  BY <1>1, <1>2, ArrivalExpected
<1>3. CASE \E s \in Sockets : Departs(s) /\ FindRoomBySocketId(s) # None
  BY <1>1, <1>3, DepartureExpected
<1>4. CASE /\ UNCHANGED registryVars
           /\ \A q \in Requests : ~JoinExistingRoom(q) /\ ~RegisterRoom(q) /\ ~RouterCreated(q)
  <2>1. Expected(id)' = Expected(id)
    BY <1>4, QuietExpected DEF Expected
  <2>2. ArrivingAt(id) = {} /\ LeavingFrom(id) = {}
    BY <1>4, QuietExpected DEF ArrivingAt, LeavingFrom
  <2> QED BY <1>1, <2>1, <2>2
<1> QED BY <1>2, <1>3, <1>4, PeersGrow DEF BaseInv

(* Where nothing is announced and nothing pending, the joiners stay.       *)
LEMMA UnannouncedStays ==
  ASSUME BaseInv, BaseInv', Next, ~Crash, Single, NEW id \in RoomIds,
         ~Announces(id), Pending(id) = {}
  PROVE  Pending(id)' = {} /\ JoinersOf(id)' = JoinersOf(id)
<1>1. ArrivingAt(id) = {} /\ LeavingFrom(id) = {}
  BY DEF Announces, ArrivingAt, LeavingFrom
<1>2. \A q \in Requests : q \notin Pending(id)'
  <2> SUFFICES ASSUME NEW q \in Requests, RouterCreated(q), targetId[q] = id PROVE FALSE
    BY PendingSteps DEF BaseInv
  <2>1. q \in Arriving /\ targetId'[q] = id
    BY ArrivingSteps DEF RouterCreated, BaseInv
  <2> QED BY <1>1, <2>1 DEF ArrivingAt
<1>3. Pending(id)' = {}
  BY <1>2 DEF Pending
<1>4. ASSUME NEW q \in Requests, JoinExistingRoom(q) \/ RegisterRoom(q)
      PROVE  JoinersOf(id)' = JoinersOf(id)
  <2>1. targetId'[q] # id
    <3>1. CASE JoinExistingRoom(q)
      BY <1>1, <3>1, ArrivingSteps DEF ArrivingAt, BaseInv
    <3>2. CASE RegisterRoom(q)
      BY <3>2 DEF RegisterRoom, Pending
    <3> QED BY <1>4, <3>1, <3>2
  <2> QED BY <1>4, <2>1, Entry DEF JoinersOf, BaseInv
<1>5. UNCHANGED registryVars => JoinersOf(id)' = JoinersOf(id)
  BY DEF JoinersOf, registryVars
<1> QED BY <1>1, <1>3, <1>4, <1>5, DepartureExpected, PeersGrow DEF BaseInv

----------------------------------------------------------------------------
(* Sockets that wait.                                                      *)

LEMMA LookupSteps ==
  ASSUME TypeInv, Next, ~Crash, NEW l \in Lookups, lookup'[l] # lookup[l]
  PROVE  lookup[l] = None \/ (EnterWaitingRoom(l) /\ lookup'[l] = None)
<1>1. ASSUME NEW q \in Requests PROVE ~RequestMoves(q)
  BY DEF RequestMoves, JoinRoom, LearnMaster, CheckBlacklistRows, RefusePassword,
     JoinExistingRoom, StartCreatingRoom, RouterCreated, FetchBlacklist, RegisterRoom,
     RecordHistory, CompleteJoin, socketVars
<1>2. ~Restart /\ ~NobodyDeparts
  BY DEF Restart, NobodyDeparts, Stays, socketVars
<1>3. ASSUME NEW t \in Sockets, WaitingMoves(t)
      PROVE  lookup[l] = None \/ (EnterWaitingRoom(l) /\ lookup'[l] = None)
  BY <1>3 DEF WaitingMoves, Connect, EnterWaitingRoom, JoinWaitingRoom, TypeInv, TypeOK
<1>4. ASSUME NEW t \in Sockets PROVE ~ExitStep(t) /\ ~Departs(t)
  BY DEF ExitStep, FindOpenRow, CloseRow, AnnounceRemoval, Departs, Stays, socketVars
<1>5. ASSUME NEW c \in Commands PROVE ~CommandMoves(c)
  BY DEF CommandMoves, InsertBlock, DeleteBlock, FinishUnblock, BlockUser, UnblockUser, socketVars
<1> QED BY <1>1, <1>2, <1>3, <1>4, <1>5, StepCases

(* A socket is listed by the answer of a call of its own only.             *)
LEMMA ListedSteps ==
  ASSUME TypeInv, Next, ~Crash, NEW s \in Sockets, AnswersTo(s) = {}, NEW id \in RoomIds,
         s \in socketsByRoomId'[id]
  PROVE  s \in socketsByRoomId[id]
<1>1. ASSUME NEW l \in Lookups, EnterWaitingRoom(l), lookup[l] \in DbRooms,
             Waiting!Join(lookup[l], CallerOf[l])
      PROVE  s \in socketsByRoomId[id]
  <2>1. CallerOf[l] # s
    BY <1>1 DEF EnterWaitingRoom, AnswersTo, PutInWaitingRoom, processVars, TypeInv, TypeOK
  <2> QED BY <1>1, <2>1, ConstantsTyped DEF Waiting!Join, TypeInv, TypeOK
<1>2. ASSUME NEW t \in Sockets, Waiting!Remove(t)
      PROVE  s \in socketsByRoomId[id]
  BY <1>2 DEF Waiting!Remove
<1> QED BY <1>1, <1>2, WaitingCalls DEF waitingVars

LEMMA PutSteps ==
  ASSUME TypeInv, Next, NEW l \in Lookups, PutInWaitingRoom(l)
  PROVE  /\ ~Crash /\ lookup[l] \in RoomIds /\ CallerOf[l] \in socketsByRoomId'[lookup[l]]
         /\ \A id \in RoomIds \ {lookup[l]} : socketsByRoomId'[id] = socketsByRoomId[id]
         /\ UNCHANGED <<pc, targetId, peers, roomById, rooms>>
         /\ AnswersTo(CallerOf[l]) = {l}
<1>1. ~Crash /\ lookup[l] \in RoomIds /\ CallerOf[l] \in Sockets
  BY ConstantsTyped DEF PutInWaitingRoom, Crash
<1>2. EnterWaitingRoom(l)
  BY <1>1, LookupSteps, NoneIsFresh DEF PutInWaitingRoom
<1>3. \A k \in Lookups : PutInWaitingRoom(k) => k = l
  BY <1>2, NoneIsFresh, ConstantsTyped DEF EnterWaitingRoom, PutInWaitingRoom, TypeInv, TypeOK
<1>4. AnswersTo(CallerOf[l]) = {l}
  BY <1>3 DEF AnswersTo
<1>5. lookup[l] \in DbRooms
  BY DEF PutInWaitingRoom
<1> QED BY <1>1, <1>2, <1>4, <1>5 DEF EnterWaitingRoom, Waiting!Join, requestVars,
        registryVars, TypeInv, TypeOK

LEMMA DeadWaitsStays ==
  ASSUME TypeInv, DeadWaits, Next
  PROVE  DeadWaits'
<1>1. CASE Crash
  BY <1>1 DEF Crash, DeadWaits
<1>2. CASE ~Crash /\ ~alive
  BY <1>2, AliveSteps DEF DeadWaits, Restart, NobodyDeparts, waitingVars
<1>3. CASE ~Crash /\ alive
  BY <1>3, AliveEnds DEF DeadWaits
<1> QED BY <1>1, <1>2, <1>3

LEMMA SnapshotStaysUsed ==
  ASSUME TypeInv, Next, ViewStep, NEW l \in Lookups, SnapshotUsed(l), snapshot'[l] # None
  PROVE  /\ ~Crash /\ lookup'[l] = lookup[l] /\ lookup[l] \in DbRooms /\ lookup[l] \in RoomIds
         /\ snapshot'[l] = snapshot[l]
<1>1. lookup'[l] # None /\ snapshot'[l] = snapshot[l]
  BY DEF ViewStep
<1>2. lookup[l] \in DbRooms /\ lookup[l] \in RoomIds /\ ~Crash
  BY <1>1, ConstantsTyped DEF SnapshotUsed, Crash
<1> QED BY <1>1, <1>2, LookupSteps, NoneIsFresh

LEMMA SnapshotStaysFresh ==
  ASSUME BaseInv, BaseInv', Next, ViewStep, Single, NEW l \in Lookups,
         SnapshotUsed(l), l \notin missed', l \notin missed => SnapshotFresh(l)
  PROVE  SnapshotFresh(l)'
<1> SUFFICES ASSUME snapshot'[l] # None PROVE SnapshotFresh(l)'
  BY DEF SnapshotFresh
<1>1. PICK id \in RoomIds : id = lookup[l]
  BY SnapshotStaysUsed DEF BaseInv
<1>2. ~Crash /\ lookup'[l] = id /\ snapshot'[l] = snapshot[l]
  BY <1>1, SnapshotStaysUsed DEF BaseInv
<1>3. l \notin missed /\ ~Announces(id)
  BY <1>1, <1>2, NoneIsFresh DEF ViewStep
<1>4. ASSUME ~Overwritten(id)'
      PROVE  Pending(id)' = {} /\ snapshot'[l] = JoinersOf(id)'
  <2>1. Pending(id) = {} /\ snapshot[l] = JoinersOf(id)
    BY <1>1, <1>2, <1>3, <1>4, OverwrittenStays DEF SnapshotFresh, BaseInv
  <2> QED BY <1>2, <1>3, <2>1, UnannouncedStays
<1> QED BY <1>2, <1>4 DEF SnapshotFresh

(* Every announcement is for a room id.                                    *)
LEMMA AnnouncesKnown ==
  ASSUME BaseInv, BaseInv', Next, ~Crash
  PROVE  /\ \A q \in Arriving : targetId'[q] \in RoomIds
         /\ \A q \in Leaving : targetId[q] \in RoomIds
<1>1. ASSUME NEW q \in Arriving PROVE targetId'[q] \in RoomIds
  <2>1. q \in Requests /\ (JoinExistingRoom(q) \/ RouterCreated(q))
    BY ArrivingSteps DEF Arriving, BaseInv
  <2>2. InFlight(q)'
    BY <1>1 DEF Arriving, InFlight, AwaitStages
  <2> QED BY <2>1, <2>2 DEF BaseInv, TypeInv, KnowsTarget
<1>2. ASSUME NEW q \in Leaving PROVE targetId[q] \in RoomIds
  <2>1. PICK r \in Requests : q \in peers[r]
    BY DEF Leaving
  <2>2. r \in rooms /\ targetId[q] = targetId[r]
    BY <2>1 DEF BaseInv, DirectoryInv, Members
  <2> QED BY <2>2, ConstantsTyped DEF BaseInv, TypeInv, KnowsTarget
<1> QED BY <1>1, <1>2

(* What a waiting client is told is what is announced for its room.        *)
LEMMA WaitersTold ==
  ASSUME BaseInv, BaseInv', Next, ~Crash, NEW s \in Sockets, ListedOnce(s)', NEW id \in RoomIds,
         s \in socketsByRoomId'[id]
  PROVE  /\ {q \in Arriving : s \in WaitersToldOfJoin(q)} = ArrivingAt(id)
         /\ {q \in Leaving : s \in WaitersToldOfExit(q)} = LeavingFrom(id)
<1>1. \A x \in RoomIds : s \in socketsByRoomId'[x] <=> x = id
  BY DEF ListedOnce
<1> QED BY <1>1, AnnouncesKnown DEF WaitersToldOfJoin, WaitersToldOfExit, ArrivingAt, LeavingFrom

LEMMA WaitingViewKept ==
  ASSUME BaseInv, BaseInv', Exact', DeadWaits', WaitInv, Next, HistoryStep, ViewStep, Single,
         NEW s \in Sockets, s \notin strayed' \cup outdated'
  PROVE  WaitingView(s)'
<1> SUFFICES ASSUME NEW id \in RoomIds, s \in socketsByRoomId'[id], ~Overwritten(id)'
             PROVE  joiners'[s] = Expected(id)'
  BY DEF WaitingView
<1>1. /\ ~Crash /\ alive' /\ id \in WaitingRoomsOf(s)' /\ ListedOnce(s)'
      /\ ~Overwritten(id)
  <2>1. ~Crash /\ alive'
    BY DEF DeadWaits, Crash
  <2> QED BY <2>1, OverwrittenStays DEF WaitingRoomsOf, Exact, BaseInv
<1>2. s \notin strayed
  BY <1>1 DEF HistoryStep
<1>3. joiners'[s] = ShowWaitingRoom(s)
  BY DEF ViewStep
<1>5. ASSUME NEW l \in Lookups, CallerOf[l] = s, PutInWaitingRoom(l)
      PROVE  joiners'[s] = Expected(id)'
  <2>0. /\ l \in AnswersTo(s) /\ AnswersTo(s) = {l}
        /\ snapshot[l] # None /\ l \notin missed /\ WaitingRoomsOf(s) \ {lookup[l]} = {}
    <3>1. AnswersTo(s) = {l}
      BY <1>5, PutSteps DEF BaseInv
    <3>2. snapshot[l] # None
      BY <1>5 DEF ViewStep
    <3>3. l \notin missed
      BY <1>1, <3>1 DEF ViewStep
    <3>4. WaitingRoomsOf(s) \ {lookup[l]} = {}
      BY <1>1, <3>1 DEF HistoryStep
    <3> QED BY <3>1, <3>2, <3>3, <3>4
  <2>1. id = lookup[l]
    BY <1>1, <1>5, <2>0, PutSteps DEF WaitingRoomsOf, BaseInv
  <2>2. Pending(id) = {} /\ snapshot[l] = JoinersOf(id)
    BY <1>1, <2>0, <2>1 DEF WaitInv, SnapshotFresh
  <2>3. Pending(id)' = Pending(id) /\ JoinersOf(id)' = JoinersOf(id)
    BY <1>5, PutSteps DEF Pending, JoinersOf, BaseInv
  <2>4. joiners'[s] = snapshot[l]
    BY <1>1, <1>3, <2>0 DEF ShowWaitingRoom
  <2> QED BY <2>2, <2>3, <2>4 DEF Expected, UsersIn
<1>6. CASE AnswersTo(s) = {}
  <2>0. s \notin outdated
    BY <1>1, <1>6 DEF ViewStep
  <2>1. joiners[s] = Expected(id)
    BY <1>1, <1>2, <1>6, <2>0, ListedSteps DEF WaitInv, WaitingView, BaseInv
  <2>2. joiners'[s] = (joiners[s] \cup UsersIn(ArrivingAt(id))) \ UsersIn(LeavingFrom(id))
    BY <1>1, <1>3, <1>6, WaitersTold DEF ShowWaitingRoom
  <2> QED BY <1>1, <2>1, <2>2, ExpectedSteps
<1> QED BY <1>5, <1>6 DEF AnswersTo

LEMMA WaitInvKept ==
  BaseInv /\ BaseInv' /\ Exact' /\ WaitInv /\ [NextV]_viewedVars => WaitInv'
<1> SUFFICES ASSUME BaseInv, BaseInv', Exact', WaitInv, [NextV]_viewedVars
             PROVE  WaitInv'
  OBVIOUS
<1>0. Single' <=> Single
  BY DEF Single, OnlyRequestOfItsUser
<1>1. CASE NextH /\ ViewStep
  <2>1. Next /\ HistoryStep /\ ViewStep
    BY <1>1 DEF NextH
  <2>2. DeadWaits'
    BY <2>1, DeadWaitsStays DEF WaitInv, BaseInv
  <2>3. ASSUME NEW l \in Lookups
        PROVE  /\ SnapshotUsed(l)'
               /\ Single' /\ l \notin missed' => SnapshotFresh(l)'
    <3>1. SnapshotUsed(l)'
      BY <2>1, SnapshotStaysUsed DEF WaitInv, BaseInv, SnapshotUsed
    <3>2. Single /\ l \notin missed' => SnapshotFresh(l)'
      BY <2>1, SnapshotStaysFresh DEF WaitInv
    <3> QED BY <1>0, <3>1, <3>2
  <2>4. ASSUME NEW s \in Sockets
        PROVE  Single' /\ s \notin strayed' \cup outdated' => WaitingView(s)'
    BY <1>0, <2>1, <2>2, WaitingViewKept
  <2> QED BY <2>2, <2>3, <2>4 DEF WaitInv
<1>2. ASSUME NEW k \in Lookups, ReadJoiners(k) PROVE WaitInv'
  <2>1. UNCHANGED allVars /\ UNCHANGED <<joiners, outdated>> /\ alive
    BY <1>2 DEF ReadJoiners
  <2>2. UNCHANGED <<lookup, socketsByRoomId, strayed, rooms, targetId, peers, roomById, pc, alive>>
    BY <2>1 DEF allVars, vars, historyVars, processVars, socketVars, waitingVars, requestVars,
       registryVars
  <2>3. \A id \in RoomIds : /\ Overwritten(id)' <=> Overwritten(id)
                           /\ Pending(id)' = Pending(id) /\ JoinersOf(id)' = JoinersOf(id)
    BY <2>2 DEF Overwritten, Pending, JoinersOf
  <2>4. DeadWaits'
    BY <2>1, <2>2 DEF DeadWaits
  <2>5. ASSUME NEW l \in Lookups
        PROVE  /\ SnapshotUsed(l)'
               /\ Single' /\ l \notin missed' => SnapshotFresh(l)'
    <3>1. l \in missed => l \in missed'
      BY <1>2 DEF ReadJoiners
    <3>2. SnapshotUsed(l)'
      BY <1>2, <2>2 DEF ReadJoiners, SnapshotUsed, WaitInv
    <3>3. ASSUME Single', l \notin missed', snapshot'[l] # None
          PROVE  SnapshotFresh(l)'
      <4>1. PICK id \in RoomIds : id = lookup[l]
        BY <3>2, <3>3, <2>2, ConstantsTyped DEF SnapshotUsed
      <4>2. lookup'[l] = id
        BY <2>2, <4>1
      <4>3. ~Overwritten(id) => Pending(id) = {} /\ snapshot'[l] = JoinersOf(id)
        <5>1. CASE k = l
          BY <1>2, <3>3, <4>1, <5>1 DEF ReadJoiners
        <5>2. CASE k # l
          BY <1>0, <1>2, <3>1, <3>3, <4>1, <5>2 DEF ReadJoiners, WaitInv, SnapshotFresh
        <5> QED BY <5>1, <5>2
      <4> QED BY <2>3, <4>2, <4>3 DEF SnapshotFresh
    <3> QED BY <3>2, <3>3 DEF SnapshotFresh
  <2>6. ASSUME NEW s \in Sockets
        PROVE  Single' /\ s \notin strayed' \cup outdated' => WaitingView(s)'
    BY <1>0, <2>1, <2>2, <2>3 DEF WaitingView, Expected, WaitInv
  <2> QED BY <2>4, <2>5, <2>6 DEF WaitInv
<1>3. CASE UNCHANGED viewedVars
  <2>1. UNCHANGED <<lookup, socketsByRoomId, strayed, rooms, targetId, peers, roomById, pc, alive,
                    joiners, snapshot, missed, outdated>>
    BY <1>3 DEF viewedVars, viewVars, allVars, vars, historyVars, processVars, socketVars,
       waitingVars, requestVars, registryVars
  <2> QED BY <1>0, <2>1 DEF WaitInv, DeadWaits, SnapshotUsed, WaitingView, SnapshotFresh, Expected,
          Overwritten, Pending, JoinersOf
<1> QED BY <1>1, <1>2, <1>3 DEF NextV

LEMMA WaitInvariant == SpecV => [](BaseInv /\ Exact /\ WaitInv)
<1>1. InitV => WaitInv
  BY NoneIsFresh DEF InitV, InitH, Init, Waiting!WaitingInit, WaitInv, DeadWaits, SnapshotUsed,
     WaitingView, SnapshotFresh
<1> QED BY <1>1, WaitInvKept, ViewedSpec, HistorySpec, BaseInvariant, ExactInvariant, PTL
        DEF SpecV

(* A waiting client shows exactly the joiners of its room, unless its last *)
(* answer was outdated when it came, a room is announced that is being     *)
(* built, a Room of peers was overwritten, or a user came in two tabs: in  *)
(* whatever order the overlapping calls of a client are answered, an old   *)
(* list is replaced by the next answer that is not.                        *)
THEOREM WaitingViewsExact == SpecV => []WaitingViewExact
<1>1. WaitInv => WaitingViewExact
  <2> SUFFICES ASSUME WaitInv, NEW s \in Sockets \ (strayed \cup outdated),
                      NEW id \in WaitingRoomsOf(s), Pending(id) = {}, ~Overwritten(id), Single
               PROVE  joiners[s] = JoinersOf(id)
    BY DEF WaitingViewExact, Overwritten, Single
  <2>1. joiners[s] = Expected(id)
    BY DEF WaitInv, WaitingView, WaitingRoomsOf
  <2> QED BY <2>1 DEF Expected, UsersIn
<1> QED BY <1>1, WaitInvariant, PTL
==========================================================================
