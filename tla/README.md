# Camstudy media server: TLA+ models and proofs

The repository is a mediasoup media server for study rooms. Clients connect with
socket.io, look at the preparation screen of a room (its *waiting room*), enter
the room, exchange media, chat, share a pomodoro timer, and the room's master
kicks, blocks and unblocks users. Rooms exist in memory while somebody is in
them; what outlives them is in PostgreSQL. A *routing server* is told which
rooms run here.

The server is one JavaScript thread. Every handler is an `async` function that is
interrupted wherever it awaits the database or the mediasoup worker, so what is
hard about this code is not parallelism but *what has happened between two
awaits*: checks that are stale when used, objects captured before an await and
finished on after it, handlers of one socket that overlap, and clients that
disconnect meanwhile. The tests of the repository call one method at a time and
wait for it. These models interleave them.

Paths below are those of the repository (`src/worker.ts` is the worker).

## Inventory

| Component | State | Operations | What is hard | What makes it correct |
|---|---|---|---|---|
| Handlers (`worker.ts`) | `roomIdToJoin` of each socket | JOIN_WAITING_ROOM, JOIN_ROOM, DISCONNECT, START_TIMER, EDIT_AND_STOP_TIMER, KICK/BLOCK/UNBLOCK_USER, media, chat | the variable is read again after awaits; a handler that throws ends the process | every JOIN_ROOM is answered |
| `RoomService` | none of its own | `joinWaitingRoom`, `canJoinRoom`, `joinRoom`, `createAndJoinRoom`, `disconnect`, moderation, timer, media | check-then-act over several awaits; a disconnect overtaking a join | capacity and block list respected; nobody stays after leaving |
| `RoomRepository` | `_roomById`, `_roomIdBySocketId` | `_setRoom`, `join`, `createAndJoin`, look-ups, deletions | two concurrent creations of one room | a registered room has peers, a room with peers is registered, a peer is found through its socket |
| Database rows | `study_history`, `block`, timer columns of `room` | `createStudyHistory`, `updateExitAt...`, `blockUser`, `unblockUser`, `updatePomodoroTimerInRoom` | find and update are two statements; memory and table are written apart | rows cover the members; table and memory agree |
| `WaitingRoomRepository` | list of sockets per room, room per socket | `join`, `remove`, `notifyOthers` | one map is overwritten where the other is extended | each map is the inverse of the other |
| `Room` | peers, block list, timer | `join`, `disposePeer`, `blockUser`, `startTimer`, `editAndStopTimer` | a handler may hold a Room that has been dropped | as above |
| `PomodoroTimer` | property, state, date, timeout, count | `start`, `editAndStop`, `dispose`, the timeouts | a count compared for equality with an interval that changes; leaked timeouts | the cycle of focus and breaks |
| Routing connection | the socket to the routing server | registration on connect, CREATED_ROOM, REMOVED_ROOM | announcements made after awaits overtake each other | the routing server's record is the registry |
| Peer and media | transports, producers, consumers | create, connect, produce, consume, close | a peer captured before an await and used after it | closing a peer closes what it owns |
| Client views | the peers a client shows, the joiners a waiting client shows | notifications | a notification sent late or before the snapshot it modifies | the view converges to the room |
| Worker process | the mediasoup worker | dies with the process, is redeployed | all memory is lost, rows stay | a restarted server starts from nothing consistently |

Interaction: a handler calls `RoomService`, which calls the repositories, which
hold `Room` objects; `Room` holds `Peer`s and one `PomodoroTimer`; a kick or a
block calls `socket.disconnect()`, which runs the DISCONNECT handler of that
socket at once, inside the master's handler; timers call back into the room
through observers.

`PROJECT.json` lists the hazards of the code, each at its line, with the
properties about it or the reason why there is none yet.

## Modules

| Module | Models |
|---|---|
| `WaitingRoomRepository` | `repository/waiting_room_repository.ts`: both maps, `join`, `remove` |
| `RoomService` | `service/room_service.ts`, `repository/room_repository.ts`, membership in `model/Room.ts`, the handlers of `worker.ts`, rows, routing announcements; instantiates `WaitingRoomRepository` |
| `RoomServiceRequirements` | history variables and the properties of `RoomService` |
| `RoomServiceProofs` | theorems about `RoomService`: types, registry, capacity, blocked users, waiting index |
| `RoomViews` | what clients in a room and in a waiting room show, composed with `RoomService`, with its properties |
| `RoomDirectory` | abstract: rooms opened, closed and announced by handlers of one process after another |
| `RoomDirectoryProofs` | `RoomService` implements `RoomDirectory`; what the routing server has been told |
| `RoomMembersProofs` | the members of rooms: found through their sockets, removed when these close, recorded; extends `RoomDirectoryProofs` |
| `RoomListsProofs` | the lists kept twice: waiting rooms and blocked users; extends `RoomMembersProofs` |
| `RoomViewsProofs` | theorems about `RoomViews`; extends `RoomListsProofs` |
| `RoutingConnection` | `routing_server_socket.ts`: the way of announcements and registrations over connections that are lost; extends `RoomDirectory` |
| `RoutingConnectionProofs` | theorems about `RoutingConnection` |
| `Media` | transports, producers and consumers: `model/Peer.ts`, the media methods of `service/room_service.ts` and `model/Room.ts`, their handlers |
| `MediaRequirements` | a history variable and the properties of `Media` |
| `MediaProofs` | theorems about `Media` |
| `PomodoroTimer` | `model/PomodoroTimer.ts`: each method as an operator |
| `RoomTimer` | the timer of one room id: clients' commands, timeouts, the row, the Room objects one after the other; extends `PomodoroTimer` |
| `PomodoroCycle` | abstract: what the timer promises |
| `RoomTimerRequirements` | the properties of `RoomTimer`, with the refinement mapping to `PomodoroCycle` |
| `RoomTimerProofs` | theorems about `RoomTimer` |
| `MCRoomService`, `MCRoomViews`, `MCRouting`, `MCMedia`, `MCRoomTimer` | constants and symmetries for TLC |

### RoomService

**State.** The maps of both repositories under the names they have in the code
(`roomById`, `roomIdBySocketId`, `socketsByRoomId`, `waitingRoomIdBySocketId`),
the peers and block list of every Room object, `roomIdToJoin` per socket, the
tables (`historyRow`, `blockRows`), the routing server's record (`running`) and
the *program counters* of the handlers in progress: `pc` for JOIN_ROOM, `lookup`
for JOIN_WAITING_ROOM (a socket may have several calls in progress), `exit` for DISCONNECT, `command` for BLOCK_USER and
UNBLOCK_USER. A request stands for the Peer its handler builds, for the Room it
builds when it is the first, and for the row it inserts: the names `q1`, `q2`
serve as object identities, so that two Rooms of one id are two Rooms.

**Steps.** One action is one run of the handler between two awaits that can be
delayed. JOIN_ROOM is

    JoinRoom -> [LearnMaster -> CheckBlacklistRows] -> "admit"
      -> JoinExistingRoom                                              \
      -> StartCreatingRoom -> RouterCreated -> FetchBlacklist -> RegisterRoom
                                                        -> RecordHistory -> CompleteJoin

with the bracketed reads only for a room that does not run, and the ways out
`refused` (capacity, block list, password), and the throws
(`JoinRoomUnprepared`, `MasterUnknown`, `UserUnknown`, `RoomUnknown`). DISCONNECT
is `Disconnect`, which takes the peer out and deletes an empty room in one step,
then `FindOpenRow`, `CloseRow` and `AnnounceRemoval`. `KickUser` and `FinishBlock`
contain the `Disconnect` of the other socket, as `socket.disconnect()` does. A
throw (an unhandled rejection) is `Crash`: the process ends, all memory is lost,
and `Restart` begins a new one, which registers no rooms.

**What is merged.**
- An `await` on a promise that is already resolved (`getMasterId` and
  `getBlacklist` of a running room, `broadcastProtocol`) is no step of its own:
  nothing but other such continuations can run before it goes on.
- `getPassword` and `getUserBy` read what nothing here writes: one stage
  `"admit"`, and the choice to refuse the password.
- Of `joinWaitingRoom`, the reads are one stage and the list is joined after it;
  `RoomViews` adds the moment at which the joiners are read.
- A history row is inserted (`RecordHistory`) before the answer of the insert
  arrives (`CompleteJoin`); a leave may find it in between.
- The process exits two seconds after its worker died; here at once.
- `_peers` is a set. `find` takes the first match of a list; the model takes any.
  A socket that is listed twice in one waiting list counts once; `remove` drops
  both entries.
- Rooms keep their row and their master: the API server, another program, owns
  them.

**External.** The mediasoup worker, PostgreSQL and socket.io appear by what the
code relies on: calls are answered, in any order, or the process has ended;
statements are atomic; `disconnect()` runs the handler synchronously; a closed
socket sends nothing.

### RoomViews

Each step of `RoomService` is joined, in the same action, by what the segment of
the handler emits: `ViewStep` reads from the step who entered, left or was
answered, and changes the views of the sockets told of it. Messages to one
socket keep their order and are shown as emitted; a message that is still under
way when its socket closes is shown to nobody. A view of a room (`shown`) begins
with the answer of JOIN_ROOM (`getPeerStates` of the Room the handler holds),
grows with PEER_STATE_CHANGED and shrinks with OTHER_PEER_DISCONNECTED. A view of
a waiting room (`joiners`) begins with the `joinerList` read before the awaits of
`joinWaitingRoom` (`ReadJoiners`, a step of its own for each call); the answers of calls that overlap
come in any order, and each replaces what was shown. The clients are another
program: a view is what follows from the messages alone.

### RoomDirectory and RoutingConnection

`RoomDirectory` is what the process does: it opens a room or closes it, and
*afterwards* the handler that did announces it; a process that starts again has
no rooms and nothing to announce. `RoomServiceRequirements` maps `RoomService`
to it (`up` is `alive`, `registered` the keys of `roomById`, `owed` what
handlers between the registry and their `emit` will announce, `announced` is
`running`), the run `answers` checks the mapping and `ServerImplementsDirectory`
proves it.

`RoutingConnection` adds what is on the way. The client of socket.io buffers
what is emitted while it is not connected, and connects again by itself; each
connection registers the rooms of that moment (`createMediaServerRegisterRequest`
of `getRoomIds`), before the buffer is sent or after it, as the library has
had it both ways. What was in flight on a connection that is lost is lost. The
routing server, another program, is taken to keep or to drop the rooms of a
server whose connection is lost and to replace them at a registration.
`MAX_SERVER_ROOM_CAPACITY` is only reported to it and never enforced here.

### Media

One room id and peers that enter once. `status` says where a peer stands with
regard to the registry: found, *stray* (its Room was overwritten, so its socket
leads to a Room without it), left, or gone from a stray Room without being
disposed of. Each call to the mediasoup worker (`createWebRtcTransport`,
`produce`, `consume`, `resume`) is a step that asks and a step that goes on with
the answer, using the objects the code captured before its await or looked up
after it, as the code does. mediasoup is external: its worker answers calls in
the order they were made; a consumer whose producer closes is closed in the worker
first, and the server hears of it by a later event (`notices`); the consumers the client
has been answered about are `given`, and only these have the listener that sends
PRODUCER_CLOSED, as the handler installs it after a broadcast that throws if the peer
is no longer found. A peer may consume any producer, its own as well: `canConsume` does
not look at whose it is. Closing a transport closes what is on it. Transports do not close by themselves, and
`Peer.dispose` closes producers and consumers before transports, so the
"transportclose" listeners never run. An error that no handler catches is
`Fails`: the process ends, and nothing is left (a rejected `produce` or `resume` among
them; a rejected `createWebRtcTransport` or `consume` is caught, and is as one never
answered). `RoomService` models what becomes
of it afterwards.

### PomodoroTimer and RoomTimer

The methods of `PomodoroTimer` are operators on its fields plus `pending`, the
timeouts the event loop holds, which the field `_timeout` may no longer name:
that is where a leak would show. The three lengths are one value, as they say
when a timeout fires and not what it does. `longBreakInterval` is any integer:
nobody checks it. `RoomTimer` adds what surrounds the object: the observer each
successful start adds, the two steps of `editAndStopTimer` (row, then timer), the
columns `createAndJoin` reads before it builds a Room, and `dispose` when the
last peer leaves. An update the database rejects (`WriteRejected`) ends the process:
timers and calls are gone, rows stay.

`PomodoroCycle` states the promise: a position in a cycle of `interval` focus
phases and breaks, advancing by one, the last break being the long one. The
mapping computes the position from `state` and `shortBreakCount`.

## Properties

Properties name the races that void them by *history variables*
(`RoomServiceRequirements`, `RoomTimerRequirements`, `missed` and `outdated` of
`RoomViews`), which record from each step who met one and constrain no step. Without its
exception TLC refutes each of them, and the refutations that contradict a statement of
the repository are kept as runs (see Findings). What a property exempts it does not
catch; see *What the properties leave out* below.

| Property | Says |
|---|---|
| `RegisteredRoomLives` | a registered room is stored under its id and has a peer |
| `LiveRoomRegistered` | a room with peers is registered, unless another Room for its id was under construction at the same time |
| `PeerReachable` | a connected peer is found through its socket, unless its socket also entered another room or its Room was built at the same time as another one for the id |
| `DepartedPeerRemoved` | a registered room has no peer on a closed socket, unless it entered when closed or the socket entered twice |
| `CapacityUnlessOvertaken` | a guest who enters the room it was checked for, nobody entering in between, respects the capacity |
| `BarredNeverAdmitted` | who is blocked according to every source, all the while, is not admitted to the room the request was made for, running or not |
| `BlacklistAgrees` | memory and table agree once no call is under way, unless two overlapped |
| `StudyRowsCoverMembers` | a leave never ends the record of somebody who stays |
| `LeaveRecorded` | a recorded stay is closed in the end |
| `RoutingAgrees` | a room nobody has still to announce has been announced as it is, unless its creation and its removal were owed at once |
| `ImplementsDirectory` | `RoomService` implements `RoomDirectory` |
| `RecordAgrees` | once all is delivered on a living connection, the routing server lists exactly the registered rooms, whatever was lost before |
| `RoutingLearns` | the routing server comes to list a room that goes on running, and to drop one that goes on being gone |
| `RoomViewComplete` | a client in a room shows every other user who has joined its Room (users with one tab) |
| `RoomViewCurrent` | it shows nobody who has left, except who was announced after leaving |
| `WaitingViewExact` | a waiting client shows exactly the joiners, unless its last answer missed a join or exit announced before it came, a room is announced and not yet built, a Room with peers was overwritten, or a user has two requests |
| `WaitingListsExact`, `IndexedIsListed` | the waiting lists and their index agree |
| `OnlyDbRoomsRun` | only rooms with a row run |
| `JoinAnswered` | every JOIN_ROOM is called back, or lost with the process |
| `MutedHearsNothing` | no audio consumer of a peer with its headset off is open, whenever it was switched off |
| `ProducersOwned` | an open producer is on the list of a peer that has not been disposed of |
| `TransportsOwned` | disposing of a peer leaves none of its transports open: an open one is listed by a peer not yet disposed of, unless made for a peer no longer found, or replaced |
| `ConsumersListed` | the consumers a peer lists are its open ones; a disposed peer has none |
| `ConsumersFed` | an open consumer has an open producer, or the event that closes it is on its way; and its client has a listener for it, unless its peer's Room was overwritten |
| `ProducersKnown` | who has asked for the producers misses none between the answer and NEW_PRODUCER |
| `StateBroadcast` | what was last broadcast of a peer is how it is |
| `OneTimeout` | a running timer has one timeout, a stopped one or a dropped Room's none |
| `BreaksCounted` | the count of short breaks stays below the interval |
| `FollowsCycle` | the timer implements `PomodoroCycle` |
| `PhaseAnnounced` | every phase is broadcast when it begins, once with one observer |
| `TimerFollowsTable` | the timer has the properties of the row, unless edits overlapped |
| `KeepsRunning` | a running timer comes to its next phase |

### What the properties leave out

These outcomes of the code are in the models, and no property forbids them, either
because it exempts them or because it is about something else:

- `roomIdToJoin` is read again after the checks: a JOIN_ROOM whose room id changes on
  the way enters a room whose capacity, block list and password were never checked. A
  user blocked there gets in; `barred` and `overtaken` leave such requests aside.
- A member too many, of whichever room, who was overtaken by another between check and
  entry (shown by `overfull`); a Room overwritten by another that was under construction
  at the same time (`rivals`, shown by `overwritten`); a peer that entered on a closed
  socket (`late`, shown by `ghost`) or beside another on its socket.
- `StudyRowsCoverMembers` bounds members by rows and not rows by members: a row whose
  insert came after the leave looked for it, or the second of two whose leaves found the
  same row, stays open.
- `RoutingAgrees` exempts room ids owed a creation and a removal at once, `WaitingListsExact`
  sockets listed when closed or when listed elsewhere, `BlacklistAgrees` room ids with
  overlapping calls, `TimerFollowsTable` Rooms with overlapping edits. Of these hazards
  the properties show that nothing *but* the overlap does harm.
- `RoomViewCurrent` exempts users announced after they had left, and `WaitingViewExact`
  clients whose last answer missed something, until the next answer.
- `PhaseAnnounced` accepts that a phase is announced once by each observer.
- A peer whose Room was overwritten is never disposed of: its transports and producers stay
  open, on its list.

## Runs

All runs say `CHECK_DEADLOCK FALSE`: the process may have ended for good, or
every client may have left, and then nothing happens any more.

| Run | Instance | Shows |
|---|---|---|
| `lifecycle` | `RoomViews`: 1 room of 2 places, 3 guests with a tab each, symmetric, 1 redeployment, patient clients with one JOIN_WAITING_ROOM each at a time | the registry, announcements, capacity and views under every interleaving of three joins and leaves |
| `tworooms` | 2 rooms of 1 place, 2 tabs of one guest, each with two JOIN_WAITING_ROOM calls in progress and any number of them, one of the clients patient | waiting lists; a request whose room id changes in flight; rows |
| `tabs` | a room of 1 place, a master, a socket with two requests | the socket with two peers, kicks, rows |
| `moderation` | `RoomViews`: a master, a guest with two JOIN_WAITING_ROOM calls, blocked before or not, 2 commands, patient clients | block, unblock, kick against joins and leaves; the waiting client whose overlapping calls are answered in any order |
| `answers` | a room and one without a row, a master with an account, a guest without one, 1 redeployment, fairness | every throw, the types, the refinement of `RoomDirectory`, liveness |
| `routing` | 2 rooms, 4 handlers, 2 losses, fairness | the routing server's record over lost connections and processes |
| `media` | 2 peers, 2 transports, 2 producers, 2 consumers, symmetric | media under leaves, mutes and closes while calls to the worker are awaited, answered or rejected |
| `timer` | intervals 0, 1, 3, 2 lengths, 2 edits, 2 Rooms, 3 starts of each, fairness | the timer, with updates that are rejected |
| `overfull`, `overwritten`, `ghost` | 2 sockets | see Findings |
| `resume` | 2 peers, a producer and a consumer | see Findings |

**Bounds.** A request is one JOIN_ROOM; sockets and requests are bounded because
each leaves a row and a socket is never reused. A race needs two handlers; three
are there so that one can be between two others, enter a room that two others
made or left, and take the third row of a user with two. `Capacity` is 1 or 2, so
that a room is full with two or three clients: the code only compares with it.
In `routing`, each handler opens or closes one room once, so that four make two
rooms be opened and closed, or one twice; two losses let a connection be lost while
what an earlier loss left is on its way. In `media` two objects of each kind let one
be made while another is used or closed, an audio and a video one among them; two peers
reach every case, the consumer made for a peer whose Room was overwritten meanwhile
included, as a peer may consume its own producer.
`MaxRestarts` bounds redeployments (after one the process starts from nothing
again). `Lookups` bounds the JOIN_WAITING_ROOM calls in progress at once; one that has been
answered may be made again, so their number is unbounded. `Patient` are the sockets whose
clients ask for the room when all their JOIN_WAITING_ROOM calls have been answered, and
make none afterwards, which keeps `lifecycle`, `moderation` and `tworooms` small. In
`tworooms` one of the two clients is not patient, and in `tabs` and `answers` none is:
these runs have the room id that changes while a JOIN_ROOM is in flight, and clients
listed after they have entered. `BlockedBefore` are the users the block table
may already hold when the server first starts, in `moderation` and `answers` the
guest or nobody. `Commands` bounds block and unblock calls: two, as two must overlap.
`MaxShortBreaks` stops the count of a timer whose interval is below 1, which the
code never resets; with interval 3 the bound is not reached, as `BreaksCounted`
shows. `MaxObservers` and `MaxRooms` bound starts and Rooms.

**Fairness.** Weak fairness of the continuation of each handler: the database and
the mediasoup worker answer, and the event loop runs what is ready. In
`RoomTimer`, of timeouts, for `setTimeout` fires. In `RoutingConnection`, of each
handler's announcement, of delivery and of the reconnection socket.io's client makes
by itself; connections are lost finitely often. Clients owe nothing, and neither
does redeployment: nothing restarts the container by itself. Weak fairness is
enough because a handler that waits stays ready until it goes on or the process
ends.

## Findings

1. `overfull`: two guests pass `canJoinRoom` before either enters, and a room
   holds more than `MAX_ROOM_CAPACITY` guests.
2. `overwritten`: two first joiners build the room twice; the first one's socket is
   mapped to a Room without its peer, and its disconnect throws ("There is no peer
   to dispose!"), which ends the process.
3. `ghost`: a socket that closes while its JOIN_ROOM is in flight is entered
   afterwards and stays a joiner until the process ends.
4. `resume`: a peer leaves while its CONSUME_RESUME awaits the worker; the broadcast
   that follows throws "There is no room!", nothing catches it, and the process ends.

Two disagreements are exceptions of properties: a client that goes from one
waiting room to another stays listed in the first and is notified of it until the
process ends (the exception `strayed` of `WaitingListsExact`), and a block that
finishes on a Room dropped meanwhile leaves the new Room without the blocked user
(`skewed`, of `BlacklistAgrees`). SHOW_REMOTE_VIDEO for a user without a video reads
the length of an undefined id, which ends the process too (`ShowRemoteVideoFails`).

`PROJECT.json` quotes the comment, assertion or test each one contradicts.

## Proofs

Every safety property of the passing runs is a theorem. The theorems hold for every
value of the constants under the named assumptions of `RoomService` (types of
the constants, `BlockedBefore` among them, `None` is none of them, `Requests` is
finite, `Capacity` is positive), of `Media` (`None` is no transport) and of
`PomodoroTimer` and `RoomTimer` (intervals are integers, bounds are natural numbers,
`None` is fresh); those of `RoutingConnection` need none. TLC evaluates these on every
run. The proofs of `RoomService` stand on each other: registry, directory, members,
lists, views.

- **Types** (`TypeCorrect`, `RunningRoomsInDb`). `TypeOK` alone is not inductive:
  that `running` holds rows of the table only needs that a request about to build a
  Room, and every Room, has an id in the table. This is the strengthening
  (`TypeInv`), with what handlers in progress have captured.
- **Registry** (`RegisteredRoomsLive`). A Room is registered
  under its own id, so two Rooms of different ids never meet in `roomById`; a
  peer is removed only by `LeaveRoom`, which deletes the room in the same step.
  With `OnlyDbRoomsRun` this is inductive over the steps that touch the maps;
  a frame lemma takes care of all others.
- **Capacity** (`CapacityKept`). The action property is about a state long before
  the step: the place found free when the request was checked. The strengthening
  `PlaceFree` carries it: while a guest's request is in flight and not overtaken, its
  room has fewer peers than the capacity. Leaving, overwriting and rebuilding keep
  it, and entering by another request makes it overtaken.
- **Blocked users** (`BarredStayOut`). While barred, a request stands at one of the
  two reads before its verdict, whichever source the verdict takes.
- **Waiting rooms** (`IndexedAreListed`), inductive over `Join` and `Remove`.
- **Directory** (`ServerImplementsDirectory`). Each action of `RoomService` is an
  `Open`, a `Close` or an `Announce` of `RoomDirectory`, a `Stop`, a `StartAgain` or a
  stutter. The strengthening says that a handler that has still to announce a room
  has one, that a socket disconnects once, so that two removals are never
  taken for one, that every peer has entered, and that a process that has ended has
  no rooms.
- **Announcements** (`RoutingServerAgrees`), on top of the refinement: the invariant
  `ToldRight` is about `RoomDirectory` alone (a room owed only a creation is
  registered, one owed only a removal is not, one owed nothing has been announced as
  it is), and is kept by each of its steps while a creation and a removal are not owed
  together, which is what `contested` records.
- **Members** (`LiveRoomsRegistered`, `PeersReachable`, `DepartedPeersRemoved`). A Room
  with peers is lost only when another is registered over it. Construction begins only where
  no Room is registered, so while a Room that is no rival has peers, none of its id is
  under construction (`NoReplacement`); and a request under construction that is no
  rival is alone in that (`BuiltAlone`), so this holds from the Room's registration on. The index of a socket is
  written by each entry and erased by the disconnect, so the strengthening `Indexed`
  speaks of open sockets: the index holds the peer's room id, or the socket has
  entered another room. That requests come from connected sockets only, and that a
  connection is made once and closed once, makes it inductive. That a disconnect takes
  the peer out of its room follows: it finds the Room through this index, and the
  peer in it through the socket.
- **Study history** (`StudyRowsCover`). Counting members against rows is not
  inductive: between `FindOpenRow` and `CloseRow` a leave has left the room and not yet
  closed a row, and two leaves of one user may find the same row. The strengthening
  `RowsCover` counts *accounted* requests, those present and those whose leave owes a row,
  against the rows open or about to be inserted: an entry adds one to both, a leave
  takes one from the first when it closes its row or finds none, and closes one row at
  most. `RowInv` says what the steps need to be counted so: a peer is in one room, a
  leave holds a row of its own user and room.
- **Waiting lists** (`WaitingListsAreExact`), inductive for the sockets that met no
  race (`Exact`): listed in the one room the index names, and in none once closed.
- **Block list** (`BlacklistsAgree`). While a call is under way memory and table
  differ, by exactly what the call has still to do; `BlockInv` says so for each stage of
  a call (`HalfDone`), and for a Room whose list has been read and that is not registered
  yet. It needs that a room has one call under way at most, and none while a Room of it is
  being built (`Alone`); where that fails, `skewed` records it.
- **Views of a room** (`RoomViewsCurrent`, `RoomViewsComplete`). A handler's `home` is
  the Room its peer is in, so answers and broadcasts are about one Room. Whoever is joined
  was in the answer or announced since, but for the peer a Room was built for, whom no
  PEER_STATE_CHANGED announces: `ViewsComplete` adds that every view shows it from the
  moment the Room is registered, as it is then in the answer of everybody else.
- **Views of a waiting room** (`WaitingViewsExact`). What a waiting client shows is,
  at every moment, `Expected`: the joiners and those announced for a Room that is still
  being built. The invariant `WaitInv` says this, and that a `joinerList` that has been
  read and has missed nothing (`missed`) is what an answer would give now, for each call of a
  client. Every step changes `Expected` by exactly what it
  announces. A Room that was overwritten keeps its peers (`OverwrittenStays`), so the
  exception, once met, holds on.
- **Connection** (`RecordsAgree`). `RecordInv` looks at the *last* message about a room
  in what is on its way, or kept for the next connection (where no registration ever is,
  by `TypeOK`): it says what is true, once
  nothing is owed; with no such message the record is right already. A registration
  speaks of every room, so a new connection makes the invariant hold whatever was lost, on
  either side of the buffered messages; lemmas on `Append`, `Tail` and a
  message put first carry it over each step.
- **Media** (`MediaTyped`, `MutedPeerHearsNothing`, `NoProducerWithoutPeer`,
  `OpenConsumersListed`, `OpenConsumersFed`, `NoProducerMissed`, `BroadcastTrue`). The
  properties need each other: that a peer that mutes is left with no audio consumer
  needs that its list names all of its open ones. `MediaInv` joins them and adds what
  the lists rest on: they hold objects asked for by their peer, a listed producer is
  open until its peer is disposed of, an open consumer of a found peer has its listener
  (`given`), a consumer is asked for when its producer has
  been made, a notice on its way is about a producer that has closed, and who has not
  entered owns nothing. One lemma per action keeps it; the errors that end the process
  are one case. `NoTransportWithoutPeer` follows from `MediaInv` and the steps that
  touch transports or make a peer leave.
- **Timer** (`TimerTyped`, `NoTimeoutLeaks`, `CountStaysBelow`). `TimerInv` joins
  them with two facts that make it inductive: the count fits the phase (after a
  short break it is not 0, and during a long break it is 0), and an edit in progress holds the argument it
  was called with. A rejected update stops the timer and every edit with it.
- **Refinement** (`TimerFollowsCycle`). From `TimerInv`, each step of `RoomTimer`
  is a step of `PomodoroCycle` under the mapping or leaves it unchanged; the
  arithmetic on positions is a lemma per kind of phase.

- **Announced phases** (`PhasesAnnounced`): a timer runs only once somebody observes it
  (`Heard`), and a step that changes the phase broadcasts the protocol of the new one.
- **Timer and table** (`TimerKeepsTable`). While nothing is skewed, one edit at most is
  under way and none while a Room is being built; until the edit has written its row timer
  and row agree, and then the row is the merge of the two (`RowAndTimer`). That edits in
  progress are finitely many (`FewEdits`) makes counting them meaningful.

Only model-checked are the properties about what must happen (`JoinAnswered`,
`LeaveRecorded`, `KeepsRunning`, `RoutingLearns`): liveness under fairness is out of the
prover's reach. The properties of the four runs that expect a violation are false.

## Not modelled

- *Chat* keeps no state and awaits nothing. Configuration, codecs, certificates and
  the helper functions have no state.
- *The timer of an overwritten Room* goes on until the process ends when its last peer
  leaves unseen; `RoomTimer` has one Room of an id at a time, and nothing in the
  repository says what such a timer should do. START_TIMER and EDIT_AND_STOP_TIMER of a
  socket outside every room throw, as the moderation commands do, which `RoomService`
  models; `RoomTimer` leaves it out. The lengths of phases are left open: time is the
  order of timeouts.
- *Media across rooms*: a peer whose socket enters a second room, or the same one
  twice, is modelled in `RoomService` only. Connecting a transport hands DTLS parameters to
  mediasoup; its promise is not awaited, and its rejection would end the process as others do. Whether a
  client can receive a codec is part of the choice to consume.
- *Views of kicks and blocks*: KICK_USER and BLOCK_USER messages are followed by the
  disconnect of the user, which the views have.
- *The clients, the routing server, the API server, PostgreSQL and mediasoup* are
  other programs; they appear by what this code relies on.

## Plan

Done: `RoomService` and its repositories, the timer with its refinement, client
views, media, the routing connection with the abstract directory. Left: the
composition of the timers of all Room objects with the registry, a timer left running
by an overwritten Room included.
