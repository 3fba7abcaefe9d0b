------------------------ MODULE RoutingConnection ------------------------
(***************************************************************************)
(* The connection of the media server to the routing server: what becomes  *)
(* of the announcements of RoomDirectory when the connection is lost and   *)
(* made again, and the registration that each connection begins with.      *)
(*                                                                         *)
(* socket.io and the routing server are external.  The client connects     *)
(* again by itself; what it emits meanwhile it keeps, and sends on the     *)
(* next connection, before the registration or after it; what was on its   *)
(* way is lost with the connection.  The routing server keeps the rooms of *)
(* a server whose connection is lost, or drops them, and a registration    *)
(* replaces them.                                                          *)
(***************************************************************************)
EXTENDS RoomDirectory, Naturals, Sequences

CONSTANT
    MaxLosses     \* bound on the connections lost

ASSUME LossesBounded == MaxLosses \in Nat

VARIABLES
    connected,    \* the socket is connected, as far as its client knows
    sendBuffer,   \* emitted while it was not
    inFlight,     \* sent and not received
    record,       \* the rooms the routing server lists for this server
    losses,
    spent,        \* handlers that have opened or closed a room: each does so once
    contested     \* rooms owed a creation and a removal at once

linkVars == <<connected, sendBuffer, inFlight>>
routingVars == <<directoryVars, linkVars, record, losses, spent, contested>>

RoutingInit ==
    /\ DirectoryInit
    /\ connected = FALSE /\ sendBuffer = <<>> /\ inFlight = <<>>
    /\ record = {} /\ losses = 0 /\ spent = {} /\ contested = {}

----------------------------------------------------------------------------
Overlapping(id) ==
    /\ \E m \in owed' : m.room = id /\ m.about = "created"
    /\ \E m \in owed' : m.room = id /\ m.about = "removed"

OpenOrClose(h, id) ==
    /\ h \notin spent /\ spent' = spent \cup {h}
    /\ Open(h, id) \/ Close(h, id)
    /\ contested' = contested \cup {r \in RoomIds : Overlapping(r)}
    /\ UNCHANGED <<linkVars, record, losses>>

(* A mutant of Message: the room instead of its id.                        *)
MessageWhole(m) == [type |-> m.about, room |-> m]

(* CREATED_ROOM and REMOVED_ROOM.                                          *)
Message(m) == [type |-> m.about, room |-> m.room]

Emits(message) ==
    IF connected
    THEN inFlight' = Append(inFlight, message) /\ UNCHANGED sendBuffer
    ELSE sendBuffer' = Append(sendBuffer, message) /\ UNCHANGED inFlight

EmitAnnouncement(m) ==
    /\ Announce(m)
    /\ Emits(Message(m))
    /\ UNCHANGED <<connected, record, losses, spent, contested>>

(* A mutant of Registration: the first connection's request, made when no  *)
(* room ran, is sent again.                                                *)
RegistersAsAtStart == [type |-> "register", rooms |-> {}]

(* createMediaServerRegisterRequest(roomService.getRoomIds()).             *)
Registration == [type |-> "register", rooms |-> registered]

ConnectToRouting ==
    /\ up /\ ~connected
    /\ connected' = TRUE
    /\ \/ inFlight' = <<Registration>> \o sendBuffer
       \/ inFlight' = Append(sendBuffer, Registration)
    /\ sendBuffer' = <<>>
    /\ UNCHANGED <<directoryVars, record, losses, spent, contested>>

RoutingForgets == record' \in {record, {}}

LoseConnection ==
    /\ connected /\ losses < MaxLosses
    /\ losses' = losses + 1
    /\ connected' = FALSE /\ inFlight' = <<>>
    /\ RoutingForgets
    /\ UNCHANGED <<directoryVars, sendBuffer, spent, contested>>

(* The process ends; what it had sent may still arrive first.              *)
ProcessStops ==
    /\ losses < MaxLosses
    /\ losses' = losses + 1
    /\ Stop
    /\ connected' = FALSE /\ sendBuffer' = <<>> /\ inFlight' = <<>>
    /\ RoutingForgets
    /\ contested' = {} /\ UNCHANGED spent

ProcessStarts ==
    /\ StartAgain
    /\ UNCHANGED <<linkVars, record, losses, spent, contested>>

Receive ==
    /\ inFlight # <<>>
    /\ inFlight' = Tail(inFlight)
    /\ LET message == Head(inFlight) IN
       record' = CASE message.type = "register" -> message.rooms
                   [] message.type = "created" -> record \cup {message.room}
                   [] message.type = "removed" -> record \ {message.room}
    /\ UNCHANGED <<directoryVars, connected, sendBuffer, losses, spent, contested>>

RoutingNext ==
    \/ \E h \in Handlers, id \in RoomIds : OpenOrClose(h, id)
    \/ \E m \in owed : EmitAnnouncement(m)
    \/ ConnectToRouting \/ LoseConnection \/ Receive
    \/ ProcessStops \/ ProcessStarts

(* Handlers go on, sent messages arrive and the client connects again.     *)
RoutingSpec ==
    /\ RoutingInit /\ [][RoutingNext]_routingVars
    /\ \A h \in Handlers :
          WF_routingVars(\E m \in owed : m.by = h /\ EmitAnnouncement(m))
    /\ WF_routingVars(ConnectToRouting) /\ WF_routingVars(Receive)

----------------------------------------------------------------------------
RoomMessages == [type : {"created", "removed"}, room : RoomIds]
Messages == RoomMessages \cup [type : {"register"}, rooms : SUBSET RoomIds]

(* Every variable keeps its type; what waits for a connection is messages  *)
(* about one room, never a registration, which each connection makes for   *)
(* itself; and nothing is in flight without a connection.                  *)
TypeOK ==
    /\ up \in BOOLEAN /\ connected \in BOOLEAN /\ losses \in 0..MaxLosses
    /\ registered \subseteq RoomIds /\ announced \subseteq RoomIds
    /\ record \subseteq RoomIds /\ contested \subseteq RoomIds
    /\ owed \subseteq Announcement /\ spent \subseteq Handlers
    /\ sendBuffer \in Seq(RoomMessages) /\ inFlight \in Seq(Messages)
    /\ ~connected => inFlight = <<>>
    /\ connected => sendBuffer = <<>>

(* Whatever connections were lost and messages with them, once everything  *)
(* sent has arrived on a living connection and a room has nothing owed,    *)
(* the routing server lists it exactly if it is registered, provided its   *)
(* creation and removal were never both owed at once                       *)
(* (routing_server_socket.ts, worker.ts).                                  *)
RecordAgrees ==
    connected /\ inFlight = <<>> =>
        \A id \in RoomIds \ contested :
            (\A m \in owed : m.room # id) => (id \in record <=> id \in registered)

(* The routing server comes to know of a room that goes on running, and to *)
(* forget one that goes on being gone, while the server runs.              *)
RoutingLearns ==
    \A id \in RoomIds :
        /\ id \in registered ~> id \in record \/ id \notin registered \/ id \in contested
        /\ up /\ id \notin registered ~>
              id \notin record \/ id \in registered \/ id \in contested \/ ~up
==========================================================================
