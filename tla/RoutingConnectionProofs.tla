-------------------- MODULE RoutingConnectionProofs --------------------
(***************************************************************************)
(* Theorems of RoutingConnection, for every set of rooms and handlers and  *)
(* every number of lost connections.                                       *)
(***************************************************************************)
EXTENDS RoutingConnection, TLAPS

----------------------------------------------------------------------------
(* Type correctness.                                                       *)

LEMMA MessagesTyped ==
  ASSUME TypeOK
  PROVE  /\ Registration \in Messages
         /\ \A m \in owed : /\ Message(m) \in RoomMessages /\ m \in Announcement
                           /\ Message(m) \in Messages
         /\ sendBuffer \in Seq(Messages)
<1>1. RoomMessages \subseteq Messages
  BY DEF Messages
<1>2. Registration \in Messages
  BY DEF TypeOK, Registration, Messages
<1>3. \A m \in owed : Message(m) \in RoomMessages /\ m \in Announcement
  BY DEF TypeOK, Message, RoomMessages, Announcement
<1>4. sendBuffer \in Seq(Messages)
  BY <1>1 DEF TypeOK
<1> QED BY <1>1, <1>2, <1>3, <1>4

LEMMA LinkTyped ==
  ASSUME NEW S, NEW q \in Seq(S), NEW m \in S
  PROVE  /\ Append(q, m) \in Seq(S) /\ <<m>> \o q \in Seq(S)
         /\ q # <<>> => Tail(q) \in Seq(S) /\ Head(q) \in S
  OBVIOUS

LEMMA NextTyped ==
  ASSUME TypeOK, RoutingNext
  PROVE  TypeOK'
<1>1. ASSUME NEW h \in Handlers, NEW id \in RoomIds, OpenOrClose(h, id)
      PROVE  TypeOK'
  <2>1. /\ up' = up /\ announced' = announced
        /\ registered' \in {registered \cup {id}, registered \ {id}}
        /\ \E about \in {"created", "removed"} :
              owed' = owed \cup {[by |-> h, about |-> about, room |-> id]}
    BY <1>1 DEF OpenOrClose, Open, Close, Owes
  <2>2. owed' \subseteq Announcement
    BY <2>1 DEF TypeOK, Announcement
  <2> QED BY <1>1, <2>1, <2>2 DEF OpenOrClose, TypeOK, linkVars
<1>2. ASSUME NEW m \in owed, EmitAnnouncement(m)
      PROVE  TypeOK'
  <2>1. /\ UNCHANGED <<up, registered, connected, record, losses, spent, contested>>
        /\ owed' \subseteq owed
        /\ announced' \in {announced \cup {m.room}, announced \ {m.room}}
    BY <1>2 DEF EmitAnnouncement, Announce
  <2>2. m.room \in RoomIds /\ Message(m) \in RoomMessages /\ Message(m) \in Messages
    BY MessagesTyped DEF Announcement
  <2>3. /\ sendBuffer' \in Seq(RoomMessages) /\ inFlight' \in Seq(Messages)
        /\ ~connected => inFlight' = inFlight
        /\ connected => sendBuffer' = sendBuffer
    BY <1>2, <2>2, LinkTyped DEF EmitAnnouncement, Emits, TypeOK
  <2> QED BY <2>1, <2>2, <2>3 DEF TypeOK
<1>0. <<>> \in Seq(Messages) /\ <<>> \in Seq(RoomMessages)
  OBVIOUS
<1>3. CASE ConnectToRouting
  <2>1. inFlight' \in Seq(Messages)
    BY <1>3, MessagesTyped, LinkTyped DEF ConnectToRouting, TypeOK
  <2> QED BY <1>0, <1>3, <2>1 DEF ConnectToRouting, TypeOK, directoryVars
<1>4. CASE LoseConnection
  <2>1. losses' \in 0..MaxLosses
    BY <1>4, LossesBounded DEF LoseConnection, TypeOK
  <2>2. record' \subseteq RoomIds
    BY <1>4 DEF LoseConnection, RoutingForgets, TypeOK
  <2> QED BY <1>0, <1>4, <2>1, <2>2 DEF LoseConnection, TypeOK, directoryVars
<1>5. CASE Receive
  <2>1. Head(inFlight) \in Messages /\ Tail(inFlight) \in Seq(Messages)
    BY <1>5, LinkTyped DEF Receive, TypeOK
  <2>2. record' \subseteq RoomIds
    BY <1>5, <2>1 DEF Receive, TypeOK, Messages, RoomMessages
  <2>3. connected
    BY <1>5 DEF Receive, TypeOK
  <2> QED BY <1>5, <2>1, <2>2, <2>3 DEF Receive, TypeOK, directoryVars
<1>6. CASE ProcessStops
  <2>1. losses' \in 0..MaxLosses
    BY <1>6, LossesBounded DEF ProcessStops, TypeOK
  <2>2. record' \subseteq RoomIds
    BY <1>6 DEF ProcessStops, RoutingForgets, TypeOK
  <2> QED BY <1>0, <1>6, <2>1, <2>2 DEF ProcessStops, Stop, TypeOK
<1>7. CASE ProcessStarts
  BY <1>7 DEF ProcessStarts, StartAgain, TypeOK, linkVars
<1> QED BY <1>1, <1>2, <1>3, <1>4, <1>5, <1>6, <1>7 DEF RoutingNext

LEMMA StutterTyped == TypeOK /\ UNCHANGED routingVars => TypeOK'
  BY DEF TypeOK, routingVars, directoryVars, linkVars

LEMMA InitTyped == RoutingInit => TypeOK
<1>1. <<>> \in Seq(Messages) /\ <<>> \in Seq(RoomMessages) /\ 0 \in 0..MaxLosses
  BY LossesBounded
<1> QED BY <1>1 DEF RoutingInit, DirectoryInit, TypeOK

(* Type correctness, and with it that only messages about one room wait    *)
(* for a connection, never a registration, and that nothing is in flight   *)
(* without one.                                                            *)
THEOREM TypeCorrect == RoutingSpec => []TypeOK
  BY InitTyped, NextTyped, StutterTyped, PTL DEF RoutingSpec

----------------------------------------------------------------------------
(* What the last message about a room says of it.                          *)

Tells(m, id) == m.type = "register" \/ m.room = id
Says(m, id) == IF m.type = "register" THEN id \in m.rooms ELSE m.type = "created"
LastOf(i, q, id) ==
    Tells(q[i], id) /\ \A j \in 1..Len(q) : j > i => ~Tells(q[j], id)
Silent(q, id) == \A i \in 1..Len(q) : ~Tells(q[i], id)
EndsRight(q, id) ==
    \A i \in 1..Len(q) : LastOf(i, q, id) => (Says(q[i], id) <=> id \in registered)

(* A debt says what is true of its room.                                   *)
OwedRight(id) ==
    \A m \in owed : m.room = id => (m.about = "created" <=> id \in registered)

(* Once nothing is owed, the last word on its way, or kept for the next    *)
(* connection, is right; and with no word on its way the record is.        *)
LinkRight(id) ==
    (\A m \in owed : m.room # id) =>
        IF connected
        THEN /\ EndsRight(inFlight, id)
             /\ Silent(inFlight, id) => (id \in record <=> id \in registered)
        ELSE EndsRight(sendBuffer, id)

RecordInv == \A id \in RoomIds \ contested : OwedRight(id) /\ LinkRight(id)

(* Queues of messages.                                                     *)
LEMMA EndsRightAppended ==
  ASSUME NEW q \in Seq(Messages), NEW m \in Messages, NEW id \in RoomIds,
         IF Tells(m, id) THEN Says(m, id) <=> id \in registered ELSE EndsRight(q, id)
  PROVE  EndsRight(Append(q, m), id)
<1> DEFINE a == Append(q, m)
<1>1. /\ Len(q) \in Nat /\ Len(a) = Len(q) + 1 /\ a[Len(a)] = m
      /\ \A i \in 1..Len(q) : a[i] = q[i]
  OBVIOUS
<1> SUFFICES ASSUME NEW i \in 1..Len(a), LastOf(i, a, id)
             PROVE  Says(a[i], id) <=> id \in registered
  BY DEF EndsRight
<1>2. CASE Tells(m, id)
  <2>1. i = Len(a)
    BY <1>1, <1>2 DEF LastOf
  <2> QED BY <1>1, <1>2, <2>1
<1>3. CASE ~Tells(m, id)
  <2>1. i \in 1..Len(q)
    BY <1>1, <1>3 DEF LastOf
  <2>2. LastOf(i, q, id)
    BY <1>1, <2>1 DEF LastOf
  <2> QED BY <1>1, <1>3, <2>1, <2>2 DEF EndsRight
<1> QED BY <1>2, <1>3

LEMMA SilentAppended ==
  ASSUME NEW q \in Seq(Messages), NEW m \in Messages, NEW id \in RoomIds,
         Silent(Append(q, m), id)
  PROVE  Silent(q, id) /\ ~Tells(m, id)
<1> DEFINE a == Append(q, m)
<1>1. /\ Len(q) \in Nat /\ Len(a) = Len(q) + 1 /\ a[Len(a)] = m
      /\ \A i \in 1..Len(q) : a[i] = q[i]
  OBVIOUS
<1> QED BY <1>1 DEF Silent

LEMMA EndsRightPrefixed ==
  ASSUME NEW q \in Seq(Messages), NEW m \in Messages, NEW id \in RoomIds,
         Says(m, id) <=> id \in registered, EndsRight(q, id)
  PROVE  EndsRight(<<m>> \o q, id)
<1> DEFINE a == <<m>> \o q
<1>1. /\ Len(q) \in Nat /\ Len(a) = Len(q) + 1 /\ a[1] = m
      /\ \A i \in 1..Len(q) : a[i + 1] = q[i]
  OBVIOUS
<1> SUFFICES ASSUME NEW i \in 1..Len(a), LastOf(i, a, id), i # 1
             PROVE  Says(a[i], id) <=> id \in registered
  BY <1>1 DEF EndsRight
<1>2. i - 1 \in 1..Len(q) /\ a[i] = q[i - 1]
  BY <1>1
<1>3. \A j \in 1..Len(q) : j > i - 1 => j + 1 \in 1..Len(a) /\ j + 1 > i
  BY <1>1
<1>4. LastOf(i - 1, q, id)
  BY <1>1, <1>2, <1>3 DEF LastOf
<1> QED BY <1>2, <1>4 DEF EndsRight

LEMMA EndsRightTail ==
  ASSUME NEW q \in Seq(Messages), q # <<>>, NEW id \in RoomIds, EndsRight(q, id)
  PROVE  /\ EndsRight(Tail(q), id)
         /\ Silent(Tail(q), id) =>
               \/ Silent(q, id) /\ ~Tells(Head(q), id)
               \/ Tells(Head(q), id) /\ (Says(Head(q), id) <=> id \in registered)
<1> DEFINE t == Tail(q)
<1>1. /\ Len(q) \in Nat \ {0} /\ Len(t) = Len(q) - 1 /\ q[1] = Head(q)
      /\ \A i \in 1..Len(t) : t[i] = q[i + 1]
  OBVIOUS
<1>2. ASSUME NEW i \in 1..Len(t), LastOf(i, t, id)
      PROVE  Says(t[i], id) <=> id \in registered
  <2>1. i + 1 \in 1..Len(q) /\ t[i] = q[i + 1]
    BY <1>1
  <2>2. \A j \in 1..Len(q) : j > i + 1 => j - 1 \in 1..Len(t) /\ t[j - 1] = q[j]
    BY <1>1
  <2>3. LastOf(i + 1, q, id)
    BY <1>2, <2>1, <2>2 DEF LastOf
  <2> QED BY <2>1, <2>3 DEF EndsRight
<1>3. ASSUME Silent(t, id)
      PROVE  \A j \in 1..Len(q) : j > 1 => ~Tells(q[j], id)
  <2>1. \A j \in 1..Len(q) : j > 1 => j - 1 \in 1..Len(t) /\ t[j - 1] = q[j]
    BY <1>1
  <2> QED BY <1>3, <2>1 DEF Silent
<1>4. ASSUME Silent(t, id), Tells(Head(q), id)
      PROVE  Says(Head(q), id) <=> id \in registered
  BY <1>1, <1>3, <1>4 DEF LastOf, EndsRight
<1>5. ASSUME Silent(t, id), ~Tells(Head(q), id)
      PROVE  Silent(q, id)
  BY <1>1, <1>3, <1>5 DEF Silent
<1> QED BY <1>2, <1>4, <1>5 DEF EndsRight

LEMMA EmptyIsSilent == \A id : Silent(<<>>, id) /\ EndsRight(<<>>, id)
  BY DEF Silent, EndsRight

----------------------------------------------------------------------------
(* The invariant, step by step.                                            *)

LEMMA OpeningKeepsRecord ==
  ASSUME TypeOK, RecordInv, NEW h \in Handlers, NEW x \in RoomIds, OpenOrClose(h, x)
  PROVE  RecordInv'
<1> SUFFICES ASSUME NEW id \in RoomIds, id \notin contested'
             PROVE  OwedRight(id)' /\ LinkRight(id)'
  BY DEF RecordInv
<1>1. id \notin contested /\ ~Overlapping(id) /\ OwedRight(id) /\ LinkRight(id)
  BY DEF OpenOrClose, RecordInv
<1>2. UNCHANGED <<connected, sendBuffer, inFlight, record>>
  BY DEF OpenOrClose, linkVars
<1>3. PICK about \in {"created", "removed"} :
         /\ owed' = owed \cup {[by |-> h, about |-> about, room |-> x]}
         /\ about = "created" => registered' = registered \cup {x}
         /\ about = "removed" => registered' = registered \ {x}
  BY DEF OpenOrClose, Open, Close, Owes
<1>4. CASE id = x
  <2>1. \A m \in owed' : m.room = id => m.about = about
    <3>1. \A m \in owed' : m.about \in {"created", "removed"}
      BY <1>3 DEF TypeOK, Announcement
    <3>2. [by |-> h, about |-> about, room |-> x] \in owed'
      BY <1>3
    <3> QED BY <1>1, <1>4, <3>1, <3>2 DEF Overlapping
  <2>2. about = "created" <=> id \in registered'
    BY <1>3, <1>4
  <2>3. \E m \in owed' : m.room = id
    <3>1. [by |-> h, about |-> about, room |-> x].room = id
      BY <1>4
    <3> QED BY <1>3, <3>1
  <2> QED BY <2>1, <2>2, <2>3 DEF OwedRight, LinkRight
<1>5. CASE id # x
  <2>1. id \in registered' <=> id \in registered
    BY <1>3, <1>5
  <2>2. \A m \in owed' : m.room = id => m \in owed
    BY <1>3, <1>5
  <2>3. owed \subseteq owed'
    BY <1>3
  <2>4. OwedRight(id)'
    BY <1>1, <2>1, <2>2 DEF OwedRight
  <2>5. LinkRight(id)'
    BY <1>1, <1>2, <2>1, <2>3 DEF LinkRight, EndsRight, Silent, LastOf
  <2> QED BY <2>4, <2>5
<1> QED BY <1>4, <1>5

LEMMA AnnouncingKeepsRecord ==
  ASSUME TypeOK, RecordInv, NEW m \in owed, EmitAnnouncement(m)
  PROVE  RecordInv'
<1> SUFFICES ASSUME NEW id \in RoomIds, id \notin contested
             PROVE  OwedRight(id)' /\ LinkRight(id)'
  BY DEF RecordInv, EmitAnnouncement
<1>1. OwedRight(id) /\ LinkRight(id)
  BY DEF RecordInv
<1>2. /\ UNCHANGED <<connected, record, registered>> /\ owed' = owed \ {m}
      /\ Emits(Message(m))
  BY DEF EmitAnnouncement, Announce
<1>3. OwedRight(id)'
  BY <1>1, <1>2 DEF OwedRight
<1>4. ASSUME \A o \in owed' : o.room # id
      PROVE  IF connected'
             THEN /\ EndsRight(inFlight, id)'
                  /\ Silent(inFlight, id)' => (id \in record' <=> id \in registered')
             ELSE EndsRight(sendBuffer, id)'
  <2> DEFINE w == Message(m)
             q == IF connected THEN inFlight ELSE sendBuffer
  <2>1. w \in Messages /\ w.type = m.about /\ w.room = m.room
        /\ m.about \in {"created", "removed"}
    BY MessagesTyped DEF Message, Announcement
  <2>2. IF Tells(w, id) THEN Says(w, id) <=> id \in registered ELSE EndsRight(q, id)
    <3>1. CASE m.room = id
      BY <1>1, <2>1, <3>1 DEF OwedRight, Tells, Says
    <3>2. CASE m.room # id
      <4>1. \A o \in owed : o.room # id
        BY <1>2, <1>4, <3>2
      <4> QED BY <1>1, <2>1, <3>2, <4>1 DEF LinkRight, Tells
    <3> QED BY <3>1, <3>2
  <2>3. q \in Seq(Messages)
    BY MessagesTyped DEF TypeOK
  <2>4. EndsRight(Append(q, w), id)
    BY <2>1, <2>2, <2>3, EndsRightAppended
  <2>5. CASE connected
    <3>1. inFlight' = Append(q, w)
      BY <1>2, <2>5 DEF Emits
    <3>2. EndsRight(inFlight, id)'
      BY <1>2, <2>4, <3>1 DEF EndsRight, LastOf
    <3>3. ASSUME Silent(inFlight, id)'
          PROVE  id \in record <=> id \in registered
      <4>1. Silent(inFlight, id) /\ ~Tells(w, id)
        BY <2>1, <2>3, <2>5, <3>1, <3>3, SilentAppended DEF Silent
      <4>2. \A o \in owed : o.room # id
        BY <1>2, <1>4, <2>1, <4>1 DEF Tells
      <4> QED BY <1>1, <2>5, <4>1, <4>2 DEF LinkRight
    <3> QED BY <1>2, <2>5, <3>2, <3>3
  <2>6. CASE ~connected
    <3>1. sendBuffer' = Append(q, w)
      BY <1>2, <2>6 DEF Emits
    <3> QED BY <1>2, <2>4, <2>6, <3>1 DEF EndsRight, LastOf
  <2> QED BY <2>5, <2>6
<1> QED BY <1>3, <1>4 DEF LinkRight

LEMMA ConnectingKeepsRecord ==
  ASSUME TypeOK, RecordInv, ConnectToRouting
  PROVE  RecordInv'
<1> SUFFICES ASSUME NEW id \in RoomIds, id \notin contested
             PROVE  OwedRight(id)' /\ LinkRight(id)'
  BY DEF RecordInv, ConnectToRouting
<1>1. OwedRight(id) /\ LinkRight(id) /\ ~connected /\ connected'
  BY DEF RecordInv, ConnectToRouting
<1>2. UNCHANGED <<registered, owed, record>>
  BY DEF ConnectToRouting, directoryVars
<1>3. ASSUME \A m \in owed : m.room # id
      PROVE  EndsRight(inFlight, id)' /\ ~Silent(inFlight, id)'
  <2>1. EndsRight(sendBuffer, id) /\ sendBuffer \in Seq(Messages)
    BY <1>1, <1>3, MessagesTyped DEF LinkRight, TypeOK
  <2>2. /\ Registration \in Messages /\ Tells(Registration, id)
        /\ Says(Registration, id) <=> id \in registered
    BY MessagesTyped DEF Registration, Tells, Says
  <2>3. CASE inFlight' = <<Registration>> \o sendBuffer
    <3>1. EndsRight(<<Registration>> \o sendBuffer, id)
      BY <2>1, <2>2, EndsRightPrefixed
    <3>2. ~Silent(<<Registration>> \o sendBuffer, id)
      <4>1. /\ (<<Registration>> \o sendBuffer)[1] = Registration
            /\ 1 \in 1..Len(<<Registration>> \o sendBuffer)
        BY <2>1, <2>2
      <4> QED BY <2>2, <4>1 DEF Silent
    <3> QED BY <1>2, <2>3, <3>1, <3>2 DEF EndsRight, LastOf, Silent
  <2>4. CASE inFlight' = Append(sendBuffer, Registration)
    <3>1. EndsRight(Append(sendBuffer, Registration), id)
      BY <2>1, <2>2, EndsRightAppended
    <3>2. ~Silent(Append(sendBuffer, Registration), id)
      BY <2>1, <2>2, SilentAppended
    <3> QED BY <1>2, <2>4, <3>1, <3>2 DEF EndsRight, LastOf, Silent
  <2> QED BY <2>3, <2>4 DEF ConnectToRouting
<1> QED BY <1>1, <1>2, <1>3 DEF OwedRight, LinkRight

LEMMA ReceivingKeepsRecord ==
  ASSUME TypeOK, RecordInv, Receive
  PROVE  RecordInv'
<1> SUFFICES ASSUME NEW id \in RoomIds, id \notin contested
             PROVE  OwedRight(id)' /\ LinkRight(id)'
  BY DEF RecordInv, Receive
<1> DEFINE message == Head(inFlight)
<1>1. OwedRight(id) /\ LinkRight(id) /\ connected /\ inFlight # <<>>
  BY DEF RecordInv, Receive, TypeOK
<1>2. UNCHANGED <<registered, owed, connected>> /\ inFlight' = Tail(inFlight)
  BY DEF Receive, directoryVars
<1>3. message \in Messages
  BY <1>1, LinkTyped DEF TypeOK
<1>4. IF Tells(message, id) THEN id \in record' <=> Says(message, id)
                            ELSE id \in record' <=> id \in record
  BY <1>3 DEF Receive, Messages, RoomMessages, Tells, Says
<1>5. ASSUME \A m \in owed : m.room # id
      PROVE  /\ EndsRight(inFlight, id)'
             /\ Silent(inFlight, id)' => (id \in record' <=> id \in registered)
  <2>1. /\ EndsRight(inFlight, id) /\ inFlight \in Seq(Messages)
        /\ Silent(inFlight, id) => (id \in record <=> id \in registered)
    BY <1>1, <1>5 DEF LinkRight, TypeOK
  <2>2. /\ EndsRight(Tail(inFlight), id)
        /\ Silent(Tail(inFlight), id) =>
              \/ Silent(inFlight, id) /\ ~Tells(message, id)
              \/ Tells(message, id) /\ (Says(message, id) <=> id \in registered)
    BY <1>1, <2>1, EndsRightTail
  <2>3. EndsRight(inFlight, id)'
    BY <1>2, <2>2 DEF EndsRight, LastOf
  <2>4. Silent(inFlight, id)' => Silent(Tail(inFlight), id)
    BY <1>2 DEF Silent
  <2> QED BY <1>4, <2>1, <2>2, <2>3, <2>4
<1> QED BY <1>1, <1>2, <1>5 DEF OwedRight, LinkRight

LEMMA RecordKept ==
  ASSUME TypeOK, RecordInv, RoutingNext
  PROVE  RecordInv'
<1>1. CASE LoseConnection
  <2>1. /\ UNCHANGED <<registered, owed, contested>> /\ ~connected' /\ sendBuffer' = <<>>
    BY <1>1 DEF LoseConnection, TypeOK, directoryVars
  <2> QED BY <2>1, EmptyIsSilent DEF RecordInv, OwedRight, LinkRight, EndsRight
<1>2. CASE ProcessStops
  <2>1. owed' = {} /\ ~connected' /\ sendBuffer' = <<>>
    BY <1>2 DEF ProcessStops, Stop
  <2> QED BY <2>1, EmptyIsSilent DEF RecordInv, OwedRight, LinkRight, EndsRight
<1>3. CASE ProcessStarts
  BY <1>3 DEF ProcessStarts, StartAgain, linkVars, RecordInv, OwedRight, LinkRight, EndsRight,
     Silent, LastOf
<1> QED BY <1>1, <1>2, <1>3, OpeningKeepsRecord, AnnouncingKeepsRecord, ConnectingKeepsRecord,
        ReceivingKeepsRecord DEF RoutingNext

(* The routing server's list of rooms is right whenever nothing is on its  *)
(* way and nothing owed, whichever messages were lost with connections,    *)
(* kept for the next one, or sent before or after its registration: the    *)
(* registration makes good what was lost, and what follows it is newer.    *)
THEOREM RecordsAgree == RoutingSpec => []RecordAgrees
<1>1. RoutingInit => RecordInv
  BY EmptyIsSilent DEF RoutingInit, DirectoryInit, RecordInv, OwedRight, LinkRight
<1>2. TypeOK /\ RecordInv /\ [RoutingNext]_routingVars => RecordInv'
  <2>1. RecordInv /\ UNCHANGED routingVars => RecordInv'
    BY DEF RecordInv, OwedRight, LinkRight, EndsRight, Silent, LastOf, routingVars, directoryVars,
       linkVars
  <2> QED BY <2>1, RecordKept
<1>3. RecordInv => RecordAgrees
  BY EmptyIsSilent DEF RecordInv, LinkRight, RecordAgrees
<1> QED BY <1>1, <1>2, <1>3, TypeCorrect, PTL DEF RoutingSpec
==========================================================================
