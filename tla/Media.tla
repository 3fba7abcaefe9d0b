------------------------------ MODULE Media ------------------------------
(***************************************************************************)
(* The media of one room id: the transports, producers and consumers that  *)
(* Peer holds, the handlers of worker.ts that make, use and close them,    *)
(* and what the clients are told of them.  How peers come and go is the    *)
(* subject of RoomService; here a peer enters once, on a socket and as a   *)
(* user of its own.                                                        *)
(*                                                                         *)
(* mediasoup is external.  Its worker answers calls in the order they were *)
(* made; a consumer whose producer closes is closed by the worker, and the *)
(* server learns of it by a later event; closing a transport closes what   *)
(* is on it.  An error no handler catches ends the process.                *)
(***************************************************************************)
CONSTANTS
    Peers,        \* sockets, each with the Peer its one JOIN_ROOM makes
    Transports,   \* createTransport calls, and the objects they make
    Producers,    \* createProducer calls, and the objects they make
    Consumers,    \* createConsumer calls, and the objects they make
    None

ASSUME NoneIsNoTransport == None \notin Transports

VARIABLES
    fatal,        \* the error that ended the process, None while it runs
    status,       \* where the peer stands, see Statuses
    muted,        \* Peer._mutedHeadset
    sendTransport, receiveTransports, producers, consumers,   \* Peer's fields
    transport, producer, consumer,                            \* the objects
    notices,      \* consumers whose "producerclose" is on its way
    given,        \* consumers answered to the client, with a listener for it
    resuming,     \* consumers whose resume() is awaited
    told,         \* peer -> its PeerState as broadcast last
    asked,        \* peers that have called GET_PRODUCER_IDS
    knows         \* peer -> the producers its client has been told of

peerVars == <<status, muted>>
transportVars == <<sendTransport, receiveTransports, transport>>
producerVars == <<producers, producer>>
consumerVars == <<consumers, consumer, notices, given, resuming>>
clientVars == <<told, asked, knows>>
vars == <<fatal, peerVars, transportVars, producerVars, consumerVars, clientVars>>

Kinds == {"audio", "video"}

(* "in" the registered Room; "stray" in a Room another one has overwritten *)
(* in the registry; "left" and disposed of; "gone": left from a stray Room *)
(* without being disposed of.                                              *)
Statuses == {"out", "in", "stray", "left", "gone"}
Steps == {"unused", "awaited", "open", "closed"}
NoError == None
Errors == {"There is no room!", "There is no peer!", "There is no peer by socket",
           "There is no peer to dispose!", "no such user", "no video", "produce", "resume"}

Up == fatal = NoError
Connected(p) == Up /\ status[p] \in {"out", "in", "stray"}

(* findRoomBySocketId, findPeerBy: a stray peer's socket leads to the Room *)
(* that is registered, if there is one, and no peer is found there.        *)
InRoom == {p \in Peers : status[p] = "in"}
FindsRoom(p) == status[p] = "in" \/ (status[p] = "stray" /\ InRoom # {})
Found(p) == status[p] = "in"

IsAudio(x) == producer[x].kind = "audio"
OfKind(p, kind) == {x \in producers[p] : producer[x].kind = kind}
ConsumersOf(xs) == {c \in Consumers : consumer[c].step = "open" /\ consumer[c].of \in xs}
PeerState(p) == [enabledHeadset |-> ~muted[p],
                 enabledMicrophone |-> OfKind(p, "audio") # {}]

Everybody(value) == [p \in Peers |-> value]
NoTransport == [step |-> "unused", owner |-> None, receive |-> FALSE]
NoProducer == [step |-> "unused", owner |-> None, on |-> None, kind |-> "audio"]
NoConsumer == [step |-> "unused", owner |-> None, of |-> None]
Untold == [enabledHeadset |-> TRUE, enabledMicrophone |-> FALSE]

Init ==
    /\ fatal = NoError
    /\ status = Everybody("out") /\ muted = Everybody(FALSE)
    /\ sendTransport = Everybody(None) /\ receiveTransports = Everybody({})
    /\ producers = Everybody({}) /\ consumers = Everybody({})
    /\ transport = [t \in Transports |-> NoTransport]
    /\ producer = [x \in Producers |-> NoProducer]
    /\ consumer = [c \in Consumers |-> NoConsumer]
    /\ notices = {} /\ given = {} /\ resuming = {}
    /\ told = Everybody(Untold) /\ asked = {} /\ knows = Everybody({})

----------------------------------------------------------------------------
Closed(objects, which) ==
    [o \in DOMAIN objects |->
        IF o \in which THEN [objects[o] EXCEPT !.step = "closed"] ELSE objects[o]]

(* A mutant of Broadcasts: nobody is told.                                 *)
BroadcastsNothing(p) == told' = told

(* broadcastPeerStateChanged, for a peer that is found.                    *)
Broadcasts(p) == told' = [told EXCEPT ![p] = PeerState(p)']

(* Nothing is left of a process that has ended.                            *)
Fails(error) ==
    /\ fatal' = error
    /\ status' = Everybody("out") /\ muted' = Everybody(FALSE)
    /\ sendTransport' = Everybody(None) /\ receiveTransports' = Everybody({})
    /\ producers' = Everybody({}) /\ consumers' = Everybody({})
    /\ transport' = [t \in Transports |-> NoTransport]
    /\ producer' = [x \in Producers |-> NoProducer]
    /\ consumer' = [c \in Consumers |-> NoConsumer]
    /\ notices' = {} /\ given' = {} /\ resuming' = {}
    /\ told' = Everybody(Untold) /\ asked' = {} /\ knows' = Everybody({})

(* consumer.close(): a notice still on its way finds no listener.          *)
CloseConsumers(cs) ==
    /\ consumer' = Closed(consumer, cs)
    /\ notices' = notices \ cs

(* producer.close(): who consumes it hears of it later.                    *)
CloseProducers(xs) ==
    /\ producer' = Closed(producer, xs)
    /\ notices' = notices \cup ConsumersOf(xs)

----------------------------------------------------------------------------
(* A peer enters the Room, or one that it has built, which replaces the    *)
(* Room another request has built meanwhile.  Its state reaches the others *)
(* by PEER_STATE_CHANGED or with the answers of their own JOIN_ROOM.       *)
Enter(p, isMuted, overwrites) ==
    /\ Up /\ status[p] = "out"
    /\ status' = [q \in Peers |->
          IF q = p THEN "in"
          ELSE IF overwrites /\ status[q] = "in" THEN "stray" ELSE status[q]]
    /\ muted' = [muted EXCEPT ![p] = isMuted]
    /\ UNCHANGED <<fatal, transportVars, producerVars, consumerVars, asked, knows>>
    /\ Broadcasts(p)

(* A mutant of DisposedTransports: the receive transports are forgotten.   *)
DisposedTransportsSend(p) == {sendTransport[p]} \ {None}

(* Peer.dispose.                                                           *)
DisposedTransports(p) == receiveTransports[p] \cup ({sendTransport[p]} \ {None})

(* The close of a receive transport takes it off the list.                 *)
Leave(p) ==
    /\ Up /\ Found(p)
    /\ status' = [status EXCEPT ![p] = "left"]
    /\ consumer' = Closed(consumer, consumers[p])
    /\ producer' = Closed(producer, producers[p])
    /\ notices' = (notices \cup ConsumersOf(producers[p])) \ consumers[p]
    /\ transport' = Closed(transport, DisposedTransports(p))
    /\ receiveTransports' = [receiveTransports EXCEPT ![p] = {}]
    /\ UNCHANGED <<fatal, muted, sendTransport, producers, consumers, given, resuming,
                   clientVars>>

(* A stray peer's socket closes: the Room found in its place has no peer   *)
(* to dispose of; if none is found, nothing is done.                       *)
StrayLeaves(p) ==
    /\ Up /\ status[p] = "stray"
    /\ IF FindsRoom(p)
       THEN Fails("There is no peer to dispose!")
       ELSE /\ status' = [status EXCEPT ![p] = "gone"]
            /\ UNCHANGED <<fatal, muted, transportVars, producerVars, consumerVars, clientVars>>

----------------------------------------------------------------------------
(* CREATE_WEB_RTC_TRANSPORT.  The router is found before the await, the    *)
(* peer after it; a transport made for nobody is not closed.  A rejected   *)
(* call, of this or of CONSUME, is caught and is as one never answered.    *)
CreateTransport(p, t, isConsumer) ==
    /\ Connected(p) /\ FindsRoom(p)
    /\ transport[t].step = "unused"
    /\ transport' = [transport EXCEPT ![t] =
          [step |-> "awaited", owner |-> p, receive |-> isConsumer]]
    /\ UNCHANGED <<fatal, peerVars, sendTransport, receiveTransports, producerVars,
                   consumerVars, clientVars>>

(* addTransport: a second send transport replaces the first.               *)
AddTransport(p, t) ==
    IF transport[t].receive
    THEN /\ receiveTransports' = [receiveTransports EXCEPT ![p] = @ \cup {t}]
         /\ UNCHANGED sendTransport
    ELSE /\ sendTransport' = [sendTransport EXCEPT ![p] = t]
         /\ UNCHANGED receiveTransports

TransportCreated(t) ==
    /\ Up /\ transport[t].step = "awaited"
    /\ transport' = [transport EXCEPT ![t].step = "open"]
    /\ IF Found(transport[t].owner)
       THEN AddTransport(transport[t].owner, t)
       ELSE UNCHANGED <<sendTransport, receiveTransports>>
    /\ UNCHANGED <<fatal, peerVars, producerVars, consumerVars, clientVars>>

----------------------------------------------------------------------------
(* TRANSPORT_PRODUCER.                                                     *)

(* A mutant of CanProduce: the transport is not looked for.                *)
CanProduceAlways(p) == Found(p)

CanProduce(p) == Found(p) /\ sendTransport[p] # None

CreateProducer(p, x, kind) ==
    /\ Connected(p) /\ CanProduce(p)
    /\ producer[x].step = "unused"
    /\ producer' = [producer EXCEPT ![x] =
          [step |-> "awaited", owner |-> p, on |-> sendTransport[p], kind |-> kind]]
    /\ UNCHANGED <<fatal, peerVars, transportVars, producers, consumerVars, clientVars>>

(* Mutants of OrphanStep and of Informs: the producer of a departed peer   *)
(* is kept; nobody is told of a new one.                                   *)
OrphanStepKept == "open"
InformsNobody(p, x) == knows' = knows

(* The producer of a peer that has gone meanwhile is closed.               *)
OrphanStep == "closed"

(* informConsumersNewProducerAppeared: NEW_PRODUCER, to the others.        *)
Informs(p, x) ==
    knows' = [q \in Peers |-> IF q \in InRoom \ {p} THEN knows[q] \cup {x} ELSE knows[q]]

ProducerCreated(x) ==
    LET p == producer[x].owner IN
    /\ Up /\ producer[x].step = "awaited"
    /\ UNCHANGED <<fatal, peerVars, transportVars, consumerVars, asked>>
    /\ IF Found(p)
       THEN /\ producer' = [producer EXCEPT ![x].step = "open"]
            /\ producers' = [producers EXCEPT ![p] = @ \cup {x}]
            /\ Broadcasts(p)
            /\ Informs(p, x)
       ELSE /\ producer' = [producer EXCEPT ![x].step = OrphanStep]
            /\ UNCHANGED <<producers, told, knows>>

(* The worker rejects the call, and the handler does not catch it.         *)
ProduceRejected(x) ==
    /\ Up /\ producer[x].step = "awaited"
    /\ Fails("produce")

(* CLOSE_VIDEO_PRODUCER and CLOSE_AUDIO_PRODUCER.                          *)
CloseProducersOfKind(p, kind) ==
    /\ Connected(p)
    /\ IF ~Found(p)
       THEN Fails("There is no peer by socket")
       ELSE /\ CloseProducers(OfKind(p, kind))
            /\ producers' = [producers EXCEPT ![p] = @ \ OfKind(p, kind)]
            /\ UNCHANGED <<fatal, peerVars, transportVars, consumers, consumer, given,
                           resuming, asked, knows>>
            /\ Broadcasts(p)

(* GET_PRODUCER_IDS.                                                       *)
GetProducerIds(p) ==
    /\ Connected(p) /\ FindsRoom(p)
    /\ asked' = asked \cup {p}
    /\ knows' = [knows EXCEPT ![p] = @ \cup UNION {producers[q] : q \in InRoom \ {p}}]
    /\ UNCHANGED <<fatal, peerVars, transportVars, producerVars, consumerVars, told>>

----------------------------------------------------------------------------
(* CONSUME.                                                                *)

(* router.canConsume: the producer is open and of the same Room.           *)
CanConsume(x) == producer[x].step = "open" /\ Found(producer[x].owner)

CreateConsumer(p, c, x) ==
    /\ Connected(p) /\ Found(p)
    /\ receiveTransports[p] # {}
    /\ CanConsume(x)
    /\ consumer[c].step = "unused"
    /\ consumer' = [consumer EXCEPT ![c] = [step |-> "awaited", owner |-> p, of |-> x]]
    /\ UNCHANGED <<fatal, peerVars, transportVars, producerVars, consumers, notices,
                   given, resuming, clientVars>>

(* A mutant of RefusesAudio: the headset is not looked at after the await. *)
RefusesAudioNever(c) == FALSE

RefusesAudio(c) == muted[consumer[c].owner] /\ IsAudio(consumer[c].of)

(* A mutant of ClosedMeanwhile: the listener comes too late for it.        *)
ClosedUnheard(c) == FALSE

(* The producer has closed during the await, and the event of it follows.  *)
ClosedMeanwhile(c) == producer[consumer[c].of].step = "closed"

(* Nothing is listed, broadcast or answered.                               *)
AudioRefused(c) ==
    /\ Up /\ consumer[c].step = "awaited" /\ RefusesAudio(c)
    /\ consumer' = [consumer EXCEPT ![c].step = "closed"]
    /\ UNCHANGED <<fatal, peerVars, transportVars, producerVars, consumers, notices, given,
                   resuming, clientVars>>

(* The peer is the one found before the await.  If it has left, its        *)
(* transport has closed the consumer.  If it is not found any more, the    *)
(* broadcast throws: the client is answered with the error, which is       *)
(* caught, and no listener is installed.                                   *)
ConsumerCreated(c) ==
    LET p == consumer[c].owner IN
    /\ Up /\ consumer[c].step = "awaited" /\ ~RefusesAudio(c)
    /\ consumer' = [consumer EXCEPT ![c].step =
          IF status[p] = "left" THEN "closed" ELSE "open"]
    /\ notices' = IF status[p] # "left" /\ ClosedMeanwhile(c)
                  THEN notices \cup {c} ELSE notices
    /\ consumers' = [consumers EXCEPT ![p] = @ \cup {c}]
    /\ UNCHANGED <<fatal, peerVars, transportVars, producerVars, resuming, asked, knows>>
    /\ IF Found(p) THEN given' = given \cup {c} /\ Broadcasts(p)
                   ELSE UNCHANGED <<given, told>>

(* A mutant of Forgotten: the closed consumer stays on the list.           *)
ForgottenNot(p, c) == consumers[p]

Forgotten(p, c) == consumers[p] \ {c}

(* "producerclose" closes the consumer.  The listener, if there is one,    *)
(* sends the client PRODUCER_CLOSED and, if its peer is found, takes the   *)
(* consumer off the list.                                                  *)
ProducerClosed(c) ==
    LET p == consumer[c].owner IN
    /\ Up /\ c \in notices
    /\ CloseConsumers({c})
    /\ knows' = IF c \in given THEN [knows EXCEPT ![p] = @ \ {consumer[c].of}] ELSE knows
    /\ UNCHANGED <<fatal, peerVars, transportVars, producerVars, given, resuming, asked>>
    /\ IF c \in given /\ Found(p)
       THEN consumers' = [consumers EXCEPT ![p] = Forgotten(p, c)] /\ Broadcasts(p)
       ELSE UNCHANGED <<consumers, told>>

(* CONSUME_RESUME, for a consumer on the list; and its answer.  The worker *)
(* may have closed the consumer, and then rejects the call.                *)
Resume(p, c) ==
    /\ Connected(p) /\ Found(p) /\ c \in consumers[p] \ resuming
    /\ resuming' = resuming \cup {c}
    /\ UNCHANGED <<fatal, peerVars, transportVars, producerVars, consumers, consumer,
                   notices, given, clientVars>>

Resumed(c) ==
    LET p == consumer[c].owner IN
    /\ Up /\ c \in resuming
    /\ IF Found(p)
       THEN /\ resuming' = resuming \ {c}
            /\ UNCHANGED <<fatal, peerVars, transportVars, producerVars, consumers, consumer,
                           notices, given, asked, knows>>
            /\ Broadcasts(p)
       ELSE Fails(IF FindsRoom(p) THEN "There is no peer!" ELSE "There is no room!")

ResumeRejected(c) ==
    /\ Up /\ c \in resuming
    /\ producer[consumer[c].of].step = "closed"
    /\ Fails("resume")

----------------------------------------------------------------------------
(* HIDE_REMOTE_VIDEO and SHOW_REMOTE_VIDEO.                                *)
HideRemoteVideo(p, x) ==
    LET hidden == {c \in consumers[p] : consumer[c].of = x /\ ~IsAudio(x)} IN
    /\ Connected(p)
    /\ IF ~Found(p)
       THEN Fails("There is no peer by socket")
       ELSE /\ CloseConsumers(hidden)
            /\ consumers' = [consumers EXCEPT ![p] = @ \ hidden]
            /\ UNCHANGED <<fatal, peerVars, transportVars, producerVars, given, resuming, asked,
                           knows>>
            /\ Broadcasts(p)

(* The answer changes nothing; a user who is not there, or shows no video, *)
(* makes findVideoProducerId throw.                                        *)
ShowRemoteVideoFails(p, q) ==
    /\ Connected(p) /\ FindsRoom(p)
    /\ \/ ~Found(q) /\ Fails("no such user")
       \/ Found(q) /\ OfKind(q, "video") = {} /\ Fails("no video")

AudioConsumers(p) == {c \in consumers[p] : IsAudio(consumer[c].of)}

(* MUTE_HEADSET and UNMUTE_HEADSET.                                        *)
MuteHeadset(p) ==
    /\ Connected(p) /\ Found(p)
    /\ muted' = [muted EXCEPT ![p] = TRUE]
    /\ CloseConsumers(AudioConsumers(p))
    /\ consumers' = [consumers EXCEPT ![p] = @ \ AudioConsumers(p)]
    /\ UNCHANGED <<fatal, status, transportVars, producerVars, given, resuming, asked, knows>>
    /\ Broadcasts(p)

UnmuteHeadset(p) ==
    /\ Connected(p) /\ Found(p)
    /\ muted' = [muted EXCEPT ![p] = FALSE]
    /\ knows' = [knows EXCEPT ![p] = @ \cup UNION {OfKind(q, "audio") : q \in InRoom \ {p}}]
    /\ UNCHANGED <<fatal, status, transportVars, producerVars, consumerVars, asked>>
    /\ Broadcasts(p)

----------------------------------------------------------------------------
PeerStep(p) ==
    \/ \E isMuted, overwrites \in BOOLEAN : Enter(p, isMuted, overwrites)
    \/ Leave(p) \/ StrayLeaves(p)
    \/ MuteHeadset(p) \/ UnmuteHeadset(p) \/ GetProducerIds(p)
    \/ \E t \in Transports, isConsumer \in BOOLEAN : CreateTransport(p, t, isConsumer)
    \/ \E kind \in Kinds : CloseProducersOfKind(p, kind)
    \/ \E x \in Producers :
          \/ HideRemoteVideo(p, x)
          \/ \E kind \in Kinds : CreateProducer(p, x, kind)
    \/ \E q \in Peers : ShowRemoteVideoFails(p, q)
    \/ \E c \in Consumers : Resume(p, c) \/ \E x \in Producers : CreateConsumer(p, c, x)

Next ==
    \/ \E p \in Peers : PeerStep(p)
    \/ \E t \in Transports : TransportCreated(t)
    \/ \E x \in Producers : ProducerCreated(x) \/ ProduceRejected(x)
    \/ \E c \in Consumers :
          \/ ConsumerCreated(c) \/ AudioRefused(c) \/ ProducerClosed(c)
          \/ Resumed(c) \/ ResumeRejected(c)

Spec == Init /\ [][Next]_vars
==========================================================================
