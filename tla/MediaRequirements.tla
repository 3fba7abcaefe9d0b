------------------------ MODULE MediaRequirements ------------------------
(***************************************************************************)
(* What Media must guarantee.  One history variable records the transports *)
(* that the code loses sight of.                                           *)
(***************************************************************************)
EXTENDS Media

VARIABLE
    lost     \* transports made for a peer that was no longer found, and send
             \* transports replaced by another

allVars == <<vars, lost>>

InitH == Init /\ lost = {}
NextH ==
    /\ Next
    /\ lost' = IF fatal' # NoError THEN {} ELSE lost
          \cup {t \in Transports : /\ transport[t].step = "awaited"
                                   /\ transport'[t].step = "open"
                                   /\ ~Found(transport[t].owner)}
          \cup {t \in Transports : \E p \in Peers :
                   sendTransport[p] = t /\ sendTransport'[p] # t}
SpecH == InitH /\ [][NextH]_allVars

TransportRecords ==
    [step : Steps, owner : Peers \cup {None}, receive : BOOLEAN]
ProducerRecords ==
    [step : Steps, owner : Peers \cup {None}, on : Transports \cup {None}, kind : Kinds]
ConsumerRecords ==
    [step : Steps, owner : Peers \cup {None}, of : Producers \cup {None}]
Used(object) == object.step # "unused"

PeersTyped ==
    /\ fatal \in Errors \cup {NoError}
    /\ status \in [Peers -> Statuses] /\ muted \in [Peers -> BOOLEAN]
    /\ sendTransport \in [Peers -> Transports \cup {None}]
    /\ receiveTransports \in [Peers -> SUBSET Transports]
    /\ producers \in [Peers -> SUBSET Producers]
    /\ consumers \in [Peers -> SUBSET Consumers]
    /\ told \in [Peers -> [enabledHeadset : BOOLEAN, enabledMicrophone : BOOLEAN]]
    /\ asked \subseteq Peers
    /\ knows \in [Peers -> SUBSET Producers]

ObjectsTyped ==
    /\ transport \in [Transports -> TransportRecords]
    /\ producer \in [Producers -> ProducerRecords]
    /\ consumer \in [Consumers -> ConsumerRecords]
    /\ notices \subseteq Consumers /\ given \subseteq Consumers
    /\ resuming \subseteq Consumers

OwnersKnown ==
    /\ \A t \in Transports : Used(transport[t]) => transport[t].owner \in Peers
    /\ \A x \in Producers : Used(producer[x]) =>
          producer[x].owner \in Peers /\ producer[x].on \in Transports
    /\ \A c \in Consumers : Used(consumer[c]) =>
          consumer[c].owner \in Peers /\ consumer[c].of \in Producers

(* Every variable keeps its type, and every object that has been asked for *)
(* has a peer and, unless it is a transport, what it was made on.          *)
TypeOK == PeersTyped /\ ObjectsTyped /\ OwnersKnown

(* A peer with its headset off hears nothing: none of its audio consumers  *)
(* is open, whenever the headset was switched off (Peer.muteHeadset and    *)
(* the check of createConsumer after its await).                           *)
MutedHearsNothing ==
    \A c \in Consumers : consumer[c].step = "open" /\ IsAudio(consumer[c].of) =>
        ~muted[consumer[c].owner]

(* No producer goes on sending without its peer: an open one is on the     *)
(* list of a peer that has not been disposed of, wherever that peer left   *)
(* while it was being made (createProducer, Peer.dispose).                 *)
ProducersOwned ==
    \A x \in Producers : producer[x].step = "open" =>
        /\ x \in producers[producer[x].owner]
        /\ status[producer[x].owner] # "left"

(* Disposing of a peer leaves none of its transports open: an open one is  *)
(* on the list of a peer not yet disposed of, unless the code has lost     *)
(* sight of it, made for a peer no longer found or replaced                *)
(* (createTransport, Peer.addTransport).  A peer whose Room was            *)
(* overwritten is never disposed of; its transports stay on its list.      *)
TransportsOwned ==
    \A t \in Transports \ lost : transport[t].step = "open" =>
        LET p == transport[t].owner IN
        /\ status[p] # "left"
        /\ t = sendTransport[p] \/ t \in receiveTransports[p]

(* The consumers a peer of the running Room lists are exactly those of its *)
(* consumers that are open; a disposed peer has none.  resume, hide and    *)
(* mute look for consumers on that list only.                              *)
ConsumersListed ==
    \A p \in Peers :
        LET open == {c \in Consumers : consumer[c].step = "open" /\ consumer[c].owner = p} IN
        /\ Found(p) => consumers[p] = open
        /\ status[p] = "left" => open = {}

(* Nobody waits for ever on a producer that has closed: an open consumer   *)
(* has an open producer, or the event that closes it is on its way; and    *)
(* its client will be told, unless its peer is in a Room that another one  *)
(* has overwritten.                                                        *)
ConsumersFed ==
    \A c \in Consumers : consumer[c].step = "open" =>
        /\ producer[consumer[c].of].step = "open" \/ c \in notices
        /\ c \in given \/ ~Found(consumer[c].owner)

(* No producer is missed: a client that has asked for the producers knows  *)
(* each one of the others in its Room, the answer and NEW_PRODUCER leaving *)
(* no gap between them.                                                    *)
ProducersKnown ==
    \A p, q \in InRoom : p # q /\ q \in asked => producers[p] \subseteq knows[q]

(* What was last broadcast of a peer is how it is: each handler that       *)
(* changes the headset or the producers tells the others (PeerState).      *)
StateBroadcast == \A p \in InRoom : told[p] = PeerState(p)

----------------------------------------------------------------------------
(* room_service.ts, resumeConsumer: that the peer of a CONSUME_RESUME is   *)
(* gone is no error ("if (peer === undefined) return").                    *)
AbsentPeerTolerated == fatal # "There is no room!"
==========================================================================
