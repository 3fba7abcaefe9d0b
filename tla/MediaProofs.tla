--------------------------- MODULE MediaProofs ---------------------------
(***************************************************************************)
(* Theorems about Media, for any number of peers and objects.              *)
(***************************************************************************)
EXTENDS MediaRequirements, TLAPS

(* What the guarantees rest on: a list holds objects that were made for    *)
(* its peer, and a peer that has not entered owns nothing.                 *)
TransportsHeld ==
    \A p \in Peers : \A t \in DisposedTransports(p) : Used(transport[t])

ProducersHeld ==
    \A p \in Peers : \A x \in producers[p] :
        /\ Used(producer[x]) /\ producer[x].owner = p
        /\ status[p] # "left" => producer[x].step = "open"

ConsumersHeld ==
    \A p \in Peers : \A c \in consumers[p] :
        Used(consumer[c]) /\ consumer[c].owner = p

ConsumersMade ==
    \A c \in Consumers : Used(consumer[c]) =>
        /\ status[consumer[c].owner] # "out"
        /\ producer[consumer[c].of].step \in {"open", "closed"}

NoticesDue ==
    /\ \A c \in notices \cup resuming : Used(consumer[c])
    /\ \A c \in notices : producer[consumer[c].of].step = "closed"

OutsidersOwnNothing ==
    \A p \in Peers : status[p] = "out" => producers[p] = {} /\ p \notin asked

(* ConsumersListed, consumer by consumer.                                  *)
EachListed ==
    \A p \in Peers : \A c \in Consumers :
        LET isOpen == consumer[c].step = "open" /\ consumer[c].owner = p IN
        /\ Found(p) => (c \in consumers[p] <=> isOpen)
        /\ status[p] = "left" => ~isOpen

(* The properties proved below, and the whole invariant.                   *)
Guarantees ==
    /\ MutedHearsNothing /\ ProducersOwned /\ EachListed
    /\ ConsumersFed /\ ProducersKnown /\ StateBroadcast

MediaInv ==
    /\ TypeOK /\ Guarantees
    /\ TransportsHeld /\ ProducersHeld /\ ConsumersHeld
    /\ ConsumersMade /\ NoticesDue /\ OutsidersOwnNothing

(* What HIDE_REMOTE_VIDEO closes.                                          *)
VideoConsumers(p, x) == {c \in consumers[p] : consumer[c].of = x /\ ~IsAudio(x)}

----------------------------------------------------------------------------
(* Closing objects changes their steps and nothing else.                   *)
LEMMA TransportsClose ==
  ASSUME transport \in [Transports -> TransportRecords], NEW ts,
         transport' = Closed(transport, ts)
  PROVE  /\ transport' \in [Transports -> TransportRecords]
         /\ \A t \in Transports :
              /\ transport'[t].owner = transport[t].owner
              /\ transport'[t].step = IF t \in ts THEN "closed" ELSE transport[t].step
<1>1. \A t \in Transports : [transport[t] EXCEPT !.step = "closed"] \in TransportRecords
  BY DEF TransportRecords, Steps
<1> QED BY <1>1 DEF Closed, TransportRecords

LEMMA ProducersClose ==
  ASSUME producer \in [Producers -> ProducerRecords], NEW xs,
         producer' = Closed(producer, xs)
  PROVE  /\ producer' \in [Producers -> ProducerRecords]
         /\ \A x \in Producers :
              /\ producer'[x].owner = producer[x].owner
              /\ producer'[x].on = producer[x].on
              /\ producer'[x].kind = producer[x].kind
              /\ producer'[x].step = IF x \in xs THEN "closed" ELSE producer[x].step
<1>1. \A x \in Producers : [producer[x] EXCEPT !.step = "closed"] \in ProducerRecords
  BY DEF ProducerRecords, Steps
<1> QED BY <1>1 DEF Closed, ProducerRecords

LEMMA ConsumersClose ==
  ASSUME consumer \in [Consumers -> ConsumerRecords], NEW cs,
         consumer' = Closed(consumer, cs)
  PROVE  /\ consumer' \in [Consumers -> ConsumerRecords]
         /\ \A c \in Consumers :
              /\ consumer'[c].owner = consumer[c].owner
              /\ consumer'[c].of = consumer[c].of
              /\ consumer'[c].step = IF c \in cs THEN "closed" ELSE consumer[c].step
<1>1. \A c \in Consumers : [consumer[c] EXCEPT !.step = "closed"] \in ConsumerRecords
  BY DEF ConsumerRecords, Steps
<1> QED BY <1>1 DEF Closed, ConsumerRecords

(* So does the answer of the mediasoup worker.                             *)
LEMMA TransportAnswered ==
  ASSUME transport \in [Transports -> TransportRecords], NEW t \in Transports,
         transport' = [transport EXCEPT ![t].step = "open"]
  PROVE  /\ transport' \in [Transports -> TransportRecords]
         /\ \A u \in Transports :
              /\ transport'[u].owner = transport[u].owner
              /\ transport'[u].step = IF u = t THEN "open" ELSE transport[u].step
<1>1. [transport[t] EXCEPT !.step = "open"] \in TransportRecords
  BY DEF TransportRecords, Steps
<1> QED BY <1>1 DEF TransportRecords

LEMMA ProducerAnswered ==
  ASSUME producer \in [Producers -> ProducerRecords], NEW x \in Producers,
         NEW step \in Steps, producer' = [producer EXCEPT ![x].step = step]
  PROVE  /\ producer' \in [Producers -> ProducerRecords]
         /\ \A y \in Producers :
              /\ producer'[y].owner = producer[y].owner
              /\ producer'[y].on = producer[y].on
              /\ producer'[y].kind = producer[y].kind
              /\ producer'[y].step = IF y = x THEN step ELSE producer[y].step
<1>1. [producer[x] EXCEPT !.step = step] \in ProducerRecords
  BY DEF ProducerRecords
<1> QED BY <1>1 DEF ProducerRecords

LEMMA ConsumerAnswered ==
  ASSUME consumer \in [Consumers -> ConsumerRecords], NEW c \in Consumers,
         NEW step \in Steps, consumer' = [consumer EXCEPT ![c].step = step]
  PROVE  /\ consumer' \in [Consumers -> ConsumerRecords]
         /\ \A k \in Consumers :
              /\ consumer'[k].owner = consumer[k].owner
              /\ consumer'[k].of = consumer[k].of
              /\ consumer'[k].step = IF k = c THEN step ELSE consumer[k].step
<1>1. [consumer[c] EXCEPT !.step = step] \in ConsumerRecords
  BY DEF ConsumerRecords
<1> QED BY <1>1 DEF ConsumerRecords

LEMMA BroadcastTyped ==
  ASSUME PeersTyped, NEW p \in Peers, muted' \in [Peers -> BOOLEAN], Broadcasts(p)
  PROVE  told' \in [Peers -> [enabledHeadset : BOOLEAN, enabledMicrophone : BOOLEAN]]
<1>1. PeerState(p)' \in [enabledHeadset : BOOLEAN, enabledMicrophone : BOOLEAN]
  BY DEF PeerState
<1> QED BY <1>1 DEF PeersTyped, Broadcasts

(* A broadcast brings what was told up to date, if nobody else's state has *)
(* changed and nobody else has come.                                       *)
LEMMA BroadcastTells ==
  ASSUME told \in [Peers -> [enabledHeadset : BOOLEAN, enabledMicrophone : BOOLEAN]],
         StateBroadcast, NEW p \in Peers, Broadcasts(p),
         \A q \in Peers \ {p} : Found(q)' => Found(q) /\ PeerState(q)' = PeerState(q)
  PROVE  StateBroadcast'
BY DEF StateBroadcast, Broadcasts, InRoom, Found

----------------------------------------------------------------------------
(* One lemma per action: it keeps the invariant.                           *)
LEMMA EnterKeeps ==
  ASSUME MediaInv, NEW p \in Peers, NEW isMuted \in BOOLEAN, NEW overwrites \in BOOLEAN,
         Enter(p, isMuted, overwrites)
  PROVE  MediaInv'
<1> USE DEF MediaInv, TypeOK, Guarantees, Enter, peerVars, transportVars, producerVars,
       consumerVars, clientVars
<1>1. told' \in [Peers -> [enabledHeadset : BOOLEAN, enabledMicrophone : BOOLEAN]]
  BY BroadcastTyped DEF PeersTyped
<1>2. PeersTyped'
  BY <1>1 DEF PeersTyped, Statuses
<1>3. ObjectsTyped' /\ OwnersKnown'
  BY DEF ObjectsTyped, OwnersKnown
<1>4. TransportsHeld' /\ ProducersHeld' /\ ConsumersHeld'
  BY DEF PeersTyped, TransportsHeld, ProducersHeld, ConsumersHeld, DisposedTransports
<1>5. ConsumersMade' /\ NoticesDue'
  BY DEF PeersTyped, ObjectsTyped, OwnersKnown, ConsumersMade, NoticesDue
<1>6. OutsidersOwnNothing'
  BY DEF PeersTyped, OutsidersOwnNothing
<1>7. /\ consumers[p] = {}
      /\ \A c \in Consumers : Used(consumer[c]) => consumer[c].owner # p
  BY DEF PeersTyped, ConsumersHeld, ConsumersMade
<1>8. MutedHearsNothing'
  BY <1>7 DEF PeersTyped, OwnersKnown, MutedHearsNothing, IsAudio, Used
<1>9. ProducersOwned' /\ ConsumersFed'
  <2>1. ProducersOwned'
    BY DEF PeersTyped, OwnersKnown, ProducersOwned, Used
  <2>2. ASSUME NEW c \in Consumers, Used(consumer[c]), Found(consumer[c].owner)'
        PROVE  Found(consumer[c].owner)
    BY <1>7, <2>2 DEF PeersTyped, OwnersKnown, Found
  <2>3. ConsumersFed'
    BY <2>2 DEF ConsumersFed, Found, Used
  <2> QED BY <2>1, <2>3
<1>10. EachListed'
  BY <1>7 DEF PeersTyped, EachListed, Found, Used
<1>11. ProducersKnown'
  BY DEF PeersTyped, ProducersKnown, OutsidersOwnNothing, InRoom
<1>12. \A q \in Peers \ {p} : Found(q)' => Found(q) /\ PeerState(q)' = PeerState(q)
  BY DEF PeersTyped, Found, PeerState, OfKind, IsAudio
<1>13. StateBroadcast'
  BY <1>12, BroadcastTells DEF PeersTyped
<1> QED BY <1>2, <1>3, <1>4, <1>5, <1>6, <1>8, <1>9, <1>10, <1>11, <1>13

LEMMA LeaveKeeps ==
  ASSUME MediaInv, NEW p \in Peers, Leave(p)
  PROVE  MediaInv'
<1> USE DEF MediaInv, TypeOK, Guarantees, Leave, Found, peerVars, transportVars,
       producerVars, consumerVars, clientVars
<1>1. PeersTyped'
  BY DEF PeersTyped, Statuses
<1>2. /\ transport' \in [Transports -> TransportRecords]
      /\ \A t \in Transports :
           /\ transport'[t].owner = transport[t].owner
           /\ Used(transport[t]) => Used(transport'[t])
           /\ Used(transport'[t]) => Used(transport[t]) \/ t \in DisposedTransports(p)
  BY TransportsClose DEF ObjectsTyped, Used
<1>3. /\ producer' \in [Producers -> ProducerRecords]
      /\ \A x \in Producers :
           /\ producer'[x].owner = producer[x].owner /\ producer'[x].on = producer[x].on
           /\ producer'[x].kind = producer[x].kind
           /\ producer'[x].step = IF x \in producers[p] THEN "closed" ELSE producer[x].step
  BY ProducersClose DEF ObjectsTyped
<1>4. /\ consumer' \in [Consumers -> ConsumerRecords]
      /\ \A c \in Consumers :
           /\ consumer'[c].owner = consumer[c].owner /\ consumer'[c].of = consumer[c].of
           /\ consumer'[c].step = IF c \in consumers[p] THEN "closed" ELSE consumer[c].step
  BY ConsumersClose DEF ObjectsTyped
<1>5. ObjectsTyped'
  BY <1>2, <1>3, <1>4 DEF ObjectsTyped, ConsumersOf
<1>6. \A c \in Consumers : Used(consumer'[c]) <=> Used(consumer[c])
  BY <1>4 DEF Used, ConsumersHeld
<1>7. \A x \in Producers : Used(producer'[x]) <=> Used(producer[x])
  BY <1>3 DEF Used, ProducersHeld
<1>8. OwnersKnown'
  BY <1>2, <1>3, <1>4, <1>6, <1>7 DEF OwnersKnown, TransportsHeld
<1>9. TransportsHeld'
  BY <1>2 DEF PeersTyped, TransportsHeld, DisposedTransports
<1>10. ProducersHeld'
  BY <1>3, <1>7 DEF PeersTyped, ProducersHeld
<1>11. ConsumersHeld'
  BY <1>4, <1>6 DEF PeersTyped, ConsumersHeld
<1>12. ConsumersMade'
  BY <1>3, <1>4, <1>6 DEF PeersTyped, OwnersKnown, ConsumersMade
<1>13. NoticesDue'
  BY <1>3, <1>4, <1>6 DEF ObjectsTyped, OwnersKnown, NoticesDue, ConsumersOf, Used
<1>14. OutsidersOwnNothing'
  BY DEF PeersTyped, OutsidersOwnNothing
<1>15. MutedHearsNothing'
  BY <1>3, <1>4, <1>6 DEF OwnersKnown, MutedHearsNothing, IsAudio, Used
<1>16. ProducersOwned'
  BY <1>3, <1>7 DEF PeersTyped, OwnersKnown, ProducersOwned, ProducersHeld, Used
<1>17. EachListed'
  BY <1>4 DEF PeersTyped, EachListed, ConsumersHeld
<1>18. ConsumersFed'
  BY <1>3, <1>4 DEF OwnersKnown, ConsumersFed, ConsumersOf, Used
<1>19. ProducersKnown'
  BY DEF PeersTyped, ProducersKnown, InRoom
<1>20. StateBroadcast'
  <2>1. InRoom' \subseteq InRoom \ {p} /\ InRoom \subseteq Peers
    BY DEF PeersTyped, InRoom
  <2>2. \A q \in Peers : PeerState(q)' = PeerState(q)
    <3>1. UNCHANGED <<muted, producers>> /\ \A q \in Peers : producers[q] \subseteq Producers
      BY DEF PeersTyped
    <3>2. \A q \in Peers : OfKind(q, "audio")' = OfKind(q, "audio")
      BY <1>3, <3>1 DEF OfKind
    <3> QED BY <3>1, <3>2, Zenon DEF PeerState
  <2> QED BY <2>1, <2>2 DEF StateBroadcast
<1> QED BY <1>1, <1>5, <1>8, <1>9, <1>10, <1>11, <1>12, <1>13, <1>14, <1>15, <1>16, <1>17,
       <1>18, <1>19, <1>20

LEMMA StrayLeavesKeeps ==
  ASSUME MediaInv, NEW p \in Peers, ~FindsRoom(p), StrayLeaves(p)
  PROVE  MediaInv'
<1> USE DEF MediaInv, TypeOK, Guarantees, StrayLeaves, peerVars, transportVars,
       producerVars, consumerVars, clientVars
<1>1. PeersTyped'
  BY DEF PeersTyped, Statuses
<1>2. ObjectsTyped' /\ OwnersKnown'
  BY DEF ObjectsTyped, OwnersKnown
<1>3. TransportsHeld' /\ ProducersHeld' /\ ConsumersHeld'
  BY DEF PeersTyped, TransportsHeld, ProducersHeld, ConsumersHeld, DisposedTransports
<1>4. ConsumersMade' /\ NoticesDue'
  BY DEF PeersTyped, ObjectsTyped, OwnersKnown, ConsumersMade, NoticesDue
<1>5. OutsidersOwnNothing'
  BY DEF PeersTyped, OutsidersOwnNothing
<1>6. InRoom' = InRoom
  BY DEF PeersTyped, InRoom
<1>7. MutedHearsNothing' /\ ProducersOwned'
  BY DEF PeersTyped, OwnersKnown, MutedHearsNothing, IsAudio, ProducersOwned, Used
<1>8. EachListed'
  BY DEF PeersTyped, EachListed, Found
<1>9. ProducersKnown' /\ StateBroadcast'
  BY <1>6 DEF ProducersKnown, StateBroadcast, PeerState, OfKind, IsAudio
<1>10. ConsumersFed'
  BY DEF PeersTyped, OwnersKnown, ConsumersFed, Found, Used
<1> QED BY <1>1, <1>2, <1>3, <1>4, <1>5, <1>7, <1>8, <1>9, <1>10

LEMMA CreateTransportKeeps ==
  ASSUME MediaInv, NEW p \in Peers, NEW t \in Transports, NEW isConsumer \in BOOLEAN,
         CreateTransport(p, t, isConsumer)
  PROVE  MediaInv'
<1> USE DEF MediaInv, TypeOK, Guarantees, CreateTransport, peerVars, transportVars,
       producerVars, consumerVars, clientVars
<1>1. PeersTyped'
  BY DEF PeersTyped
<1>2. ObjectsTyped' /\ OwnersKnown'
  BY DEF ObjectsTyped, OwnersKnown, Used, TransportRecords, Steps
<1>3. TransportsHeld'
  BY DEF PeersTyped, ObjectsTyped, TransportsHeld, DisposedTransports, Used,
         TransportRecords
<1>4. ProducersHeld' /\ ConsumersHeld'
  BY DEF ProducersHeld, ConsumersHeld
<1>5. ConsumersMade' /\ NoticesDue'
  BY DEF PeersTyped, ObjectsTyped, OwnersKnown, ConsumersMade, NoticesDue
<1>6. OutsidersOwnNothing'
  BY DEF PeersTyped, OutsidersOwnNothing
<1>7. /\ MutedHearsNothing' /\ ProducersOwned' /\ EachListed'
      /\ ConsumersFed' /\ ProducersKnown' /\ StateBroadcast'
  BY DEF MutedHearsNothing, IsAudio, ProducersOwned, EachListed, Found, ConsumersFed,
         ProducersKnown, InRoom, StateBroadcast, PeerState, OfKind
<1> QED BY <1>1, <1>2, <1>3, <1>4, <1>5, <1>6, <1>7

LEMMA TransportCreatedKeeps ==
  ASSUME MediaInv, NEW t \in Transports, TransportCreated(t)
  PROVE  MediaInv'
<1> USE DEF MediaInv, TypeOK, Guarantees, TransportCreated, AddTransport, Found, peerVars,
       transportVars, producerVars, consumerVars, clientVars
<1>1. transport[t].owner \in Peers
  BY DEF ObjectsTyped, OwnersKnown, Used
<1>2. PeersTyped'
  BY <1>1 DEF PeersTyped
<1>3. /\ transport' \in [Transports -> TransportRecords]
      /\ \A u \in Transports :
           /\ transport'[u].owner = transport[u].owner
           /\ transport'[u].step = IF u = t THEN "open" ELSE transport[u].step
  BY TransportAnswered DEF ObjectsTyped
<1>4. ObjectsTyped' /\ OwnersKnown'
  BY <1>3 DEF ObjectsTyped, OwnersKnown, Used
<1>5. \A p \in Peers : \A u \in DisposedTransports(p)' : u \in Transports /\ Used(transport[u])
  BY <1>1 DEF PeersTyped, TransportsHeld, DisposedTransports, Used
<1>6. TransportsHeld'
  BY <1>3, <1>5 DEF TransportsHeld, Used
<1>7. ProducersHeld' /\ ConsumersHeld'
  BY DEF ProducersHeld, ConsumersHeld
<1>8. ConsumersMade' /\ NoticesDue'
  BY DEF PeersTyped, ObjectsTyped, OwnersKnown, ConsumersMade, NoticesDue
<1>9. OutsidersOwnNothing'
  BY DEF PeersTyped, OutsidersOwnNothing
<1>10. /\ MutedHearsNothing' /\ ProducersOwned' /\ EachListed'
       /\ ConsumersFed' /\ ProducersKnown' /\ StateBroadcast'
  BY DEF MutedHearsNothing, IsAudio, ProducersOwned, EachListed, Found, ConsumersFed,
         ProducersKnown, InRoom, StateBroadcast, PeerState, OfKind
<1> QED BY <1>2, <1>4, <1>6, <1>7, <1>8, <1>9, <1>10

LEMMA CreateProducerKeeps ==
  ASSUME MediaInv, NEW p \in Peers, NEW x \in Producers, NEW kind \in Kinds,
         CreateProducer(p, x, kind)
  PROVE  MediaInv'
<1> USE DEF MediaInv, TypeOK, Guarantees, CreateProducer, CanProduce, peerVars,
       transportVars, producerVars, consumerVars, clientVars
<1>1. PeersTyped'
  BY DEF PeersTyped
<1>2. ObjectsTyped' /\ OwnersKnown'
  BY DEF PeersTyped, ObjectsTyped, OwnersKnown, Used, ProducerRecords, Steps, Kinds
<1>3. TransportsHeld'
  BY DEF PeersTyped, TransportsHeld, DisposedTransports
<1>4. ProducersHeld' /\ ConsumersHeld'
  BY DEF PeersTyped, ObjectsTyped, ProducersHeld, ConsumersHeld, ProducerRecords, Used
<1>5. ConsumersMade' /\ NoticesDue'
  BY DEF ObjectsTyped, OwnersKnown, ConsumersMade, NoticesDue, ProducerRecords, Used
<1>6. OutsidersOwnNothing'
  BY DEF PeersTyped, OutsidersOwnNothing
<1>7. \A y \in Producers : Used(producer[y]) => producer'[y] = producer[y]
  BY DEF ObjectsTyped, Used
<1>8. producer'[x].step = "awaited"
  BY DEF ObjectsTyped
<1>9. MutedHearsNothing' /\ ConsumersFed'
  BY <1>7 DEF OwnersKnown, MutedHearsNothing, ConsumersFed, ConsumersMade, Found, IsAudio,
         Used
<1>10. ProducersOwned'
  BY <1>7, <1>8 DEF ObjectsTyped, ProducersOwned, Used
<1>11. EachListed' /\ ProducersKnown'
  BY DEF EachListed, Found, ProducersKnown, InRoom
<1>12. \A q \in Peers : \A y \in producers[q] : producer'[y] = producer[y]
  BY <1>7 DEF PeersTyped, ProducersHeld
<1>13. StateBroadcast'
  BY <1>12 DEF StateBroadcast, PeerState, OfKind, InRoom
<1> QED BY <1>1, <1>2, <1>3, <1>4, <1>5, <1>6, <1>9, <1>10, <1>11, <1>13

LEMMA ProducerCreatedKeeps ==
  ASSUME MediaInv, NEW x \in Producers, Found(producer[x].owner), ProducerCreated(x)
  PROVE  MediaInv'
<1> USE DEF MediaInv, TypeOK, Guarantees, Found, peerVars, transportVars, producerVars,
       consumerVars, clientVars
<1>1. /\ producer[x].step = "awaited"
      /\ UNCHANGED <<fatal, peerVars, transportVars, consumerVars, asked>>
      /\ producer' = [producer EXCEPT ![x].step = "open"]
      /\ producers' = [producers EXCEPT ![producer[x].owner] = @ \cup {x}]
      /\ Broadcasts(producer[x].owner) /\ Informs(producer[x].owner, x)
  BY DEF ProducerCreated, OrphanStep
<1>2. producer[x].owner \in Peers
  BY <1>1 DEF ObjectsTyped, OwnersKnown, Used
<1>3. told' \in [Peers -> [enabledHeadset : BOOLEAN, enabledMicrophone : BOOLEAN]]
  BY <1>1, <1>2, BroadcastTyped DEF PeersTyped
<1>4. \A q \in Peers : knows[q] \cup {x} \in SUBSET Producers
  BY <1>1 DEF PeersTyped
<1>5. knows' \in [Peers -> SUBSET Producers]
  BY <1>1, <1>4 DEF PeersTyped, Informs
<1>6. /\ producers'[producer[x].owner] = producers[producer[x].owner] \cup {x}
      /\ \A q \in Peers \ {producer[x].owner} : producers'[q] = producers[q]
  BY <1>1, <1>2 DEF PeersTyped
<1>7. PeersTyped'
  BY <1>1, <1>2, <1>3, <1>5 DEF PeersTyped
<1>8. "open" \in Steps /\ "closed" \in Steps
  BY DEF Steps
<1>9. /\ producer' \in [Producers -> ProducerRecords]
      /\ \A y \in Producers :
           /\ producer'[y].owner = producer[y].owner /\ producer'[y].on = producer[y].on
           /\ producer'[y].kind = producer[y].kind
           /\ producer'[y].step = IF y = x THEN "open" ELSE producer[y].step
  BY <1>1, <1>8, ProducerAnswered DEF ObjectsTyped
<1>10. \A y \in Producers : Used(producer'[y]) <=> Used(producer[y])
  BY <1>1, <1>9 DEF Used
<1>11. ObjectsTyped' /\ OwnersKnown'
  BY <1>1, <1>9, <1>10 DEF ObjectsTyped, OwnersKnown
<1>12. TransportsHeld' /\ ConsumersHeld'
  BY <1>1 DEF TransportsHeld, DisposedTransports, ConsumersHeld
<1>13. ProducersHeld'
  BY <1>1, <1>2, <1>9, <1>10 DEF PeersTyped, ProducersHeld, Used
<1>14. ConsumersMade' /\ NoticesDue'
  BY <1>1, <1>9, <1>10 DEF ObjectsTyped, OwnersKnown, ConsumersMade, NoticesDue
<1>15. OutsidersOwnNothing'
  BY <1>1, <1>2 DEF PeersTyped, OutsidersOwnNothing
<1>16. MutedHearsNothing'
  BY <1>1, <1>9, <1>10 DEF OwnersKnown, MutedHearsNothing, IsAudio, Used
<1>17. ProducersOwned'
  BY <1>1, <1>2, <1>9, <1>10, <1>6 DEF OwnersKnown, ProducersOwned, Used
<1>18. EachListed'
  BY <1>1 DEF EachListed, Found
<1>19. ConsumersFed'
  BY <1>1, <1>9, <1>10 DEF OwnersKnown, ConsumersMade, ConsumersFed, Used
<1>20. \A q \in InRoom : /\ knows[q] \subseteq knows'[q]
                         /\ q # producer[x].owner => x \in knows'[q]
  BY <1>1 DEF PeersTyped, Informs, InRoom
<1>21. UNCHANGED <<status, asked>>
  BY <1>1
<1>22. ProducersKnown'
  BY <1>21, <1>6, <1>20 DEF ProducersKnown, InRoom
<1>23. \A q \in Peers \ {producer[x].owner} :
         Found(q)' => Found(q) /\ PeerState(q)' = PeerState(q)
  BY <1>1, <1>9, <1>6 DEF PeersTyped, Found, PeerState, OfKind
<1>24. StateBroadcast'
  BY <1>1, <1>2, <1>23, BroadcastTells DEF PeersTyped
<1> QED BY <1>7, <1>11, <1>12, <1>13, <1>14, <1>15, <1>16, <1>17, <1>18, <1>19, <1>22, <1>24

LEMMA OrphanCreatedKeeps ==
  ASSUME MediaInv, NEW x \in Producers, ~Found(producer[x].owner), ProducerCreated(x)
  PROVE  MediaInv'
<1> USE DEF MediaInv, TypeOK, Guarantees, Found, peerVars, transportVars, producerVars,
       consumerVars, clientVars
<1>1. /\ producer[x].step = "awaited"
      /\ UNCHANGED <<fatal, peerVars, transportVars, consumerVars, asked>>
      /\ producer' = [producer EXCEPT ![x].step = "closed"]
      /\ UNCHANGED <<producers, told, knows>>
  BY DEF ProducerCreated, OrphanStep
<1>2. producer[x].owner \in Peers
  BY <1>1 DEF ObjectsTyped, OwnersKnown, Used
<1>3. PeersTyped'
  BY <1>1 DEF PeersTyped
<1>4. "open" \in Steps /\ "closed" \in Steps
  BY DEF Steps
<1>5. /\ producer' \in [Producers -> ProducerRecords]
      /\ \A y \in Producers :
           /\ producer'[y].owner = producer[y].owner /\ producer'[y].on = producer[y].on
           /\ producer'[y].kind = producer[y].kind
           /\ producer'[y].step = IF y = x THEN "closed" ELSE producer[y].step
  <2>1. producer \in [Producers -> ProducerRecords]
    BY DEF ObjectsTyped
  <2> QED BY <1>1, <1>4, <2>1, ProducerAnswered, Zenon
<1>6. \A y \in Producers : Used(producer'[y]) <=> Used(producer[y])
  BY <1>1, <1>5 DEF Used
<1>7. ObjectsTyped' /\ OwnersKnown'
  BY <1>1, <1>5, <1>6 DEF ObjectsTyped, OwnersKnown
<1>8. TransportsHeld' /\ ConsumersHeld'
  BY <1>1 DEF TransportsHeld, DisposedTransports, ConsumersHeld
<1>9. ProducersHeld'
  BY <1>1, <1>2, <1>5, <1>6 DEF PeersTyped, ProducersHeld, Used
<1>10. ConsumersMade' /\ NoticesDue'
  BY <1>1, <1>5, <1>6 DEF ObjectsTyped, OwnersKnown, ConsumersMade, NoticesDue
<1>11. OutsidersOwnNothing'
  BY <1>1, <1>2 DEF PeersTyped, OutsidersOwnNothing
<1>12. MutedHearsNothing'
  BY <1>1, <1>5, <1>6 DEF OwnersKnown, MutedHearsNothing, IsAudio, Used
<1>13. ProducersOwned'
  BY <1>1, <1>2, <1>5, <1>6 DEF OwnersKnown, ProducersOwned, Used
<1>14. EachListed'
  BY <1>1 DEF EachListed, Found
<1>15. ConsumersFed'
  BY <1>1, <1>5, <1>6 DEF OwnersKnown, ConsumersMade, ConsumersFed, Used
<1>16. ProducersKnown'
  BY <1>1 DEF ProducersKnown, InRoom
<1>17. \A q \in Peers : PeerState(q)' = PeerState(q)
  BY <1>1, <1>5 DEF PeersTyped, PeerState, OfKind
<1>18. UNCHANGED <<status, told>>
  BY <1>1
<1>19. StateBroadcast'
  BY <1>18, <1>17 DEF StateBroadcast, InRoom
<1> QED BY <1>3, <1>7, <1>8, <1>9, <1>10, <1>11, <1>12, <1>13, <1>14, <1>15, <1>16, <1>19

LEMMA CloseProducersKeeps ==
  ASSUME MediaInv, NEW p \in Peers, NEW kind \in Kinds, Found(p),
         CloseProducersOfKind(p, kind)
  PROVE  MediaInv'
<1> USE DEF MediaInv, TypeOK, Guarantees, CloseProducersOfKind, CloseProducers, peerVars,
       transportVars, producerVars, consumerVars, clientVars
<1>1. told' \in [Peers -> [enabledHeadset : BOOLEAN, enabledMicrophone : BOOLEAN]]
  BY BroadcastTyped DEF PeersTyped
<1>2. PeersTyped'
  <2>1. producers' \in [Peers -> SUBSET Producers]
    BY DEF PeersTyped
  <2> QED BY <1>1, <2>1 DEF PeersTyped
<1>3. /\ producer' \in [Producers -> ProducerRecords]
      /\ \A x \in Producers :
           /\ producer'[x].owner = producer[x].owner /\ producer'[x].on = producer[x].on
           /\ producer'[x].kind = producer[x].kind
           /\ producer'[x].step = IF x \in OfKind(p, kind) THEN "closed" ELSE producer[x].step
  BY ProducersClose DEF ObjectsTyped
<1>4. \A x \in Producers : Used(producer'[x]) <=> Used(producer[x])
  BY <1>3 DEF Used, ProducersHeld, OfKind
<1>5. ObjectsTyped' /\ OwnersKnown'
  BY <1>3, <1>4 DEF ObjectsTyped, OwnersKnown, ConsumersOf
<1>6. TransportsHeld' /\ ConsumersHeld'
  BY DEF TransportsHeld, DisposedTransports, ConsumersHeld
<1>7. \A x \in OfKind(p, kind) : x \in Producers /\ producer[x].owner = p
  BY DEF PeersTyped, ProducersHeld, OfKind
<1>8. /\ producers'[p] = producers[p] \ OfKind(p, kind)
      /\ \A q \in Peers \ {p} : producers'[q] = producers[q]
  BY DEF PeersTyped
<1>9. \A q \in Peers : /\ producers'[q] \subseteq producers[q] /\ status'[q] = status[q]
                       /\ \A x \in producers'[q] : x \notin OfKind(p, kind)
  BY <1>7, <1>8 DEF ProducersHeld
<1>10. ProducersHeld'
  BY <1>3, <1>4, <1>9 DEF PeersTyped, ProducersHeld
<1>11. ConsumersMade'
  BY <1>3 DEF OwnersKnown, ConsumersMade
<1>12. NoticesDue'
  BY <1>3 DEF ObjectsTyped, OwnersKnown, NoticesDue, ConsumersOf, Used
<1>13. OutsidersOwnNothing'
  BY DEF PeersTyped, OutsidersOwnNothing, Found
<1>14. MutedHearsNothing'
  BY <1>3 DEF OwnersKnown, MutedHearsNothing, IsAudio, Used
<1>15. ProducersOwned'
  BY <1>3, <1>4, <1>8 DEF OwnersKnown, ProducersOwned, Used
<1>16. EachListed'
  BY DEF EachListed, Found
<1>17. ConsumersFed'
  BY <1>3 DEF OwnersKnown, ConsumersFed, ConsumersOf, Found, Used
<1>18. ProducersKnown'
  BY <1>9 DEF ProducersKnown, InRoom
<1>19. \A q \in Peers \ {p} : Found(q)' => Found(q) /\ PeerState(q)' = PeerState(q)
  BY <1>3, <1>8 DEF PeersTyped, Found, PeerState, OfKind
<1>20. StateBroadcast'
  BY <1>19, BroadcastTells DEF PeersTyped
<1> QED BY <1>2, <1>5, <1>6, <1>10, <1>11, <1>12, <1>13, <1>14, <1>15, <1>16, <1>17, <1>18,
       <1>20

LEMMA GetProducerIdsKeeps ==
  ASSUME MediaInv, NEW p \in Peers, GetProducerIds(p)
  PROVE  MediaInv'
<1> USE DEF MediaInv, TypeOK, Guarantees, GetProducerIds, peerVars, transportVars,
       producerVars, consumerVars, clientVars
<1>1. PeersTyped'
  BY DEF PeersTyped, InRoom
<1>2. ObjectsTyped' /\ OwnersKnown'
  BY DEF ObjectsTyped, OwnersKnown
<1>3. TransportsHeld' /\ ProducersHeld' /\ ConsumersHeld'
  BY DEF PeersTyped, TransportsHeld, ProducersHeld, ConsumersHeld, DisposedTransports
<1>4. ConsumersMade' /\ NoticesDue'
  BY DEF PeersTyped, ObjectsTyped, OwnersKnown, ConsumersMade, NoticesDue
<1>5. OutsidersOwnNothing'
  BY DEF PeersTyped, OutsidersOwnNothing, FindsRoom
<1>6. /\ MutedHearsNothing' /\ ProducersOwned' /\ EachListed'
      /\ ConsumersFed' /\ StateBroadcast'
  BY DEF MutedHearsNothing, IsAudio, ProducersOwned, EachListed, Found, ConsumersFed,
         StateBroadcast, PeerState, OfKind, InRoom
<1>7. ProducersKnown'
  BY DEF PeersTyped, ProducersKnown, InRoom
<1> QED BY <1>1, <1>2, <1>3, <1>4, <1>5, <1>6, <1>7

LEMMA CreateConsumerKeeps ==
  ASSUME MediaInv, NEW p \in Peers, NEW c \in Consumers, NEW x \in Producers,
         CreateConsumer(p, c, x)
  PROVE  MediaInv'
<1> USE DEF MediaInv, TypeOK, Guarantees, CreateConsumer, CanConsume, Found, peerVars,
       transportVars, producerVars, consumerVars, clientVars
<1>1. PeersTyped'
  BY DEF PeersTyped
<1>2. ObjectsTyped' /\ OwnersKnown'
  BY DEF ObjectsTyped, OwnersKnown, Used, ConsumerRecords, Steps
<1>3. TransportsHeld' /\ ProducersHeld'
  BY DEF TransportsHeld, DisposedTransports, ProducersHeld
<1>4. ConsumersHeld'
  BY DEF PeersTyped, ObjectsTyped, ConsumersHeld, Used, ConsumerRecords
<1>5. ConsumersMade' /\ NoticesDue'
  BY DEF PeersTyped, ObjectsTyped, ConsumersMade, NoticesDue, Used, ConsumerRecords
<1>6. OutsidersOwnNothing'
  BY DEF PeersTyped, OutsidersOwnNothing
<1>7. /\ \A k \in Consumers \ {c} : consumer'[k] = consumer[k]
      /\ consumer[c].step # "open" /\ consumer'[c].step # "open"
  BY DEF ObjectsTyped
<1>8. MutedHearsNothing' /\ ConsumersFed'
  BY <1>7 DEF MutedHearsNothing, ConsumersFed, IsAudio
<1>9. EachListed'
  BY <1>7 DEF EachListed
<1>10. ProducersOwned' /\ ProducersKnown' /\ StateBroadcast'
  BY DEF ProducersOwned, ProducersKnown, InRoom, StateBroadcast, PeerState, OfKind, IsAudio
<1> QED BY <1>1, <1>2, <1>3, <1>4, <1>5, <1>6, <1>8, <1>9, <1>10

LEMMA ConsumerCreatedKeeps ==
  ASSUME MediaInv, NEW c \in Consumers, ConsumerCreated(c)
  PROVE  MediaInv'
<1> USE DEF MediaInv, TypeOK, Guarantees, ConsumerCreated, peerVars, transportVars,
       producerVars, consumerVars, clientVars
<1>1. consumer[c].owner \in Peers /\ Used(consumer[c])
  BY DEF ObjectsTyped, OwnersKnown, Used
<1>2. Found(consumer[c].owner) =>
        told' \in [Peers -> [enabledHeadset : BOOLEAN, enabledMicrophone : BOOLEAN]]
  BY <1>1, BroadcastTyped DEF PeersTyped
<1>3. PeersTyped'
  BY <1>1, <1>2 DEF PeersTyped
<1>4. PICK step \in {"open", "closed"} :
         /\ consumer' = [consumer EXCEPT ![c].step = step]
         /\ step = "closed" <=> status[consumer[c].owner] = "left"
  OBVIOUS
<1>5. /\ consumer' \in [Consumers -> ConsumerRecords]
      /\ \A k \in Consumers :
           /\ consumer'[k].owner = consumer[k].owner /\ consumer'[k].of = consumer[k].of
           /\ k # c => consumer'[k].step = consumer[k].step
      /\ consumer'[c].step = step
  BY <1>4, ConsumerAnswered DEF ObjectsTyped, Steps
<1>6. \A k \in Consumers : Used(consumer'[k]) <=> Used(consumer[k])
  BY <1>1, <1>5 DEF Used
<1>7. ObjectsTyped' /\ OwnersKnown'
  BY <1>5, <1>6 DEF ObjectsTyped, OwnersKnown
<1>8. TransportsHeld' /\ ProducersHeld'
  BY DEF TransportsHeld, DisposedTransports, ProducersHeld
<1>9. \A p \in Peers : \A k \in Consumers : k \in consumers'[p] <=>
        k \in consumers[p] \/ (k = c /\ p = consumer[c].owner)
  BY <1>1 DEF PeersTyped
<1>10. ConsumersHeld'
  <2> SUFFICES ASSUME NEW p \in Peers, NEW k \in consumers'[p]
               PROVE  Used(consumer'[k]) /\ consumer'[k].owner = p
    BY Zenon DEF ConsumersHeld
  <2>1. k \in Consumers
    BY <1>3 DEF PeersTyped
  <2>2. k \in consumers[p] \/ (k = c /\ p = consumer[c].owner)
    BY <1>9, <2>1
  <2>3. Used(consumer[k]) /\ consumer[k].owner = p
    BY <1>1, <2>2 DEF ConsumersHeld
  <2> QED BY <1>5, <1>6, <2>1, <2>3
<1>11. ConsumersMade'
  BY <1>5, <1>6 DEF ConsumersMade
<1>12. NoticesDue'
  BY <1>1, <1>5, <1>6 DEF ObjectsTyped, NoticesDue, ClosedMeanwhile
<1>13. OutsidersOwnNothing'
  BY DEF PeersTyped, OutsidersOwnNothing
<1>14. MutedHearsNothing'
  BY <1>4, <1>5 DEF MutedHearsNothing, RefusesAudio, IsAudio
<1>15. EachListed'
  BY <1>1, <1>4, <1>5, <1>9 DEF EachListed, Found
<1>16. ConsumersFed'
  <2>1. \A k \in Consumers : consumer'[k].step = "open" =>
          producer[consumer[k].of].step = "open" \/ k \in notices'
    BY <1>1, <1>4, <1>5 DEF ConsumersFed, ConsumersMade, ClosedMeanwhile
  <2>2. \A k \in Consumers : consumer'[k].step = "open" =>
          k \in given' \/ ~Found(consumer[k].owner)
    BY <1>1, <1>4, <1>5 DEF ConsumersFed
  <2>3. UNCHANGED <<status, producer>>
    OBVIOUS
  <2> QED BY <1>5, <2>1, <2>2, <2>3 DEF ConsumersFed, Found
<1>17. ProducersOwned' /\ ProducersKnown'
  BY DEF ProducersOwned, ProducersKnown, InRoom
<1>18. \A q \in Peers : Found(q)' = Found(q) /\ PeerState(q)' = PeerState(q)
  BY DEF Found, PeerState, OfKind
<1>19. Found(consumer[c].owner) => StateBroadcast'
  BY <1>1, <1>18, BroadcastTells DEF PeersTyped
<1>20. ~Found(consumer[c].owner) => StateBroadcast'
  BY <1>18 DEF StateBroadcast, InRoom
<1>21. StateBroadcast'
  BY <1>19, <1>20
<1> QED BY <1>3, <1>7, <1>8, <1>10, <1>11, <1>12, <1>13, <1>14, <1>15, <1>16, <1>17, <1>21

LEMMA AudioRefusedKeeps ==
  ASSUME MediaInv, NEW c \in Consumers, AudioRefused(c)
  PROVE  MediaInv'
<1> USE DEF MediaInv, TypeOK, Guarantees, AudioRefused, peerVars, transportVars,
       producerVars, consumerVars, clientVars
<1>1. Used(consumer[c])
  BY DEF Used
<1>2. PeersTyped'
  BY DEF PeersTyped
<1>3. /\ consumer' \in [Consumers -> ConsumerRecords]
      /\ \A k \in Consumers :
           /\ consumer'[k].owner = consumer[k].owner /\ consumer'[k].of = consumer[k].of
           /\ consumer'[k].step = IF k = c THEN "closed" ELSE consumer[k].step
  BY ConsumerAnswered DEF ObjectsTyped, Steps
<1>4. \A k \in Consumers : Used(consumer'[k]) <=> Used(consumer[k])
  BY <1>1, <1>3 DEF Used
<1>5. ObjectsTyped' /\ OwnersKnown'
  BY <1>3, <1>4 DEF ObjectsTyped, OwnersKnown
<1>6. TransportsHeld' /\ ProducersHeld' /\ ConsumersHeld'
  <2>1. TransportsHeld' /\ ProducersHeld'
    BY DEF TransportsHeld, DisposedTransports, ProducersHeld
  <2>2. ConsumersHeld'
    BY <1>3, <1>4 DEF PeersTyped, ConsumersHeld
  <2> QED BY <2>1, <2>2
<1>7. ConsumersMade' /\ NoticesDue'
  BY <1>3, <1>4 DEF ObjectsTyped, ConsumersMade, NoticesDue
<1>8. OutsidersOwnNothing'
  BY DEF PeersTyped, OutsidersOwnNothing
<1>9. MutedHearsNothing' /\ ConsumersFed'
  BY <1>3 DEF MutedHearsNothing, ConsumersFed, Found, IsAudio
<1>10. EachListed'
  BY <1>3 DEF EachListed, Found
<1>11. ProducersOwned' /\ ProducersKnown' /\ StateBroadcast'
  BY DEF ProducersOwned, ProducersKnown, InRoom, StateBroadcast, PeerState, OfKind, IsAudio
<1> QED BY <1>2, <1>5, <1>6, <1>7, <1>8, <1>9, <1>10, <1>11

LEMMA ProducerClosedKeeps ==
  ASSUME MediaInv, NEW c \in Consumers, ProducerClosed(c)
  PROVE  MediaInv'
<1> USE DEF MediaInv, TypeOK, Guarantees, ProducerClosed, CloseConsumers, peerVars,
       transportVars, producerVars, consumerVars, clientVars
<1>1. consumer[c].owner \in Peers /\ Used(consumer[c])
  BY DEF ObjectsTyped, OwnersKnown, NoticesDue
<1>2. Found(consumer[c].owner) =>
        told' \in [Peers -> [enabledHeadset : BOOLEAN, enabledMicrophone : BOOLEAN]]
  BY <1>1, BroadcastTyped DEF PeersTyped
<1>3. PeersTyped'
  BY <1>1, <1>2 DEF PeersTyped, Forgotten
<1>4. /\ consumer' \in [Consumers -> ConsumerRecords]
      /\ \A k \in Consumers :
           /\ consumer'[k].owner = consumer[k].owner /\ consumer'[k].of = consumer[k].of
           /\ consumer'[k].step = IF k \in {c} THEN "closed" ELSE consumer[k].step
  <2>1. consumer \in [Consumers -> ConsumerRecords]
    BY DEF ObjectsTyped
  <2> QED BY <2>1, ConsumersClose, Zenon
<1>5. \A k \in Consumers : Used(consumer'[k]) <=> Used(consumer[k])
  BY <1>4 DEF Used, NoticesDue
<1>6. ObjectsTyped' /\ OwnersKnown'
  BY <1>4, <1>5 DEF ObjectsTyped, OwnersKnown
<1>7. TransportsHeld' /\ ProducersHeld'
  BY DEF TransportsHeld, DisposedTransports, ProducersHeld
<1>8. \A q \in Peers : consumers'[q] \subseteq consumers[q]
  BY <1>1 DEF PeersTyped, Forgotten
<1>9. ConsumersHeld'
  BY <1>4, <1>5, <1>8 DEF PeersTyped, ConsumersHeld
<1>10. ConsumersMade' /\ NoticesDue'
  <2>1. ConsumersMade'
    BY <1>4, <1>5 DEF ConsumersMade
  <2>2. NoticesDue'
    BY <1>4, <1>5 DEF ObjectsTyped, NoticesDue
  <2> QED BY <2>1, <2>2
<1>11. OutsidersOwnNothing'
  BY DEF PeersTyped, OutsidersOwnNothing
<1>12. MutedHearsNothing'
  BY <1>4 DEF MutedHearsNothing, IsAudio
<1>13. \A p \in Peers : \A k \in Consumers : k \in consumers'[p] <=>
         k \in consumers[p] /\ ~(k = c /\ p = consumer[c].owner /\ c \in given /\ Found(p))
  BY <1>1 DEF PeersTyped, Forgotten
<1>14. UNCHANGED status
  OBVIOUS
<1>15. EachListed'
  <2> SUFFICES ASSUME NEW p \in Peers, NEW k \in Consumers
               PROVE  (LET isOpen == consumer[k].step = "open" /\ consumer[k].owner = p IN
                       /\ Found(p) => (k \in consumers[p] <=> isOpen)
                       /\ status[p] = "left" => ~isOpen)'
    BY Zenon DEF EachListed
  <2>1. LET isOpen == consumer[k].step = "open" /\ consumer[k].owner = p IN
        /\ Found(p) => (k \in consumers[p] <=> isOpen)
        /\ status[p] = "left" => ~isOpen
    BY DEF EachListed
  <2>2. CASE k = c
    <3>1. consumer'[k].step # "open"
      BY <2>2, <1>4
    <3>2. ASSUME Found(p), k \in consumers[p] PROVE k \notin consumers'[p]
      <4>1. consumer[k].step = "open" /\ consumer[k].owner = p
        BY <2>1, <3>2
      <4>2. c \in given
        BY <2>2, <3>2, <4>1 DEF ConsumersFed
      <4> QED BY <2>2, <3>2, <4>1, <4>2, <1>13
    <3>3. consumers'[p] \subseteq consumers[p]
      BY <1>8
    <3> QED BY <3>1, <3>2, <3>3, <1>14 DEF Found
  <2>3. CASE k # c
    BY <2>1, <2>3, <1>14, <1>4, <1>13 DEF Found
  <2> QED BY <2>2, <2>3
<1>16. ConsumersFed'
  BY <1>4, <1>14 DEF ConsumersFed, Found
<1>17. ProducersOwned'
  BY DEF ProducersOwned
<1>18. \A q \in InRoom : consumer[c].of \notin producers[q]
  BY DEF NoticesDue, ProducersHeld, InRoom
<1>19. ProducersKnown'
  BY <1>1, <1>18 DEF PeersTyped, ProducersKnown, InRoom
<1>20. \A q \in Peers : Found(q)' = Found(q) /\ PeerState(q)' = PeerState(q)
  BY DEF Found, PeerState, OfKind
<1>21. c \in given /\ Found(consumer[c].owner) => StateBroadcast'
  BY <1>1, <1>20, BroadcastTells DEF PeersTyped
<1>22. ~(c \in given /\ Found(consumer[c].owner)) => StateBroadcast'
  BY <1>14, <1>20 DEF StateBroadcast, InRoom
<1>23. StateBroadcast'
  BY <1>21, <1>22
<1> QED BY <1>3, <1>6, <1>7, <1>9, <1>10, <1>11, <1>12, <1>15, <1>16, <1>17, <1>19, <1>23

LEMMA HideRemoteVideoKeeps ==
  ASSUME MediaInv, NEW p \in Peers, NEW x \in Producers, Found(p), HideRemoteVideo(p, x)
  PROVE  MediaInv'
<1> USE DEF MediaInv, TypeOK, Guarantees, HideRemoteVideo, CloseConsumers, VideoConsumers,
       peerVars, transportVars, producerVars, consumerVars, clientVars
<1>1. told' \in [Peers -> [enabledHeadset : BOOLEAN, enabledMicrophone : BOOLEAN]]
  BY BroadcastTyped DEF PeersTyped
<1>2. PeersTyped'
  <2>1. consumers' \in [Peers -> SUBSET Consumers]
    BY DEF PeersTyped
  <2> QED BY <1>1, <2>1 DEF PeersTyped
<1>3. /\ consumer' \in [Consumers -> ConsumerRecords]
      /\ \A k \in Consumers :
           /\ consumer'[k].owner = consumer[k].owner /\ consumer'[k].of = consumer[k].of
           /\ consumer'[k].step =
                IF k \in VideoConsumers(p, x) THEN "closed" ELSE consumer[k].step
  BY ConsumersClose DEF ObjectsTyped
<1>4. \A k \in Consumers : Used(consumer'[k]) <=> Used(consumer[k])
  BY <1>3 DEF Used, ConsumersHeld
<1>5. ObjectsTyped' /\ OwnersKnown'
  BY <1>3, <1>4 DEF ObjectsTyped, OwnersKnown
<1>6. TransportsHeld' /\ ProducersHeld'
  BY DEF TransportsHeld, DisposedTransports, ProducersHeld
<1>7. \A q \in Peers : consumers'[q] \subseteq consumers[q]
  BY DEF PeersTyped
<1>8. ConsumersHeld'
  BY <1>3, <1>4, <1>7 DEF PeersTyped, ConsumersHeld
<1>9. ConsumersMade' /\ NoticesDue'
  BY <1>3, <1>4 DEF ObjectsTyped, OwnersKnown, ConsumersMade, NoticesDue
<1>10. OutsidersOwnNothing'
  BY DEF PeersTyped, OutsidersOwnNothing
<1>11. MutedHearsNothing'
  BY <1>3 DEF MutedHearsNothing, IsAudio
<1>12. /\ consumers'[p] = consumers[p] \ VideoConsumers(p, x)
       /\ \A q \in Peers \ {p} : consumers'[q] = consumers[q]
  BY DEF PeersTyped
<1>13. \A k \in VideoConsumers(p, x) : consumer[k].owner = p
  BY DEF PeersTyped, ConsumersHeld
<1>14. EachListed'
  BY <1>3, <1>12, <1>13 DEF EachListed, Found
<1>15. ConsumersFed'
  BY <1>3 DEF ConsumersFed, Found
<1>16. ProducersOwned'
  BY DEF ProducersOwned
<1>17. ProducersKnown'
  BY DEF ProducersKnown, InRoom
<1>18. \A q \in Peers \ {p} : Found(q)' => Found(q) /\ PeerState(q)' = PeerState(q)
  BY DEF PeersTyped, Found, PeerState, OfKind
<1>19. StateBroadcast'
  BY <1>18, BroadcastTells DEF PeersTyped
<1> QED BY <1>2, <1>5, <1>6, <1>8, <1>9, <1>10, <1>11, <1>14, <1>15, <1>16, <1>17, <1>19

LEMMA MuteHeadsetKeeps ==
  ASSUME MediaInv, NEW p \in Peers, MuteHeadset(p)
  PROVE  MediaInv'
<1> USE DEF MediaInv, TypeOK, Guarantees, MuteHeadset, CloseConsumers, peerVars,
       transportVars, producerVars, consumerVars, clientVars
<1>1. told' \in [Peers -> [enabledHeadset : BOOLEAN, enabledMicrophone : BOOLEAN]]
  BY BroadcastTyped DEF PeersTyped
<1>2. PeersTyped'
  <2>1. consumers' \in [Peers -> SUBSET Consumers]
    BY DEF PeersTyped
  <2> QED BY <1>1, <2>1 DEF PeersTyped
<1>3. /\ consumer' \in [Consumers -> ConsumerRecords]
      /\ \A k \in Consumers :
           /\ consumer'[k].owner = consumer[k].owner /\ consumer'[k].of = consumer[k].of
           /\ consumer'[k].step = IF k \in AudioConsumers(p) THEN "closed" ELSE consumer[k].step
  BY ConsumersClose DEF ObjectsTyped
<1>4. \A k \in Consumers : Used(consumer'[k]) <=> Used(consumer[k])
  BY <1>3 DEF Used, AudioConsumers, ConsumersHeld
<1>5. ObjectsTyped' /\ OwnersKnown'
  BY <1>3, <1>4 DEF ObjectsTyped, OwnersKnown
<1>6. TransportsHeld' /\ ProducersHeld'
  BY DEF TransportsHeld, DisposedTransports, ProducersHeld
<1>7. \A q \in Peers : consumers'[q] \subseteq consumers[q]
  BY DEF PeersTyped
<1>8. ConsumersHeld'
  BY <1>3, <1>4, <1>7 DEF PeersTyped, ConsumersHeld
<1>9. ConsumersMade' /\ NoticesDue'
  BY <1>3, <1>4 DEF ObjectsTyped, OwnersKnown, ConsumersMade, NoticesDue
<1>10. OutsidersOwnNothing'
  BY DEF PeersTyped, OutsidersOwnNothing
<1>11. \A k \in Consumers : consumer[k].step = "open" /\ consumer[k].owner = p
         /\ IsAudio(consumer[k].of) => k \in AudioConsumers(p)
  BY DEF EachListed, AudioConsumers
<1>12. MutedHearsNothing'
  BY <1>3, <1>11 DEF PeersTyped, OwnersKnown, MutedHearsNothing, IsAudio, Used
<1>13. /\ consumers'[p] = consumers[p] \ AudioConsumers(p)
       /\ \A q \in Peers \ {p} : consumers'[q] = consumers[q]
  BY DEF PeersTyped, AudioConsumers
<1>14. \A k \in AudioConsumers(p) : consumer[k].owner = p
  BY DEF PeersTyped, ConsumersHeld, AudioConsumers
<1>15. EachListed'
  BY <1>3, <1>13, <1>14 DEF EachListed, Found
<1>16. ConsumersFed'
  BY <1>3 DEF ConsumersFed, Found
<1>17. ProducersOwned'
  BY DEF ProducersOwned
<1>18. ProducersKnown'
  BY DEF ProducersKnown, InRoom
<1>19. \A q \in Peers \ {p} : Found(q)' => Found(q) /\ PeerState(q)' = PeerState(q)
  BY DEF PeersTyped, Found, PeerState, OfKind
<1>20. StateBroadcast'
  BY <1>19, BroadcastTells DEF PeersTyped
<1> QED BY <1>2, <1>5, <1>6, <1>8, <1>9, <1>10, <1>12, <1>15, <1>16, <1>17, <1>18, <1>20

LEMMA UnmuteHeadsetKeeps ==
  ASSUME MediaInv, NEW p \in Peers, UnmuteHeadset(p)
  PROVE  MediaInv'
<1> USE DEF MediaInv, TypeOK, Guarantees, UnmuteHeadset, peerVars, transportVars,
       producerVars, consumerVars, clientVars
<1>1. told' \in [Peers -> [enabledHeadset : BOOLEAN, enabledMicrophone : BOOLEAN]]
  BY BroadcastTyped DEF PeersTyped
<1>2. UNION {OfKind(q, "audio") : q \in InRoom \ {p}} \subseteq Producers
  BY DEF PeersTyped, OfKind, InRoom
<1>3. PeersTyped'
  BY <1>1, <1>2 DEF PeersTyped
<1>4. ObjectsTyped' /\ OwnersKnown'
  BY DEF ObjectsTyped, OwnersKnown
<1>5. TransportsHeld' /\ ProducersHeld' /\ ConsumersHeld'
  BY DEF PeersTyped, TransportsHeld, ProducersHeld, ConsumersHeld, DisposedTransports
<1>6. ConsumersMade' /\ NoticesDue'
  BY DEF PeersTyped, ObjectsTyped, OwnersKnown, ConsumersMade, NoticesDue
<1>7. OutsidersOwnNothing'
  BY DEF PeersTyped, OutsidersOwnNothing
<1>8. MutedHearsNothing'
  BY DEF PeersTyped, OwnersKnown, MutedHearsNothing, IsAudio, Used
<1>9. ProducersOwned' /\ EachListed' /\ ConsumersFed'
  BY DEF ProducersOwned, EachListed, Found, ConsumersFed
<1>10. ProducersKnown'
  BY DEF PeersTyped, ProducersKnown, InRoom
<1>11. \A q \in Peers \ {p} : Found(q)' => Found(q) /\ PeerState(q)' = PeerState(q)
  BY DEF PeersTyped, Found, PeerState, OfKind, IsAudio
<1>12. StateBroadcast'
  BY <1>11, BroadcastTells DEF PeersTyped
<1> QED BY <1>3, <1>4, <1>5, <1>6, <1>7, <1>8, <1>9, <1>10, <1>12

LEMMA ResumeKeeps ==
  ASSUME MediaInv, NEW p \in Peers, NEW c \in Consumers, Resume(p, c)
  PROVE  MediaInv'
<1> USE DEF MediaInv, TypeOK, Guarantees, Resume, peerVars, transportVars, producerVars,
       consumerVars, clientVars
<1>1. PeersTyped'
  BY DEF PeersTyped
<1>2. ObjectsTyped' /\ OwnersKnown'
  BY DEF ObjectsTyped, OwnersKnown
<1>3. TransportsHeld' /\ ProducersHeld' /\ ConsumersHeld'
  BY DEF PeersTyped, TransportsHeld, ProducersHeld, ConsumersHeld, DisposedTransports
<1>4. ConsumersMade' /\ NoticesDue'
  BY DEF ConsumersMade, NoticesDue, ConsumersHeld
<1>5. OutsidersOwnNothing'
  BY DEF PeersTyped, OutsidersOwnNothing
<1>6. /\ MutedHearsNothing' /\ ProducersOwned' /\ EachListed'
      /\ ConsumersFed' /\ ProducersKnown' /\ StateBroadcast'
  BY DEF MutedHearsNothing, IsAudio, ProducersOwned, EachListed, Found, ConsumersFed,
         ProducersKnown, InRoom, StateBroadcast, PeerState, OfKind
<1> QED BY <1>1, <1>2, <1>3, <1>4, <1>5, <1>6

LEMMA ResumedKeeps ==
  ASSUME MediaInv, NEW c \in Consumers, Found(consumer[c].owner), Resumed(c)
  PROVE  MediaInv'
<1> USE DEF MediaInv, TypeOK, Guarantees, Resumed, peerVars, transportVars, producerVars,
       consumerVars, clientVars
<1>1. consumer[c].owner \in Peers
  BY DEF ObjectsTyped, OwnersKnown, NoticesDue
<1>2. told' \in [Peers -> [enabledHeadset : BOOLEAN, enabledMicrophone : BOOLEAN]]
  BY <1>1, BroadcastTyped DEF PeersTyped
<1>3. PeersTyped'
  BY <1>2 DEF PeersTyped
<1>4. ObjectsTyped' /\ OwnersKnown'
  BY DEF ObjectsTyped, OwnersKnown
<1>5. TransportsHeld' /\ ProducersHeld' /\ ConsumersHeld'
  BY DEF PeersTyped, TransportsHeld, ProducersHeld, ConsumersHeld, DisposedTransports
<1>6. ConsumersMade' /\ NoticesDue'
  BY DEF PeersTyped, ObjectsTyped, OwnersKnown, ConsumersMade, NoticesDue
<1>7. OutsidersOwnNothing'
  BY DEF PeersTyped, OutsidersOwnNothing
<1>8. /\ MutedHearsNothing' /\ ProducersOwned' /\ EachListed'
      /\ ConsumersFed' /\ ProducersKnown'
  BY DEF MutedHearsNothing, IsAudio, ProducersOwned, EachListed, Found, ConsumersFed,
         ProducersKnown, InRoom
<1>9. \A q \in Peers \ {consumer[c].owner} :
        Found(q)' => Found(q) /\ PeerState(q)' = PeerState(q)
  BY DEF Found, PeerState, OfKind, IsAudio
<1>10. StateBroadcast'
  BY <1>1, <1>9, BroadcastTells DEF PeersTyped
<1> QED BY <1>3, <1>4, <1>5, <1>6, <1>7, <1>8, <1>10

(* A process that ends leaves nothing.                                     *)
LEMMA FailsKeeps ==
  ASSUME NEW error \in Errors, Fails(error)
  PROVE  MediaInv'
<1> USE DEF Fails, Everybody, Used, NoTransport, NoProducer, NoConsumer, Untold
<1>1. PeersTyped'
  BY DEF PeersTyped, Statuses
<1>2. ObjectsTyped' /\ OwnersKnown'
  BY DEF ObjectsTyped, OwnersKnown, TransportRecords, ProducerRecords, ConsumerRecords,
         Steps, Kinds
<1>3. TransportsHeld' /\ ProducersHeld' /\ ConsumersHeld'
  BY DEF TransportsHeld, DisposedTransports, ProducersHeld, ConsumersHeld
<1>4. ConsumersMade' /\ NoticesDue' /\ OutsidersOwnNothing'
  BY DEF ConsumersMade, NoticesDue, OutsidersOwnNothing
<1>5. MutedHearsNothing' /\ ProducersOwned' /\ EachListed'
  BY DEF MutedHearsNothing, ProducersOwned, EachListed, Found
<1>6. ConsumersFed' /\ ProducersKnown' /\ StateBroadcast'
  BY DEF ConsumersFed, ProducersKnown, StateBroadcast, InRoom
<1> QED BY <1>1, <1>2, <1>3, <1>4, <1>5, <1>6 DEF MediaInv, TypeOK, Guarantees

----------------------------------------------------------------------------
(* The steps of Next, those that end the process put together.             *)
LEMMA StepCases ==
  ASSUME Next
  PROVE  \/ \E error \in Errors : Fails(error)
         \/ \E p \in Peers, isMuted, overwrites \in BOOLEAN : Enter(p, isMuted, overwrites)
         \/ \E p \in Peers : Leave(p)
         \/ \E p \in Peers : ~FindsRoom(p) /\ StrayLeaves(p)
         \/ \E p \in Peers, t \in Transports, isConsumer \in BOOLEAN :
               CreateTransport(p, t, isConsumer)
         \/ \E t \in Transports : TransportCreated(t)
         \/ \E p \in Peers, x \in Producers, kind \in Kinds : CreateProducer(p, x, kind)
         \/ \E x \in Producers : ProducerCreated(x)
         \/ \E p \in Peers, kind \in Kinds : Found(p) /\ CloseProducersOfKind(p, kind)
         \/ \E p \in Peers : GetProducerIds(p)
         \/ \E p \in Peers, c \in Consumers, x \in Producers : CreateConsumer(p, c, x)
         \/ \E c \in Consumers : ConsumerCreated(c)
         \/ \E c \in Consumers : AudioRefused(c)
         \/ \E c \in Consumers : ProducerClosed(c)
         \/ \E p \in Peers, x \in Producers : Found(p) /\ HideRemoteVideo(p, x)
         \/ \E p \in Peers : MuteHeadset(p)
         \/ \E p \in Peers : UnmuteHeadset(p)
         \/ \E p \in Peers, c \in Consumers : Resume(p, c)
         \/ \E c \in Consumers : Found(consumer[c].owner) /\ Resumed(c)
<1>1. ASSUME NEW p \in Peers, FindsRoom(p), StrayLeaves(p)
      PROVE  \E error \in Errors : Fails(error)
  BY <1>1 DEF StrayLeaves, Errors
<1>2. ASSUME NEW p \in Peers, NEW kind \in Kinds, ~Found(p), CloseProducersOfKind(p, kind)
      PROVE  \E error \in Errors : Fails(error)
  BY <1>2 DEF CloseProducersOfKind, Errors
<1>3. ASSUME NEW p \in Peers, NEW x \in Producers, ~Found(p), HideRemoteVideo(p, x)
      PROVE  \E error \in Errors : Fails(error)
  BY <1>3 DEF HideRemoteVideo, Errors
<1>4. ASSUME NEW p \in Peers, NEW q \in Peers, ShowRemoteVideoFails(p, q)
      PROVE  \E error \in Errors : Fails(error)
  BY <1>4 DEF ShowRemoteVideoFails, Errors
<1>5. ASSUME NEW c \in Consumers, ~Found(consumer[c].owner), Resumed(c)
      PROVE  \E error \in Errors : Fails(error)
  BY <1>5 DEF Resumed, Errors
<1>6. ASSUME NEW c \in Consumers, ResumeRejected(c)
      PROVE  \E error \in Errors : Fails(error)
  BY <1>6 DEF ResumeRejected, Errors
<1>7. ASSUME NEW x \in Producers, ProduceRejected(x)
      PROVE  \E error \in Errors : Fails(error)
  BY <1>7 DEF ProduceRejected, Errors
<1> QED BY <1>1, <1>2, <1>3, <1>4, <1>5, <1>6, <1>7, Zenon DEF Next, PeerStep

(* The invariant holds initially, and every step keeps it.                 *)
LEMMA MediaInvInit == Init => MediaInv
<1> SUFFICES ASSUME Init PROVE MediaInv
  OBVIOUS
<1> USE DEF Init, Everybody, Used, NoTransport, NoProducer, NoConsumer, Untold
<1>1. PeersTyped
  BY DEF PeersTyped, Statuses
<1>2. ObjectsTyped /\ OwnersKnown
  BY DEF ObjectsTyped, OwnersKnown, TransportRecords, ProducerRecords, ConsumerRecords,
         Steps, Kinds
<1>3. TransportsHeld /\ ProducersHeld /\ ConsumersHeld
  BY DEF TransportsHeld, DisposedTransports, ProducersHeld, ConsumersHeld
<1>4. ConsumersMade /\ NoticesDue /\ OutsidersOwnNothing
  BY DEF ConsumersMade, NoticesDue, OutsidersOwnNothing
<1>5. MutedHearsNothing /\ ProducersOwned /\ EachListed
  BY DEF MutedHearsNothing, ProducersOwned, EachListed, Found
<1>6. ConsumersFed /\ ProducersKnown /\ StateBroadcast
  BY DEF ConsumersFed, ProducersKnown, StateBroadcast, InRoom
<1> QED BY <1>1, <1>2, <1>3, <1>4, <1>5, <1>6 DEF MediaInv, TypeOK, Guarantees

LEMMA MediaInvUnchanged ==
  ASSUME MediaInv, UNCHANGED vars
  PROVE  MediaInv'
<1> USE DEF MediaInv, TypeOK, Guarantees, vars, peerVars, transportVars, producerVars,
       consumerVars, clientVars
<1>1. PeersTyped' /\ ObjectsTyped' /\ OwnersKnown'
  BY DEF PeersTyped, ObjectsTyped, OwnersKnown
<1>2. TransportsHeld' /\ ProducersHeld' /\ ConsumersHeld'
  BY DEF TransportsHeld, DisposedTransports, ProducersHeld, ConsumersHeld
<1>3. ConsumersMade' /\ NoticesDue' /\ OutsidersOwnNothing'
  BY DEF ConsumersMade, NoticesDue, OutsidersOwnNothing
<1>4. MutedHearsNothing' /\ ProducersOwned' /\ EachListed'
  BY DEF MutedHearsNothing, IsAudio, ProducersOwned, EachListed, Found
<1>5. ConsumersFed' /\ ProducersKnown' /\ StateBroadcast'
  BY DEF ConsumersFed, Found, ProducersKnown, StateBroadcast, PeerState, OfKind, InRoom
<1> QED BY <1>1, <1>2, <1>3, <1>4, <1>5

LEMMA MediaInvStep == MediaInv /\ [Next]_vars => MediaInv'
<1>1. ASSUME MediaInv, Next PROVE MediaInv'
  BY <1>1, StepCases, FailsKeeps, EnterKeeps, LeaveKeeps, StrayLeavesKeeps,
     CreateTransportKeeps, TransportCreatedKeeps, CreateProducerKeeps, ProducerCreatedKeeps,
     OrphanCreatedKeeps, CloseProducersKeeps, GetProducerIdsKeeps, CreateConsumerKeeps,
     ConsumerCreatedKeeps, AudioRefusedKeeps, ProducerClosedKeeps, HideRemoteVideoKeeps,
     MuteHeadsetKeeps, UnmuteHeadsetKeeps, ResumeKeeps, ResumedKeeps, Zenon
<1> QED BY <1>1, MediaInvUnchanged

LEMMA MediaInvariant == SpecH => []MediaInv
<1>1. InitH => MediaInv
  BY MediaInvInit DEF InitH
<1>2. MediaInv /\ [NextH]_allVars => MediaInv'
  BY MediaInvStep DEF NextH, allVars
<1> QED BY <1>1, <1>2, PTL DEF SpecH

----------------------------------------------------------------------------
(* Every variable keeps its type, and every object that has been asked for *)
(* has a peer, a producer a transport, a consumer a producer.              *)
THEOREM MediaTyped == SpecH => []TypeOK
<1>1. MediaInv => TypeOK
  BY DEF MediaInv
<1> QED BY <1>1, MediaInvariant, PTL

(* A peer with its headset off hears nothing, whenever the headset was     *)
(* switched off while a consumer was being made.                           *)
THEOREM MutedPeerHearsNothing == SpecH => []MutedHearsNothing
<1>1. MediaInv => MutedHearsNothing
  BY DEF MediaInv, Guarantees
<1> QED BY <1>1, MediaInvariant, PTL

(* No producer goes on sending without its peer.                           *)
THEOREM NoProducerWithoutPeer == SpecH => []ProducersOwned
<1>1. MediaInv => ProducersOwned
  BY DEF MediaInv, Guarantees
<1> QED BY <1>1, MediaInvariant, PTL

(* A peer of the running Room lists its open consumers and no others.      *)
THEOREM OpenConsumersListed == SpecH => []ConsumersListed
<1>1. ASSUME MediaInv, NEW p \in Peers
      PROVE  /\ Found(p) => consumers[p] =
                  {c \in Consumers : consumer[c].step = "open" /\ consumer[c].owner = p}
             /\ status[p] = "left" =>
                  {c \in Consumers : consumer[c].step = "open" /\ consumer[c].owner = p} = {}
  BY <1>1 DEF MediaInv, TypeOK, PeersTyped, Guarantees, EachListed
<1>2. MediaInv => ConsumersListed
  BY <1>1 DEF ConsumersListed
<1> QED BY <1>2, MediaInvariant, PTL

(* An open consumer has an open producer, or the event that closes it is   *)
(* on its way; its client will be told, unless its peer is in a Room that  *)
(* another one has overwritten.                                            *)
THEOREM OpenConsumersFed == SpecH => []ConsumersFed
<1>1. MediaInv => ConsumersFed
  BY DEF MediaInv, Guarantees
<1> QED BY <1>1, MediaInvariant, PTL

(* A client that has asked for the producers misses none that comes later. *)
THEOREM NoProducerMissed == SpecH => []ProducersKnown
<1>1. MediaInv => ProducersKnown
  BY DEF MediaInv, Guarantees
<1> QED BY <1>1, MediaInvariant, PTL

(* What was last broadcast of a peer is how it is.                         *)
THEOREM BroadcastTrue == SpecH => []StateBroadcast
<1>1. MediaInv => StateBroadcast
  BY DEF MediaInv, Guarantees
<1> QED BY <1>1, MediaInvariant, PTL

----------------------------------------------------------------------------
(* Transports need the history of those lost sight of.  Only four kinds of *)
(* steps touch a transport or the status of a peer.                        *)
LEMMA TransportsKept ==
  ASSUME MediaInv, TransportsOwned, NextH
  PROVE  TransportsOwned'
<1> USE DEF MediaInv, TypeOK, peerVars, transportVars, producerVars, consumerVars, clientVars
<1>1. ASSUME fatal' = NoError
      PROVE  /\ lost \subseteq lost'
             /\ \A t \in Transports : transport[t].step = "awaited"
                  /\ transport'[t].step = "open" /\ ~Found(transport[t].owner) => t \in lost'
             /\ \A p \in Peers : \A t \in Transports :
                  sendTransport[p] = t /\ sendTransport'[p] # t => t \in lost'
  BY <1>1 DEF NextH
<1>2. CASE \E error \in Errors : Fails(error)
  BY <1>2 DEF Fails, TransportsOwned, NoTransport
<1>3. ASSUME UNCHANGED <<fatal, transportVars>>, Up,
             \A p \in Peers : status'[p] = "left" => status[p] = "left"
      PROVE  TransportsOwned'
  BY <1>1, <1>3 DEF Up, OwnersKnown, TransportsOwned, Used
<1>4. ASSUME NEW p \in Peers, NEW isMuted \in BOOLEAN, NEW overwrites \in BOOLEAN,
             Enter(p, isMuted, overwrites)
      PROVE  TransportsOwned'
  BY <1>3, <1>4 DEF Enter, PeersTyped
<1>5. ASSUME NEW p \in Peers, ~FindsRoom(p), StrayLeaves(p)
      PROVE  TransportsOwned'
  BY <1>3, <1>5 DEF StrayLeaves, PeersTyped
<1>6. ASSUME NEW p \in Peers, Leave(p) PROVE TransportsOwned'
  <2>1. \A t \in Transports :
          /\ transport'[t].owner = transport[t].owner
          /\ transport'[t].step =
               IF t \in DisposedTransports(p) THEN "closed" ELSE transport[t].step
    BY <1>6, TransportsClose DEF Leave, ObjectsTyped
  <2>2. ASSUME NEW t \in Transports \ lost, transport[t].step = "open",
               transport[t].owner = p
        PROVE  t \in DisposedTransports(p)
    BY <2>2, NoneIsNoTransport DEF TransportsOwned, DisposedTransports
  <2>3. \A q \in Peers \ {p} : status'[q] = status[q]
          /\ sendTransport'[q] = sendTransport[q] /\ receiveTransports'[q] = receiveTransports[q]
    BY <1>6 DEF Leave, PeersTyped
  <2>4. lost \subseteq lost'
    BY <1>1, <1>6 DEF Leave, Up
  <2> QED BY <2>1, <2>2, <2>3, <2>4 DEF TransportsOwned, OwnersKnown, Used
<1>7. ASSUME NEW p \in Peers, NEW t \in Transports, NEW isConsumer \in BOOLEAN,
             CreateTransport(p, t, isConsumer)
      PROVE  TransportsOwned'
  <2>1. /\ transport'[t].step = "awaited"
        /\ \A u \in Transports \ {t} : transport'[u] = transport[u]
    BY <1>7 DEF CreateTransport, ObjectsTyped
  <2>2. lost \subseteq lost'
    BY <1>1, <1>7 DEF CreateTransport, Connected, Up
  <2> QED BY <1>7, <2>1, <2>2 DEF CreateTransport, TransportsOwned
<1>8. ASSUME NEW t \in Transports, TransportCreated(t) PROVE TransportsOwned'
  <2> DEFINE p == transport[t].owner
  <2>1. p \in Peers /\ transport[t].step = "awaited" /\ fatal' = NoError /\ status' = status
    BY <1>8 DEF TransportCreated, OwnersKnown, Used, Up
  <2>2. \A u \in Transports :
          /\ transport'[u].owner = transport[u].owner
          /\ transport'[u].step = IF u = t THEN "open" ELSE transport[u].step
    BY <1>8, TransportAnswered DEF TransportCreated, ObjectsTyped
  <2>3. \A q \in Peers : /\ receiveTransports[q] \subseteq receiveTransports'[q]
                         /\ q # p => sendTransport'[q] = sendTransport[q]
    BY <1>8, <2>1 DEF TransportCreated, AddTransport, PeersTyped
  <2>4. Found(p) => t = sendTransport'[p] \/ t \in receiveTransports'[p]
    BY <1>8, <2>1 DEF TransportCreated, AddTransport, PeersTyped
  <2>5. ASSUME NEW u \in Transports \ lost', transport'[u].step = "open"
        PROVE  LET q == transport'[u].owner IN
               /\ status'[q] # "left"
               /\ u = sendTransport'[q] \/ u \in receiveTransports'[q]
    <3>1. CASE u = t
      BY <1>1, <2>1, <2>2, <2>4, <2>5, <3>1 DEF Found
    <3>2. CASE u # t
      <4>1. transport[u].step = "open" /\ u \notin lost /\ transport[u].owner \in Peers
        BY <1>1, <2>1, <2>2, <2>5, <3>2 DEF OwnersKnown, Used
      <4>2. /\ status[transport[u].owner] # "left"
            /\ \/ u = sendTransport[transport[u].owner]
               \/ u \in receiveTransports[transport[u].owner]
        BY <4>1 DEF TransportsOwned
      <4> QED BY <1>1, <2>1, <2>2, <2>3, <2>5, <4>1, <4>2
    <3> QED BY <3>1, <3>2
  <2> QED BY <2>5 DEF TransportsOwned
<1>9. CASE \/ \E p \in Peers, x \in Producers, kind \in Kinds : CreateProducer(p, x, kind)
           \/ \E x \in Producers : ProducerCreated(x)
           \/ \E p \in Peers, kind \in Kinds : Found(p) /\ CloseProducersOfKind(p, kind)
           \/ \E p \in Peers : GetProducerIds(p)
           \/ \E p \in Peers, c \in Consumers, x \in Producers : CreateConsumer(p, c, x)
           \/ \E c \in Consumers : ConsumerCreated(c)
           \/ \E c \in Consumers : AudioRefused(c)
           \/ \E c \in Consumers : ProducerClosed(c)
           \/ \E p \in Peers, x \in Producers : Found(p) /\ HideRemoteVideo(p, x)
           \/ \E p \in Peers : MuteHeadset(p)
           \/ \E p \in Peers : UnmuteHeadset(p)
           \/ \E p \in Peers, c \in Consumers : Resume(p, c)
           \/ \E c \in Consumers : Found(consumer[c].owner) /\ Resumed(c)
  <2>1. UNCHANGED <<fatal, status, transportVars>> /\ Up
    BY <1>9 DEF CreateProducer, ProducerCreated, CloseProducersOfKind, GetProducerIds,
         CreateConsumer, ConsumerCreated, AudioRefused, ProducerClosed, HideRemoteVideo,
         MuteHeadset, UnmuteHeadset, Resume, Resumed, Connected
  <2> QED BY <1>3, <2>1
<1>10. Next
  BY DEF NextH
<1> QED BY <1>2, <1>4, <1>5, <1>6, <1>7, <1>8, <1>9, <1>10, StepCases, Zenon

(* An open transport is on the list of a peer not yet disposed of, unless  *)
(* it was made for a peer no longer found, or replaced by another.         *)
THEOREM NoTransportWithoutPeer == SpecH => []TransportsOwned
<1>1. InitH => TransportsOwned
  BY DEF InitH, Init, TransportsOwned, NoTransport
<1>2. MediaInv /\ TransportsOwned /\ [NextH]_allVars => TransportsOwned'
  <2>1. CASE NextH
    BY <2>1, TransportsKept
  <2>2. CASE UNCHANGED allVars
    BY <2>2 DEF TransportsOwned, allVars, vars, peerVars, transportVars
  <2> QED BY <2>1, <2>2
<1> QED BY <1>1, <1>2, MediaInvariant, PTL DEF SpecH
==========================================================================
