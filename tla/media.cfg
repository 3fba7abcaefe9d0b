SPECIFICATION SpecH
CONSTANTS
    p1 = p1
    p2 = p2
    t1 = t1
    t2 = t2
    x1 = x1
    x2 = x2
    k1 = k1
    k2 = k2
    None = None
    Peers = {p1, p2}
    Transports = {t1, t2}
    Producers = {x1, x2}
    Consumers = {k1, k2}
INVARIANTS
    TypeOK
    MutedHearsNothing
    ProducersOwned
    TransportsOwned
    ConsumersListed
    ConsumersFed
    ProducersKnown
    StateBroadcast
SYMMETRY Symmetry
CHECK_DEADLOCK FALSE
