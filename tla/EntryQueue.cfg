CONSTANTS
    Inserters = {p1, p2}
    Getters = {g1, g2}
    Entries = {e1, e2}
    NoEntry = NoEntry
    QueueSize = 2
    UIntMod = 8

SPECIFICATION FairSpec

INVARIANTS
    TypeOK
    PlacesExact
    NoUnexpectedError
    InFlightExact

PROPERTIES
    FifoSpec
    EveryEntryServed
