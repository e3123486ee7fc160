\* Event sources and a resource watch, with drops, timeouts, wakes and restarts.
SPECIFICATION FairSpec
CONSTANTS
    d1 = d1
    d2 = d2
    Absent = Absent
    Keys = {1, 2}
    Digests = {d1, d2}
    Setups <- Watches
INVARIANTS TypeOK InFlightBound NoRepeatInFlight ConfirmedAsStored PositionExact
PROPERTIES Converges ResourceSettles
