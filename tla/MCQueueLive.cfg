\* Liveness, of an event source and of a resource watch, with a window of two.
SPECIFICATION FairSpec
CONSTANTS
    m1 = m1
    m2 = m2
    Msgs = {m1, m2}
    Large = {}
    EventSources = {TRUE, FALSE}
    MaxInFlight = 2
    MaxDeliveries = 2
    MaxUnreadAcks = 1
PROPERTIES HeldIsSettled CancelReturns AckedIsTold
