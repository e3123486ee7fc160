\* An event source; m2's event is too large for the host.
SPECIFICATION Spec
CONSTANTS
    m1 = m1
    m2 = m2
    Msgs = {m1, m2}
    Large = {m2}
    EventSources = {TRUE}
    MaxInFlight = 2
    MaxDeliveries = 3
    MaxUnreadAcks = 2
INVARIANTS IInv WindowBound Custody SettledOnce AckedWasStored CancelSettlesAll
PROPERTIES QuietAfterCancel ImplementsContract
