\* A resource watch and an event source of a state that may come back.
SPECIFICATION FairSpec
CONSTANTS
    MaxValue = 3
    MaxChanges = 3
INVARIANTS TypeOK DiffsCompose
PROPERTIES QuietAfterCancel HostCatchesUp CancelReturns
