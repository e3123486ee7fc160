\* Both forwarders, with streams of up to five items.
SPECIFICATION FairSpec
CONSTANTS
    MaxItems = 5
INVARIANTS NoCallbackAfterFree CancelStops
PROPERTIES CancelReturns
