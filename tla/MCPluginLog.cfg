\* Three instances, two of them of a type without a size; two addresses; two logging threads.
SPECIFICATION Spec
CONSTANTS
    Instances = {i1, i2, i3}
    Addresses = {a1, a2}
    Threads = {t1, t2}
    NoInstance = NoInstance
    ZeroSized = {i2, i3}
INVARIANTS NoFreedBridgeCalled DroppedHasNoEntry LostOnlyByReuse
CHECK_DEADLOCK FALSE
