\* Three threads share a lease.
SPECIFICATION Spec
CONSTANTS
    Threads = {t1, t2, t3}
    MaxGrants = 4
INVARIANTS ReleasedOnce HandleLive DroppedIsReleased
CHECK_DEADLOCK FALSE
