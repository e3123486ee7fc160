\* The documented exact restart, with two changes in one poll.
SPECIFICATION FairSpec
CONSTANTS
    d1 = d1
    d2 = d2
    Absent = Absent
    Keys = {1, 2}
    Digests = {d1, d2}
    Setups <- RestartedOverlapping
PROPERTIES DocRestartExact
