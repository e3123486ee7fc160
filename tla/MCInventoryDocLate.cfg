\* The documented diff against what the host knows, with a host that is slow.
SPECIFICATION FairSpec
CONSTANTS
    d1 = d1
    d2 = d2
    Absent = Absent
    Keys = {1, 2}
    Digests = {d1, d2}
    Setups <- SlowOnly
PROPERTIES DocLateStored
