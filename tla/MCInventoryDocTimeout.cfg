\* The documented retry of a change, with a full window.
SPECIFICATION FairSpec
CONSTANTS
    d1 = d1
    d2 = d2
    Absent = Absent
    Keys = {1, 2}
    Digests = {d1, d2}
    Setups <- FullWindow
PROPERTIES DocTimedOutReportedAgain
