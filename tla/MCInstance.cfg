\* Every slot of every kind; the guards of an instance under two threads.
SPECIFICATION FairSpec
CONSTANTS
    t1 = t1
    t2 = t2
    g1 = g1
    g2 = g2
    g3 = g3
    x1 = x1
    Threads = {t1, t2}
    Guards = {g1, g2, g3}
    StreamIds = {x1}
    Nobody = Nobody
    Instance = Instance
    NoStream = NoStream
    Scenes <- SmallScenes
INVARIANTS NoUseAfterFree NothingLeft 
PROPERTIES DropReturns
