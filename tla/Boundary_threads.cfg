SPECIFICATION FairSpec
CONSTANTS
    Threads = {t1, t2, t3}
    NoThread = NoThread
    MaxSession = 2
    Exceptions = {"HOST_MEMORY"}
INVARIANTS
    TypeOK
    SlotStaysWhileUsed
    HandlesUnique
PROPERTIES
    CallsAreAtomic
    LockedCallsAnswer
    SomebodyIsServed
