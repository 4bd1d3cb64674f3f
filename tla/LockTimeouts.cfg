SPECIFICATION FairSpec
CONSTANTS
    Txn = {t1, t2, t3}
    Page = {p1}
    Detector = FALSE
    EarlyRelease = TRUE
INVARIANTS
    MutualExclusion
    SleepersAreBlocked
    QueueKnowsWaiters
PROPERTIES
    AcquireReturns
    ImplementsLockTable
