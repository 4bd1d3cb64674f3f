SPECIFICATION Spec
CONSTANTS
    Txn = {1, 2, 3}
    Base = {p1, p2}
    Spare = {s1, s2, s3}
    Data = {d1, d2}
    NoPage = NoPage
    Blank = d1
    NoTxn = NoTxn
    Avoided = {"stale shadow"}
    NoData = NoData
SYMMETRY PageSymmetry
INVARIANTS
    TypeOK
    ShadowsAreApart
    BeforeImagesAreCurrent
    ChainsDescend
PROPERTIES
    OwnVersionsStay
    ImplementsWorkspace
CHECK_DEADLOCK FALSE
