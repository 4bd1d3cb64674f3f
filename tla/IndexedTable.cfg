SPECIFICATION Spec
CONSTANTS
    PageSize = 12
    HeaderSize = 1
    SlotSize = 1
    Row <- MCRow
    NoRow = NoRow
    Key <- MCKey
    Loaded <- MCLoaded
    Inserts <- MCInserts
    Wheres <- MCWheres
    Sets <- MCSets
    NodeSpace = 130
    KeyEstimate = 32
    KeyBytes = 28
    MaxPages = 3
    MaxSlots = 12
    NoIndex = NoIndex
    Avoided <- MCAvoided
INVARIANTS
    TypeOK
    SpaceIsFree
    UpdateReachesAll
    IndexMatchesTable
PROPERTIES
    ImplementsKeyedTable
CHECK_DEADLOCK FALSE
