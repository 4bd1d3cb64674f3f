SPECIFICATION Spec
CONSTANTS
    PageSize = 12
    HeaderSize = 1
    SlotSize = 1
    Row <- MCRow
    NoRow = NoRow
    Key <- MCKey
    Loaded <- MCFewLoaded
    Inserts <- MCInserts
    Wheres <- MCWheres
    Sets <- MCSets
    NodeSpace = 56
    KeyEstimate = 8
    KeyBytes = 8
    MaxPages = 3
    MaxSlots = 12
    NoIndex = NoIndex
    Avoided <- MCAvoided
INVARIANT
    IndexMatchesTable
CHECK_DEADLOCK FALSE
