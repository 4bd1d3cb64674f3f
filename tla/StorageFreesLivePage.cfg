SPECIFICATION Spec
CONSTANTS
    Table = {a}
    Row = {r1, r2}
    Existing = {a}
    Room = 1
    MaxPage = 6
    Client = {"insert", "delete", "begin", "rollback", "close"}
    NoPage = NoPage
    NoTable = NoTable
SYMMETRY RowSymmetry
INVARIANT FreePagesAreUnused
