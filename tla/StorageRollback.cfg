SPECIFICATION Spec
CONSTANTS
    Table = {a, b}
    Row = {r1, r2}
    Existing = {a, b}
    Room = 2
    MaxPage = 6
    Client = {"insert", "delete", "update", "select", "begin", "commit", "rollback", "drop", "close", "crash"}
    NoPage = NoPage
    NoTable = NoTable
SYMMETRY RowAndTableSymmetry
INVARIANTS
    PagesHaveOneOwner
PROPERTIES
    ImplementsSqlStore
