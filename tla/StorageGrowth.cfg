SPECIFICATION Spec
CONSTANTS
    Table = {a}
    Row = {r1, r2, r3}
    Existing = {}
    Room = 1
    MaxPage = 7
    Client = {"insert", "delete", "update", "begin", "commit", "create", "close", "crash"}
    NoPage = NoPage
    NoTable = NoTable
SYMMETRY RowSymmetry
INVARIANTS
    TypeOK
    PagesHaveOneOwner
PROPERTIES
    ImplementsSqlStore
