SPECIFICATION Spec
CONSTANT Txn = {t1, t2, t3, t4}
INVARIANTS
    StackIsPath
    FindsCycles
    ReportsACycle
PROPERTY SearchEnds
