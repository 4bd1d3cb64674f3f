SPECIFICATION Spec
CONSTANTS
    Txn = {t1, t2, t3}
    Page = {p1, p2}
    Detector = TRUE
    EarlyRelease = FALSE
SYMMETRY TxnAndPageSymmetry
INVARIANTS
    DeadlocksAreDetected
