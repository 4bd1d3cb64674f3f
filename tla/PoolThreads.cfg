SPECIFICATION Spec
CONSTANTS
    Thread = {t1, t2}
    Page <- TwoPages
    Data = {d1}
    NoData = NoData
    Capacity = 1
SYMMETRY ThreadAndDataSymmetry
INVARIANTS TypeOK PinnedStayCached
