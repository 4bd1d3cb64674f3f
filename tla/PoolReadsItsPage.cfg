SPECIFICATION Spec
CONSTANTS
    Thread = {t1, t2}
    Page <- TwoPages
    Data = {d1, d2}
    NoData = NoData
    Capacity = 1
SYMMETRY ThreadAndDataSymmetry
PROPERTY ReadsItsPage
