SPECIFICATION FairSpec
CONSTANTS
    Thread = {t1}
    Page <- ThreePages
    Data = {d1, d2}
    NoData = NoData
    Capacity = 1
PROPERTIES ImplementsPageStore CallsReturn
