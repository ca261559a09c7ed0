SPECIFICATION Spec
CONSTANTS
    Keys = {1, 2, 3, 4, 5, 6}
    Vals = {0, 4}
    KeySize <- EvenKeys
    PageSize = 16
INVARIANTS
    NoAssertFails
    WellFormed
    HoldsMap
    GetFinds
    PagesReplaced
