SPECIFICATION IterSpec
CONSTANTS
    Keys = {1, 2, 3, 4, 5, 6}
    Vals = {1}
    KeySize <- EvenKeys
    PageSize = 9
INVARIANTS
    NoAssertFails
    WellFormed
    HoldsMap
    GetFinds
    PagesReplaced
    FollowsKeys
