SPECIFICATION Spec
CONSTANTS
    Keys = {1, 2, 3, 4, 5, 6}
    Vals = {0}
    KeySize <- UnevenKeys
    PageSize = 10
INVARIANTS
    NoAssertFails
