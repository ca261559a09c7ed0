SPECIFICATION Spec
CONSTANTS
    CAP = 2
    Readers = {r1}
    MaxVersion = 3
    MaxPage = 6
    UnsyncedReopen = TRUE
INVARIANTS
    NoOverwrite
