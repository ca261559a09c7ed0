SPECIFICATION Spec
CONSTANTS
    CAP = 2
    Readers = {r1}
    MaxVersion = 2
    MaxPage = 5
    UnsyncedReopen = FALSE
INVARIANTS
    NeverRefused
