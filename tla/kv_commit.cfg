SPECIFICATION FairSpec
CONSTANTS
    CAP = 2
    Readers = {r1, r2}
    MaxVersion = 5
    MaxPage = 6
    UnsyncedReopen = FALSE
INVARIANTS
    TypeOK
    NoOverwrite
    PagesAccounted
    SkipOnlyIfClean
    AckedSurvives
    MappedReads
    ItemsInVersionOrder
    RefusesOnlyUnformatted
PROPERTIES
    CommitEnds
