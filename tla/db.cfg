SPECIFICATION Spec
CONSTANTS
    NewDef <- MCNewDef
    Recs <- MCRecs
    Long = 3
    Readers = {r1}
    MaxUnsynced = 2
INVARIANTS
    IndexOpsDone
    IndexesFollowRows
    CacheTrue
    PrefixesOwned
    ReaderDefs
