SPECIFICATION Spec
CONSTANTS
    Def <- MCDef
    Recs <- MCRecs
    Requests <- MCRequests
    OtherKeys <- MCOtherKeys
    Top = 5
    IntBytes = 2
    PrefixBytes = 1
    MaxRows = 3
INVARIANTS
    StoreHolds
    GetExact
PROPERTIES
    ScansRange
