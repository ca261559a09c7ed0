SPECIFICATION Spec
CONSTANTS
    CAP = 2
    MaxVersion = 4
    MaxPage = 5
PROPERTIES
    ImplementsQueue
INVARIANTS
    LiveWordsKept
