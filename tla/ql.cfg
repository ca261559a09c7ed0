SPECIFICATION Spec
CONSTANTS
    Defs <- MCDefs
    Statements <- MCStatements
    IntMax = 2
    MaxRows = 2
INVARIANTS
    SelectsExact
PROPERTIES
    CountsChanges
    FailsForCause
