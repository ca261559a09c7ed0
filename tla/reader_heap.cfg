SPECIFICATION Spec
CONSTANTS
    Readers = {r1, r2, r3, r4, r5, r6, r7}
    MaxVersion = 6
SYMMETRY ReaderSymmetry
INVARIANTS
    IndexesMatch
    MinIsOldest
