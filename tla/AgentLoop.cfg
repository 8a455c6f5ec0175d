CONSTANTS
    f1 = f1
    f2 = f2
    Forced = {f1, f2}
    MaxVersion = 3
SPECIFICATION Spec
SYMMETRY Symmetry
CHECK_DEADLOCK FALSE
INVARIANTS OneUpdate
