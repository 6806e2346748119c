CONSTANTS
    r1 = r1
    r2 = r2
    r3 = r3
    r4 = r4
    Requests = {r1, r2, r3, r4}
    TotalContext = 12
    MaxParallel = 3
    Overshoot = 2
SPECIFICATION Spec
SYMMETRY RequestSymmetry
INVARIANTS
    WithinLimit
PROPERTIES
    AdmissionKeepsHistory
