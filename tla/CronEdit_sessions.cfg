SPECIFICATION Spec
CONSTANTS
    j1 = j1
    j2 = j2
    s1 = s1
    s2 = s2
    Jobs = {j1, j2}
    None = None
    Torn = Torn
    Sessions = {s1, s2}
    Crontabs <- SomeCrontabs
    MaxActions = 2
    MaxByHand = 1
SYMMETRY SessionSymmetry
INVARIANTS
    TypeOK
    PriorIsBackedUp
PROPERTIES
    ChangesItsJob
