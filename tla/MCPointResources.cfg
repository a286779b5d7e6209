SPECIFICATION Spec
CONSTANTS
    r1 = r1
    r2 = r2
    Slots = {r1, r2}
    Numbers = {1, 2, 3}
    MaxInteger = 2
    MaxRows = 2
SYMMETRY SlotsAreAlike
INVARIANTS
    StoredPointsStart
    OnlyTheOvertakenErr
