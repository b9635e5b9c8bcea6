CONSTANTS
    Shift = 4
    MaxHeight = 18
    MaxPerBlock = 2
SPECIFICATION Spec
INVARIANTS
    OrdMatchesValue
