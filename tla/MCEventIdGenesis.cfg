CONSTANTS
    Shift = 4
    MaxHeight = 3
    MaxPerBlock = 2
SPECIFICATION Spec
INVARIANTS
    IdsIncreaseNumerically
