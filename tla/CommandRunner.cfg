CONSTANTS
    Capacity = 5
    Initial = 2
    MaxWrites = 3
    Sizes = {1, 2, 4}
SPECIFICATION Spec
INVARIANTS
    NothingLeftBehind
    ResultIsSound
    OutputIsBounded
PROPERTY AlwaysReturns
