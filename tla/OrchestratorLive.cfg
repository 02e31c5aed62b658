CONSTANTS
    N = 3
    MaxConcurrency = 2
    Plans <- PlansForLiveness
    ReturnErrors <- SomeErrors
SPECIFICATION Spec
PROPERTIES
    Terminates
    ImplementsProbeRun
