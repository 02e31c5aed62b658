CONSTANTS
    N = 4
    MaxConcurrency = 3
    Plans <- PlansOfFour
    ReturnErrors <- FewErrors
SPECIFICATION Spec
INVARIANTS
    TypeOK
    RunsAfterDependencies
    SkippedIffDependencyDidNotSucceed
    ReadyProbeIsInOnePlace
    AllDoneMeansFinal
