CONSTANTS
    N = 3
    MaxConcurrency = 2
    Plans <- PlansForLiveness
    ReturnErrors <- FewErrors
SPECIFICATION Spec
INVARIANT ResultsInDagOrder
