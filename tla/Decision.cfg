CONSTANTS
    Catalogs <- SomeCatalogs
    Given <- SomeGiven
    Generated <- SomeGenerated
    Capabilities = {1, 2, 3}
    Documents <- ThreeNodeDocuments
    Candidates <- UpToTwoCandidates
    Asked <- SomeAsked
    MaxDepth = 3
    MaxNodes = 4
    MaxCandidates = 2
SPECIFICATION DecisionSpec
CHECK_DEADLOCK FALSE
INVARIANTS
    OrderIsSound
    PrerequisitesGate
    ResolutionFollowsStrongest
    EvidenceDecides
    DefiniteVerdictIsFinal
