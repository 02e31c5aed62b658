CONSTANTS
    WalkSteps = 14
    MemoryHops = 2
    KernelHops = 3
    Callers = {"one", "two"}
    Closers = {"k1", "k2"}
    Inodes = {1, 2, 3, 4, 5}
    Replacements = {2, 4, None}
    KindOf <- MCKindOf
    None = None
    MaxFd = 4
    FileBytes = 2
    Chunk = 2
    InterruptedRetries = 1
    Entries = {".", "a", "b", "c"}
    NameBytes <- MCNameBytes
    EntryLimit = 2
    NameLimit = 2
    OpenErrors = {"EACCES"}
    MaxChanges = 1
    Scenarios <- MCScenarios
    Trees <- MCTrees
    Root <- R
    Subpaths <- MCSubpaths
SPECIFICATION Spec
INVARIANTS
    DescriptorsAreOwned
    ReadsAreFaithful
    ListingsAreFaithful
    MemoryAgreesWithKernel
PROPERTY OperationsEnd
CHECK_DEADLOCK FALSE
