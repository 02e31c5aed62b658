SPECIFICATION Spec
CONSTANTS
    Situations <- CancelledSituations
    MaxConfigList = 4
    MaxConfigSources = 7
    MaxConfigTotalBytes = 8
    MaxExecutableCandidates = 5
    MaxStoragePaths = 3
INVARIANT EveryListedFileIsASource
CHECK_DEADLOCK FALSE
