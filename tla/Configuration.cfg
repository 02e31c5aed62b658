SPECIFICATION Spec
CONSTANTS
    Situations <- MCSituations
    MaxConfigList = 4
    MaxConfigSources = 7
    MaxConfigTotalBytes = 8
    MaxExecutableCandidates = 5
    MaxStoragePaths = 3
INVARIANTS
    LayeringIsExact
    VerdictsAreTheHosts
    StorageIsOneSelection
    HelpersAreTheHosts
CHECK_DEADLOCK FALSE
