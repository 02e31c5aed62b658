SPECIFICATION Spec
CONSTANTS
    Candidates <- TwoCandidates
    HostProbes = {}
    ContextProbes = {}
    Prerequisites = {"podman.quadlet"}
    Builds = {"5.0", "5.1"}
    Runtimes = {"podman"}
    MaxChanges = 1
INVARIANTS
    LaunchesAreAuthorized
    InspectionIsOfOneBuild
    UnsatisfiedMeansAbsent
    ExitMatchesDelivery
CHECK_DEADLOCK FALSE
