SPECIFICATION FairSpec
CONSTANTS
    Candidates <- OneCandidate
    HostProbes = {"host.os"}
    ContextProbes = {"context.user"}
    Prerequisites = {}
    Builds = {"5.0"}
    Runtimes = {"", "podman"}
    MaxChanges = 1
INVARIANT
    HostSuccessIsComplete
PROPERTY
    Exits
CHECK_DEADLOCK FALSE
