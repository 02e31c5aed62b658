CONSTANTS
    Credentials <- MCCredentials
    Accounts <- MCAccounts
    NamespaceKinds = {"net", "mnt"}
    Documents = {"first", "second"}
SPECIFICATION Spec
INVARIANTS
    CollectsOnlyAsTarget
    ReportIsTheTargets
    RequirementIsTheCallers
    DelegationDoesNotFailByItself
    CommandsAreJoined
PROPERTY DelegationEnds
