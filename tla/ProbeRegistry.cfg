CONSTANTS
    Ids = {"a", "b", "c"}
    Declarations <- SomeDeclarations
    Builders = {b1, b2}
    NoOption = NoOption
    Options <- SomeOptions
    CPUs = 0
    Redeclarations = 1
SPECIFICATION RegistrySpec
INVARIANTS
    ResolveIsExact
    BuiltPlansAgree
PROPERTY SealedForever
