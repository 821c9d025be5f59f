SPECIFICATION Spec
CONSTANTS
    n1 = n1  n2 = n2  p1 = p1  p2 = p2
    Name = {n1, n2}
    Plugin = {p1, p2}
    Provides <- ProvidesN1
    Reach = {"chain", "llm", "embedder", "register", "replace", "rebind"}
    Arguments <- ArgumentSets
    Optional = {"vectors"}
    Built <- BuiltSets
    ApiKeys <- KeySets
    Yaml <- YamlFiles
    Environ <- BadCapability
    Allowed <- AllowLists
    MaxLoads = 2
    NoAgent = NoAgent
INVARIANT BadOverridesSkipped
CHECK_DEADLOCK FALSE
