SPECIFICATION Spec
CONSTANTS
    n1 = n1  n2 = n2  p1 = p1  p2 = p2
    Name = {n1, n2}
    Plugin = {p1, p2}
    Provides <- ProvidesN1
    Reach = {"chain", "llm", "embedder", "register", "replace", "rebind"}
    Arguments <- ArgumentSets
    Optional = {"vectors"}
    Built <- BuiltSets
    ApiKeys <- KeySets
    Yaml <- YamlFiles
    Environ <- Environments
    Allowed <- AllowLists
    MaxLoads = 2
    NoAgent = NoAgent
INVARIANTS
    ChoicesStand
    Precedence
PROPERTY ApplicationWins
CHECK_DEADLOCK FALSE
