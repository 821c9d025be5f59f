------------------------------ MODULE MCWiring ------------------------------
EXTENDS Wiring
CONSTANTS n1, n2, p1, p2

\* Both plugins provide n1, so that they collide with each other too.
ProvidesN1 == [p \in Plugin |-> n1]
ArgumentSets == {{}, {"llm", "authorizer"}, {"chain", "memory", "embedder"}}
BuiltSets == {{}, {"prompt", "steps"}}
KeySets == {{}, {"openai"}, {"anthropic", "openai"}, {"openrouter"}}
YamlFiles == {
    [n \in Name |-> {}],
    [n \in Name |-> IF n = n1 THEN {"steps", "caps"} ELSE {}],
    [n \in Name |-> IF n = n1 THEN {"prompt", "steps"} ELSE {"prompt"}]}
Setting(p, s, c) == [f \in Field |-> CASE f = "prompt" -> p [] f = "steps" -> s [] OTHER -> c]
Nothing == Setting("unset", "unset", "unset")
Environments == {
    [n \in Name |-> Nothing],
    [n \in Name |-> IF n = n1 THEN Setting("bad", "good", "unset") ELSE Nothing],
    [n \in Name |-> IF n = n1 THEN Setting("unset", "bad", "good") ELSE Setting("good", "unset", "unset")]}
BadCapability == {[n \in Name |-> IF n = n1 THEN Setting("unset", "unset", "bad") ELSE Nothing]}
AllowLists == {{}, {n1}}
=============================================================================
