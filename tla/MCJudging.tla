----------------------------- MODULE MCJudging -----------------------------
\* Two host runs, one with a fallback judge and an escalation, one whose validator runs
\* an agent; the agents they start.  A guard of the application's own comes first.
EXTENDS Judging

CONSTANTS r1, r2, r3

MCSub == [r \in Run |-> IF r \in Host THEN Run \ Host ELSE {}]
MCVerifier == [r \in Run |-> CASE r = r1 -> "fallback" [] r = r2 -> "agent" [] OTHER -> "judge"]
MCAttempts == [r \in Run |-> IF r \in Host THEN 2 ELSE 1]
MCBefore == [s \in Stage |-> CASE s = "input" -> <<"odd">> [] s = "tool_output" -> <<"pii">>
                               [] OTHER -> <<>>]
MCAfter == [s \in Stage |-> CASE s = "tool_output" -> <<"odd">> [] s = "tool_call" -> <<"pii">>
                              [] OTHER -> <<>>]
MCSilent == {<<r2, "asking">>}
MCText == [r \in Run |-> [s \in Stage |->
    CASE s = "input" -> IF r = r1 THEN {{"odd"}, {"odd", "override"}}
                        ELSE IF r = r2 THEN {{"odd"}} ELSE {{}, {"odd"}}
      [] s = "tool_call" -> {{"misfit"}, {"personal"}}
      [] s = "tool_output" -> {{"personal", "foreign"}, {"personal", "odd"}}
      [] OTHER -> IF r = r1 THEN {{"personal", "image"}, {"personal", "claims"}, {"hedged"}}
                  ELSE {{}}]]
MCMaxCalls == [r \in Run |-> IF r = r1 THEN 1 ELSE 0]
=============================================================================
