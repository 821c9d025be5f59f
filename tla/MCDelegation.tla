---------------------------- MODULE MCDelegation ----------------------------
(* lead delegates to a helper that delegates to itself, and to a worker    *)
(* whose cascade escalates to an expert that delegates back to the worker. *)
EXTENDS Delegation
CONSTANTS lead, helper, worker, expert, read, send

MCDelegates == [a \in Agent |->
    IF a = lead THEN {helper, worker} ELSE IF a = helper THEN {helper}
    ELSE IF a = expert THEN {worker} ELSE {}]
MCTools == [a \in Agent |-> IF a = worker THEN {read, send} ELSE IF a = expert THEN {send} ELSE {}]
MCDeclared == [a \in Agent |-> IF a = lead THEN {read} ELSE {read, send}]
MCMaxDepth == [a \in Agent |-> IF a = lead THEN 2 ELSE IF a = helper THEN 3 ELSE 1]
MCEscalation == [a \in Cascading |-> expert]
MCTurnNodes == <<5, 3>>
MCTwo == [a \in Cascading |-> 2]
MCOne == [a \in Cascading |-> 1]
=============================================================================
