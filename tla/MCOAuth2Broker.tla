--------------------------- MODULE MCOAuth2Broker ---------------------------
(* Two calls for one user and one for a user without a token of his own.   *)
EXTENDS OAuth2Broker
CONSTANTS alice, bob, t1, t2, t3
MCUser == [t \in Task |-> IF t = t3 THEN bob ELSE alice]
=============================================================================
