---------------------------- MODULE MCDiscovery ----------------------------
(* Set-ups of a process: the usual one, and others each off in a way.      *)
EXTENDS Discovery, TLC
CONSTANTS h1, h2
Usual == [signs |-> TRUE, file |-> FALSE, mirror |-> FALSE, https |-> TRUE, jwks |-> "own",
          ttl |-> Forever, auth |-> "trusted", ephemeral |-> TRUE]
\* It hands on the other origin's card; its own is unsigned.
Mirror == [Usual EXCEPT !.mirror = TRUE, !.signs = FALSE]
\* A publisher of another make: no jwks_uri, cards that expire.
Expiring == [Usual EXCEPT !.jwks = "none", !.ttl = 1, !.file = TRUE]
\* Mounted under a prefix without https; it takes RS256, and no secret of its own.
Prefixed == [Usual EXCEPT !.jwks = "prefixed", !.https = FALSE, !.auth = "RS256",
                          !.ephemeral = FALSE]
MCSetup == [p \in Process |->
    CASE p = h1 -> {Usual, Expiring}
      [] p = h2 -> {Mirror, Prefixed}
      [] p = Caller -> {[Usual EXCEPT !.ephemeral = FALSE]}
      [] p = Other -> {Usual}]
=============================================================================
