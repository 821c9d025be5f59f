\* Two hosts open and close the AgentRef for two calls; another client loads the peer.
SPECIFICATION Spec
CONSTANTS
  Call = {c1, c2}
  Host = {h1, h2}
  c1 = c1  c2 = c2
  h1 = h1  h2 = h2
  caller = caller  other = other
  Client = {caller, other}
  Here = caller
  Tag = {"UNTRUSTED"}
  MaxHits = 1
  Window = 1
  MaxKeys = 1
  MaxTime = 2
  MaxServed = 3
  Skew = 0
  TTL = 2
  MaxOpen = 2
SYMMETRY MCSymmetry
INVARIANTS WindowRespected AnswersAreTrue ClientsReturned
CHECK_DEADLOCK FALSE
