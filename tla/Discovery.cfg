\* One caller, one origin with up to two processes, caches of age 1 and 2.
SPECIFICATION FairDiscoverySpec
CONSTANTS
  h1 = h1  h2 = h2
  Home = {h1, h2}
  Other = Other  Caller = Caller  Down = Down
  Setup <- MCSetup
  Secret = {s1}
  NoSecret = NoSecret
  CardAge = 1
  JwksAge = 2
  MaxTTL = 1
  MaxStarts = 5
INVARIANT DiscoveryTypeOK
PROPERTIES AcceptedIsVouched PeersMeet
CHECK_DEADLOCK FALSE
