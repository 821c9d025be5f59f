SPECIFICATION FairSpec
CONSTANTS
  alice = alice  bob = bob  t1 = t1  t2 = t2  t3 = t3
  NoCred = NoCred  NoTask = NoTask  Shared = Shared
  Principal = {alice, bob}
  Task = {t1, t2, t3}
  User <- MCUser
  Rotating = TRUE
  MaxCred = 2
INVARIANTS UserSlotsIsolated GrantsSerialised
PROPERTIES ImplementsSingleFlight CallsEnd
CHECK_DEADLOCK FALSE
