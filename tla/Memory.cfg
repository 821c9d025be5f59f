\* Every operation in every call, cancelled or not, with crashes.
SPECIFICATION FairSpec
CONSTANTS
  Call = {c1, c2, c3}
  Id = {i1}
  User = {ann, bob}
  c1 = c1  c2 = c2  c3 = c3
  i1 = i1
  ann = ann  bob = bob
  Owner <- MCOwner
  Active <- MCActive
  Nobody = Nobody
INVARIANTS WritesInOrder AnswersDurable UpdateCreatesNothing
PROPERTIES CallsEnd
CHECK_DEADLOCK FALSE
