SPECIFICATION Spec
CONSTANTS
  c2 = c2  c3 = c3  r1 = r1  r2 = r2  t1 = t1  t2 = t2  k1 = k1 
  Root = Root  NoRun = NoRun  Host = Host  Free = Free
  Key = {k1}
  Cont = {Root, c2, c3}
  Run = {r1, r2}
  Task = {t1, t2}
  Interleaved = FALSE
  MaxBind = 2
INVARIANTS CacheMatchesBinding FrozenInherited RunScopeHeld
SYMMETRY Alike
CHECK_DEADLOCK FALSE
