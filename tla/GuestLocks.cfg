SPECIFICATION Spec
CONSTANTS
  Threads = {t1, t2}
  Mutexes = {m1}
  Conds = {c1}
  Entries = {e1, e2, e3}
  None = none
  MaxDepth = 2
INVARIANTS
  MutualExclusion
  LocksInv
  WaitersReachable
PROPERTY LookupsEnd
