SPECIFICATION Spec
CONSTANTS
  Threads = {g1, g2}
  Contexts = {c1, c2}
  Root = root
  None = none
INVARIANTS
  AllShareRoot
  RealGlIsReal
  CallsLandInLastAsked
  SwapsReachTheWindow
