SPECIFICATION Spec
CONSTANTS
  KeyA = A
  Right = right
  Guide = guide
  Buttons = {A, right}
  Triggers = {l2}
  Raw = {0, 2}
  Deadzone = 1
  MaxDevices = 2
  Slots = 2
INVARIANTS
  ControllerInv
PROPERTIES
  PulseEnds
  ControllerFound
  KeepsController
CHECK_DEADLOCK FALSE
