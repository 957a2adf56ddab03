SPECIFICATION Spec
CONSTANTS
  Order = 5
  Keys = {1, 2, 3, 4, 5, 6}
  Removable = {1, 2, 3}
  Slots = {s1}
  NoSlot = none
  MaxNodes = 9
  MaxRestarts = 0
INVARIANTS SearchFinds
CHECK_DEADLOCK FALSE
