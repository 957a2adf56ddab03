SPECIFICATION Spec
CONSTANTS
  Order = 3
  Keys = {1, 2, 3, 4, 5, 6}
  Removable = {2, 5}
  Slots = {s1, s2}
  NoSlot = none
  MaxNodes = 6
  MaxRestarts = 1
INVARIANTS UsableIsRight Separated Balanced
CHECK_DEADLOCK FALSE
