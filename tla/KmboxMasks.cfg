SPECIFICATION Spec
CONSTANTS
  w = w
  a = a
  Keys = {a, w}
  Movement = {a, w}
  MaxFaults = 3
  MaxChanges = 2
INVARIANTS MasksInv
