SPECIFICATION Spec
CONSTANTS
  Writers = {1}
  MaxSaves = 2
  MaxFaults = 1
  MaxHand = 1
CHECK_DEADLOCK FALSE
INVARIANTS
  ChoiceStands
