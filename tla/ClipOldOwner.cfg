CONSTANTS
  c1 = c1
  c2 = c2
  Client = {c1}
  Primary = Primary
  MaxCopies = 2
  MaxSwitches = 1
  Habits <- InBackground
SPECIFICATION Spec
INVARIANTS OwnerSends
CHECK_DEADLOCK FALSE
