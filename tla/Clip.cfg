CONSTANTS
  c1 = c1
  c2 = c2
  Client = {c1, c2}
  Primary = Primary
  MaxCopies = 2
  MaxSwitches = 3
  Habits <- AtTheScreen
SPECIFICATION Spec
SYMMETRY Symmetric
INVARIANTS SeqOrdersVisits OwnerSends CleanIsCurrent PatientUserServed
CHECK_DEADLOCK FALSE
