SPECIFICATION Spec
CONSTANTS
  p1 = p1
  p2 = p2
  p3 = p3
  p4 = p4
  None = None
  Torn = Torn
  Absent = Absent
  Procs <- MCFour
  MayDie <- MCNobody
  ByCLI <- MCNobody
  Reacquires <- MCNobody
  TornWrites = FALSE
  MayAge = FALSE
INVARIANTS
  Exclusive
CHECK_DEADLOCK FALSE
