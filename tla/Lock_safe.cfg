SPECIFICATION FairSpec
CONSTANTS
  p1 = p1
  p2 = p2
  p3 = p3
  p4 = p4
  None = None
  Torn = Torn
  Absent = Absent
  Procs <- MCThree
  MayDie <- MCTwo
  ByCLI <- MCOne
  Reacquires <- MCOne
  TornWrites = FALSE
  MayAge = TRUE
INVARIANTS
  MutualExclusion
  HolderIsNamed
  OnlyDeadAreReaped
PROPERTIES
  AskingIsAnswered
CHECK_DEADLOCK FALSE
