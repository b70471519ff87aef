SPECIFICATION Spec
CONSTANTS
  o1 = o1
  o2 = o2
  Tick = Tick
  None = None
  Presses <- MCPresses
  Calls <- MCOnOff
INVARIANTS
  LastPressHolds
