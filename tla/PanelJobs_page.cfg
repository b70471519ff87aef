SPECIFICATION FairSpec
CONSTANTS
  on = on
  off = off
  flip = flip
  switch = switch
  toggle = toggle
  None = None
  Jobs <- MCJobs
  Controls <- MCControls
  Of <- MCOf
  Card <- MCCard
  Toggles <- MCToggles
  MaxErrors = 2
  MaxRefusals = 2
INVARIANTS
  TypeOK
  PollsAreChained
  LockKeepsWishes
PROPERTIES
  JobIsLetGo
