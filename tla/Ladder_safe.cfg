SPECIFICATION FailingSpec
CONSTANTS
  N = 5
  Cooldown = 8
  NoPass = NoPass
INVARIANTS
  TypeOK
  PassCompleteUnlessReturned
  CooldownHeld
PROPERTIES
  EveryStepComesUp
