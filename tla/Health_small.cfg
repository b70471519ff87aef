SPECIFICATION Spec
CONSTANTS
  Fails = 2
  ConfirmSuccesses = 2
  ProveEvery = 2
  CheckEvery = 4
  Doubt = 6
  Never = Never
  MaxPathAge = 9
INVARIANTS
  TypeOK
  DeadIsConfirmed
  BlackHoleIsFound
  GoodPathIsProven
PROPERTIES
  ProvenIsEarned
  ImplementsSessionHealth
