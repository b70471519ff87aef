SPECIFICATION BuilderSpec
CONSTANTS
  DefaultPort = 2
  MaxPort = 3
  EarlyWG = 3
  HostsPerNet = 2
  NoHost = NoHost
  Nil = Nil
  Networks <- MCNetworks
  Builtin <- MCBuiltin
  Inputs <- MCInputs
INVARIANTS
  LadderIsSound
  LadderIsOrdered
  StartHonoured
CHECK_DEADLOCK FALSE
