SPECIFICATION FairSpec
CONSTANTS
  Mode = "auto"
  Cooldown = 2
  ProbeUpEvery = 2
  Patience = 2
  Nets <- MCNets
  NoPass = NoPass
  Nil = Nil
PROPERTIES
  EachPassComplete
