SPECIFICATION FairSpec
CONSTANTS
  ready = ready
  notReady = notReady
  t1 = t1
  t2 = t2
  t3 = t3
  Nil = Nil
  Status <- MCStatus
  Timers <- MCTimers
  MinInterval = 2
INVARIANTS
  TypeOK
  PendingHasTimer
  RemoveIsFinal
  LastWins
  RateLimited
PROPERTIES
  DeferredArrives
