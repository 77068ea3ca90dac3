CONSTANTS
  t1 = t1
  t2 = t2
  Threads <- MCThreadsOne
  IdMax = 3
  MaxSetups = 6
  NBufs = 1
SPECIFICATION Spec
INVARIANT TypeOK
INVARIANT RegistryMatchesHandles
INVARIANT CacheOnlyWhileStarted
INVARIANT AppBuffersMatchCodec
PROPERTY ConfigureKeepsFormat
PROPERTY SetupReturns
CHECK_DEADLOCK FALSE
