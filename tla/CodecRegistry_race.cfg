CONSTANTS
  t1 = t1
  t2 = t2
  Threads <- MCThreadsTwo
  IdMax = 3
  MaxSetups = 2
  NBufs = 1
SPECIFICATION Spec
INVARIANT RegistryMatchesHandles
CHECK_DEADLOCK FALSE
