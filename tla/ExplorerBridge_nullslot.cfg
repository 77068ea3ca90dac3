CONSTANTS
  MaxShows = 1
  MaxConnects = 2
  MaxPayloads = 2
  MaxUpdates = 2
  MaxSwitches = 0
SPECIFICATION Spec
CONSTRAINT Bounds
INVARIANT NoNullSlotDeref
