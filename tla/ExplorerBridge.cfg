CONSTANTS
  MaxShows = 2
  MaxConnects = 2
  MaxPayloads = 3
  MaxUpdates = 3
  MaxSwitches = 2
SPECIFICATION Spec
CONSTRAINT Bounds
INVARIANT TypeOK ExplorerShownToPeer
