\* One dialog, one client: a long press on the shown explorer after the
\* session thread marked the client connection-finished and before the UI
\* thread dispatched the connectionfinished message.
CONSTANTS
  MaxShows = 1
  MaxConnects = 1
  MaxPayloads = 1
  MaxUpdates = 1
  MaxSwitches = 0
SPECIFICATION Spec
CONSTRAINT Bounds
INVARIANT NoDragAtConnectionFinished
