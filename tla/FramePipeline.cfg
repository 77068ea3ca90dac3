CONSTANTS
  MaxFrames = 5
  AlertImages = 4
  SafeImages = 1
  AlertBacklog = 2
  EncoderDepth = 2
  Orientations = {0, 1}
  StoreReorder = FALSE
SPECIFICATION Spec
INVARIANT TypeOK
PROPERTY PauseRequestApplied
