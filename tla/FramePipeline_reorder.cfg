CONSTANTS
  MaxFrames = 6
  AlertImages = 4
  SafeImages = 1
  AlertBacklog = 2
  EncoderDepth = 2
  Orientations = {0}
  StoreReorder = TRUE
SPECIFICATION Spec
PROPERTY PauseRequestApplied
