CONSTANTS
  NConns = 2
  MaxLive = 2
  HandshakeTimeout = 3
  CaptureTimeout = 4
  RttPeriod = 2
  DriftThreshold = 3
  TickMod = 16
  TickStart = 0
  SeqMod = 4
  InitSeq = 0
  Horizon = 10
  MaxStall = 1
  MaxLatency = 1
SPECIFICATION Spec
CONSTRAINT TimeBound
INVARIANT CaptureTimeoutOnlyBeforeCapture
