SPECIFICATION Spec
CONSTANTS
  Frames <- MCFrames
  Samples <- MCSamples
  Drop = 10
  Reset = 25
  Timeout = 2
  StageCap = 1
  MaxSamples = 2
INVARIANTS
  SignalsTypeOK
  ObservationNeedsDrop
  OneFlipPerWindow
  LongWindowNeverBuys
PROPERTY
  WindowsClose
