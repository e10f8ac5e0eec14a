\* A FIFO of two periods; batches smaller and larger than it; init() may fail.
SPECIFICATION Spec
CONSTANTS
  Size = 8
  Period = 4
  MaxBatch = 9
  Cycle = 5
  InitMayFail = TRUE
  Junk = Junk
INVARIANTS
  NoOverrun
  StereoAligned
  DestroyAfterCallback
PROPERTIES
  ImplementsQueue
  TeardownEnds
