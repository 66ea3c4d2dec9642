SPECIFICATION DriveSpec
CONSTANTS
  ugvWaitTimeAfterCut = 3
  MaxTimers = 3
INVARIANTS
  CallingOffStopsDrive
