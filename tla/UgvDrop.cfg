SPECIFICATION FairDropSpec
CONSTANTS
  kWaitTimeBeforeUnlatch = 0
  kWaitTimeAfterUnlatch = 1
  kMaxHotwireTime = 1
INVARIANTS
  DropTypeOK
  HotwireBounded
  MotorAfterUnlatch
  CancelStops
PROPERTIES
  CutEnds
  ResetRelatches
