SPECIFICATION TimedSpec
CONSTANTS
  Places = {"a"}
  SleepPeriods = {}
  Programs <- MCLandPrograms
  AgeCap = 4
  Altitudes = {1, 2, 3}
  kMinTakeoffAltitude = 2
  Modes = {"AUTO.LOITER", "OFFBOARD"}
  kSpinupTime = 3
  kTakenOffWaitTime = 2
  kTriggerPeriod = 3
  Steps = {1, 2}
INVARIANTS
  TypeOK
  TakeoffAfterSpinup
  OnlyLandsWithoutRun
PROPERTIES
  MissionAfterHover
  ImplementsPhases
