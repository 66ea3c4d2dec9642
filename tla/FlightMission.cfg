SPECIFICATION TimedSpec
CONSTANTS
  Places = {"a", "b"}
  SleepPeriods = {1, 2}
  Programs <- MCPrograms
  AgeCap = 3
  Altitudes = {1, 2, 3}
  kMinTakeoffAltitude = 2
  Modes = {"AUTO.LOITER", "OFFBOARD"}
  kSpinupTime = 0
  kTakenOffWaitTime = 0
  kTriggerPeriod = 3
  Steps = {1}
INVARIANTS
  CommandedLandSticks
  ExecutesLoadedCommand
PROPERTIES
  SleepsFullPeriod
