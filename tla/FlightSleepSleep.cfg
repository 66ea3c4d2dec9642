SPECIFICATION TimedSpec
CONSTANTS
  Places = {"a"}
  SleepPeriods = {1, 2}
  Programs <- MCWaypointWait
  AgeCap = 3
  Altitudes = {1, 2, 3}
  kMinTakeoffAltitude = 2
  Modes = {"AUTO.LOITER", "OFFBOARD"}
  kSpinupTime = 0
  kTakenOffWaitTime = 0
  kTriggerPeriod = 3
  Steps = {1}
PROPERTIES
  SleepsFullPeriod
