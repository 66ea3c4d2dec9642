SPECIFICATION HistorySpec
CONSTANTS
  Places = {"a"}
  Setpoints = {"a"}
  SleepPeriods = {}
  Programs = {}
  AgeCap = 1
  Altitudes = {1, 2, 3}
  Ground = 1
  Cruise = 3
  kMinTakeoffAltitude = 2
  Modes = {"MANUAL", "AUTO.LOITER", "AUTO.TAKEOFF", "OFFBOARD", "AUTO.LAND"}
  kSpinupTime = 0
  kTakenOffWaitTime = 0
  kTriggerPeriod = 3
  Steps = {1}
  NoOutput <- NoOutputYet
  Overruns = TRUE
  CallsFail = FALSE
  Switch = {TRUE, FALSE}
  PilotFlies = FALSE
  Strays = TRUE
  Uploads = FALSE
  Outages = TRUE
  DropReports = {FALSE}
INVARIANTS
  OneTakeoffPerAttempt
  AtMostTwoLateRequests
