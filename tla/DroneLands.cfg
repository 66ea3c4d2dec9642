SPECIFICATION HistorySpec
CONSTANTS
  Places = {"a"}
  Setpoints = {"a"}
  SleepPeriods = {}
  Programs <- MCLand
  AgeCap = 1
  Altitudes = {1, 2, 3}
  Ground = 1
  Cruise = 3
  kMinTakeoffAltitude = 2
  Modes = {"MANUAL", "AUTO.LOITER", "AUTO.TAKEOFF", "OFFBOARD", "AUTO.LAND"}
  kSpinupTime = 0
  kTakenOffWaitTime = 0
  kTriggerPeriod = 3
  Steps = {1}
  NoOutput <- NoOutputYet
  Overruns = FALSE
  CallsFail = TRUE
  Switch = {TRUE, FALSE}
  PilotFlies = TRUE
  Strays = FALSE
  Uploads = TRUE
  Outages = FALSE
  DropReports = {FALSE}
INVARIANTS
  DroneTypeOK
  LandingIsNotUndone
