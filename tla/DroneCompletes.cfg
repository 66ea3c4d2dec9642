SPECIFICATION FairDroneSpec
CONSTANTS
  Places = {"home", "a"}
  Setpoints = {"home", "a"}
  SleepPeriods = {}
  Programs <- MCFlyAndLand
  AgeCap = 1
  Altitudes = {1, 2, 3}
  Ground = 1
  Cruise = 3
  kMinTakeoffAltitude = 2
  Modes = {"MANUAL", "AUTO.LOITER", "AUTO.TAKEOFF", "OFFBOARD", "AUTO.LAND"}
  kSpinupTime = 0
  kTakenOffWaitTime = 0
  kTriggerPeriod = 3
  Steps = {1}
  NoOutput <- NoOutputYet
  Overruns = FALSE
  CallsFail = FALSE
  Switch = {TRUE}
  PilotFlies = FALSE
  Strays = FALSE
  Uploads = FALSE
  Outages = FALSE
  DropReports = {FALSE}
PROPERTIES
  MissionCompletes
