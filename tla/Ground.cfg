SPECIFICATION Spec
CONSTANTS
  MaxAttempts = 2
  MaxPosts = 1
  Browsers = {u1, u2}
  FieldKnown = {FALSE}
  UploadEdits = 1
  UploadOrders = 2
  UploadQueue = 1
  PilotModes = {"AUTO.LOITER", "OFFBOARD"}
  FakeFrames = 2
  PanelQueue = 3
  FileFrames = 1
  MostRecorded = 1
  MostReplays = 2
  Servers = {"localhost:8081", "192.168.1.10:8081"}
  DefaultServer = "localhost:8081"
  MaxTransmitted = 2
  Images = {"A", "B"}
  Entries = {"shape"}
  EditorPositions = {"p"}
  EditorAltitudes = {50}
  WaypointHeight = 250
  HomeHeight = 150
  CommandsAtOnce = 2
  CommandsEver = 2
  FewCommandsAtOnce = 1
  MoreCommandsEver = 3
  DriveWait = 3
  DriveTimers = 3
  OrdersWait = 1
  OrdersTimers = 1
  DialogsLeft = 1
  StationMissions = {"m1"}
  BrowserQueue = 2
  AppTimers = 1
  PlanIds = {"c1", "c2", "c3"}
  PlanPlaces = {"home", "area", "field"}
  OriginPlace = "origin"
  HomePlace = "home"
  AreaPlace = "area"
  \* their bits differ on both sides of every border between digits
  MissionBytes = {0, 1, 3, 90, 165, 192, 255}
  MissionLength = 4
  NumberedPoints = {"waypoint"}
  NamedPoints = {"home"}
  AreaObject = "search area"
  MapLocations = {"L", "M"}
  PlanOnMap = 2
  FewMapLocations = {"L"}
  LongPlanOnMap = 3
  PathPositions = {"P", "Q"}
  PathCommands = 3
  StrayLines = 1
  DronePlaces = {0, 1, 2, 3, 4, 5, 6, 7}
  FieldCenter = 3
  PathStep = 1
  PathJump = 4
  FollowMargin = 2
  PathPoints = 2
  DrawnPlaces = {"p", "q"}
  ObstacleRadii = {"r", "s"}
  MostObstacles = 2
  MostDroneCommands = 2
  MostPoints = 1
  FieldLongitudes = {1, 2}
  FieldLatitudes = {3, 5}
  ZoneCorners = 3
  MostZones = 2
  VisionClients = {1, 2}
  ImagesAuctioned = 2
  RecordsAtOnce = 1
  Agreeing = {u1}
  SharedPlan = 2
  SharedEdits = 2
  PageChanges = 1
  Nowhere = Nowhere
  Absent = Absent
INVARIANTS
  GroundTypeOK
  InteropAgrees
  UploadAsShown
  TelemetryAsShown
  OrdersReachTheServerShown
  MarkersAreCompiled
  FieldAsShown
  SubmitsTheSelected
  DrivesUnlessCalledOff
  PlansAgree
  
  
  
  ImagesAreServed
PROPERTIES
  OnlyTheShownIsSent
  NothingIsLost
