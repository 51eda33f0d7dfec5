SPECIFICATION LibrarySpec
CONSTANTS
  MagnetPosition = 7
  Near = 3
  Far = 9
  Step = 2
  Slack = 1
  Positions <- Travel
  Rates <- StillAndTurning
  Zero = 1
  Limit = 3
  CalibCycles = 2
  MaxSamples = 5
  Queues = {"goal", "status"}
  Types <- MessageTypes
  Sent <- Messages
  Texts = 1
  Size = 1
  Media <- StickThenHome
  Boots = 2
  Drives <- AllDrives
  Overshoot = 1
  Speed = 2
  Field = 1
  Heights = {0, 1, 2}
  Closed = {0, 1}
  Outputs <- TwoOutputs
  DriveOutputs <- DriveKinds
  Holds <- ClimbAndPickup
  Cubes <- CubesMeanwhile
  RumbleTicks = 2
  FlashTicks = 4
  Fast = 1
  Slow = 2
INVARIANTS
  CalibratedIsAccurate
  FullPassCalibrates
  DriftFromLongestStill
  FilesAreTables
PROPERTIES
  LogsReachDisk
  DriveEnds
  ArrivesAboveSwitch
  EverythingEnds
