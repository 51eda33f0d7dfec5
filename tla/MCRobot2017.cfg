SPECIFICATION RobotSpec
CONSTANTS
  Presses <- Pressed
  Stations <- Reported
  Sensors <- Sensing
  Sights <- Seen
  Gyros <- Gyro
  Readings <- AllReadings
  PickupTicks = 2
  FaultTicks = 2
INVARIANTS
  GearClearsBalls
PROPERTIES
  ClimbLightShows
  ShotsComeOut
  TeleopDrives
  GearRises
