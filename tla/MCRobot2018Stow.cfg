SPECIFICATION MatchSpec
CONSTANTS
  Presses <- Drills
  Selections <- Selected
  Layouts <- Announced
  Sensors <- Sensed
  GodStep = 40
  Readings <- AllSensed
  Offset <- Stow
  LiftConstraints <- LiftQuarter
  WristConstraints <- WristQuarter
  MaxSwerves = 2
  PinchTicks = 2
  FaultTicks = 2
PROPERTIES
  StowAfterCalibrating
