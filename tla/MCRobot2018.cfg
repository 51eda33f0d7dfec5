SPECIFICATION MatchSpec
CONSTANTS
  Presses <- Drills
  Selections <- Selected
  Layouts <- Announced
  Sensors <- Sensed
  GodStep = 40
  Readings <- AllSensed
  Offset <- Stow
  LiftConstraints <- LiftSecond
  WristConstraints <- WristSecond
  MaxSwerves = 0
  PinchTicks = 2
  FaultTicks = 2
INVARIANTS
  StallEnds
PROPERTIES
  ScoresInPosture
  AutonomousLetsGo
  WaitForCubeEnds
