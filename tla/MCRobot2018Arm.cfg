SPECIFICATION MatchSpec
CONSTANTS
  Presses <- Moves
  Selections <- NoRoutine
  Layouts <- Announced
  Sensors <- Powered
  GodStep = 40
  Readings <- AllSensed
  Offset <- Stow
  LiftConstraints <- LiftQuarter
  WristConstraints <- WristQuarter
  MaxSwerves = 2
  PinchTicks = 2
  FaultTicks = 2
INVARIANTS
  PatientGoalsClear
PROPERTIES
  StaysHighForWrist
