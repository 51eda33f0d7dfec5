SPECIFICATION SeasonSpec
CONSTANTS
  Paths = {"left", "right", "straight"}
  Length = 3
  Near = 2
  Presses <- ArmAndIntake
  Routines = {"left_switch", "right_switch", "drive_straight", "none", "nothing"}
  Drills <- DriveAndClimb
  Forwards = 3
  Backwards = 2
  Field = 1
INVARIANT
  BacksOffFromPeg
PROPERTIES
  LeftScoresNear
  RoutineEnds
  ArmArrives
  ClimbEases
