SPECIFICATION ArmAndDriverSpec
CONSTANTS
  Commands <- MotionCommands
  Presses <- Drills
  Sensors <- Sensed
  Sights <- AllSights
  Readings <- AllReadings
  Garbage <- Cleared
  StowTicks = 1
  ScoreTicks = 1
  OuttakeTicks = 1
  PickupTicks = 1
  EjectTicks = 1
  CrawlerTicks = 2
  ElevatorTravel = 100
  WristTravel = 820
INVARIANTS
  ArcOnlyWhenLow
  CrawlersSafe
PROPERTIES
  KeepsPassage
  GoalReached
  HatchReleasedOnRequest
  IntakeEnds
  BrakeWins
