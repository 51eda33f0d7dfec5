SPECIFICATION Spec
CONSTANTS
  Commands <- FirstCommands
  Readings <- ClimbReadings
  Garbage <- Uninitialised
  StowTicks = 2
  ScoreTicks = 2
  OuttakeTicks = 2
  PickupTicks = 1
  EjectTicks = 2
  CrawlerTicks = 2
INVARIANTS
  SetpointWasSet
