SPECIFICATION Spec
CONSTANTS
  Size = 2
  Drainers = {d1, d2}
  Samplers = {s1}
  MaxWrites = 5
  MaxResets = 0
INVARIANTS
  WindowIntact
PROPERTIES
  ImplementsLog
  SkipReportBounds
  EveryReaderCatchesUp
