SPECIFICATION Spec
CONSTANTS
  Size = 2
  Drainers = {r1}
  Samplers = {r1}
  MaxWrites = 4
  MaxResets = 0
PROPERTIES
  LastMarksPreviousRead
