SPECIFICATION Spec
CONSTANTS
  Threads = {t1, t2}
INVARIANTS
  NoLockout
  GoalStands
  NoRunaway
PROPERTIES
  TeleopYields
  TeleopRegains
