SPECIFICATION Spec
CHECK_DEADLOCK FALSE
CONSTANTS
  Task = {a, b, c}
  MaxNest = 2
  None = None
  Garbage = Garbage
INVARIANT MutualExclusion
