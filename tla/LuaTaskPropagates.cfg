SPECIFICATION Spec
CONSTANTS
  None = None
  Root = root
  Task = {root, t1, t2}
PROPERTY JoinPropagates
CHECK_DEADLOCK FALSE
