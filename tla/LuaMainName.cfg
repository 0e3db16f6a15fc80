SPECIFICATION Spec
CONSTANTS
  None = None
  Root = root
  Task = {root, t1}
  Name = {main, n}
  Main = main
  Receiver = {t1}
  MaxQueue = 1
INVARIANT MainIsNamed
CHECK_DEADLOCK FALSE
