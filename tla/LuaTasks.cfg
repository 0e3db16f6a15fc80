SPECIFICATION AllSpec
\* The main program ends; and a task may wait for a message for ever.
CHECK_DEADLOCK FALSE
CONSTANTS
  None = None
  Root = root
  Task = {root, t1, t2}
  Name = {main, n}
  Main = main
  Receiver = {t1}
  MaxQueue = 1
  MaxIds = 3
  Delay = {1}
  MaxLag = 1
  MaxHorizon = 2
  MaxNumbers = 6
INVARIANTS ParentOutlives NamesAreAlive NoLostMessage IntervalsAreKept
PROPERTIES OnlyFinishedIsFreed CallsReturn
