SPECIFICATION AllSpec
\* Without a request a server waits for ever, and a task need not make one.
CHECK_DEADLOCK FALSE
CONSTANTS
  Task = {a, b, c}
  MaxNest = 2
  None = None
  Garbage = Garbage
  PortTask = {a, b}
  Client = {a, b}
  Server = {b}
  Msg = {m, n}
  Owner = {a}
  Returner = {r, s}
  SigNum = {1, 2, 3}
  PortMem = {p, q}
INVARIANTS
  NoLostWakeup SignalsAreOwned PortOutlivesSignal ExclusionInTime
  AtomIsConsistent
PROPERTIES
  SendReturnsAnswer ImplementsMessaging CallsReturn
