SPECIFICATION SyncFairSpec
\* a sends, b serves and sends to itself, c sends nothing.  They may all wait
\* for a message; the properties below show that no other call hangs.
CHECK_DEADLOCK FALSE
CONSTANTS
  Task = {a, b, c}
  Client = {a, b}
  Server = {b}
  Msg = {m}
  MaxNest = 2
  None = None
INVARIANTS
  InsideOwns
  WaiterIsServed
  SingleIsQuiet
PROPERTIES
  HandOverInOrder
  CallsReturn
  ImplementsMutex
