SPECIFICATION LibSpec
CONSTANTS
  Align = 2
  Span = 8
  None = None
  Room = {1, 2, 3}
  Static = 4
  Size = {1, 3, 5}
  MemSize = {1, 3}
  PoolFlags = {{"auto"}, {"lowfrag"}}
  FixedSize = 8
  PudSize = {4}
  ThresSize = {4}
  Others = 1
  MaxPudSize = 6
  Base = Base
  Msg = Msg
  List = {l1, l2}
  Node = {n1, n2, n3}
  Unnamed = {n1, n2}
  Second = 2
  SecondsPerDay = 3
  Bits = 8
  BufLen = 5
  MaxBody = 7
  MaxPad = 4
  IntBits = 7
SYMMETRY Symmetry
INVARIANTS HostMemoryIsOwned PuddlesAreSound PoolServes TagsAndDatesAgree
  ArgumentsAgree
PROPERTIES ImplementsHeap ImplementsNodeList
CHECK_DEADLOCK FALSE
