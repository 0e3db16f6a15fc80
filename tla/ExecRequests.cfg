SPECIFICATION AllSpec
\* A task that is not in a call need not start one, and a task that failed and
\* was handed out all the same can never be destroyed: its parents hang.
CHECK_DEADLOCK FALSE
CONSTANTS
  Parent = {a, b}
  Child = {d, e}
  None = None
  Task = {a, b, c}
  Provider = {c}
  Instance = {x, y}
  IntVersion = 2
  HostVersion = 1
  MaxVersion = 2
  MaxHandles = 2
INVARIANTS TagsOutlive NoDanglingTask TasksAreCounted RefsAreHandles OpenedIsLoaded AllOrNothing
PROPERTY RequestsReturn
