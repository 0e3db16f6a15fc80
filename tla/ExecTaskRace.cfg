SPECIFICATION Spec
CONSTANTS
  Parent = {p, q}
  Child = {c, d}
  None = None
INVARIANT HandleIsAlive
