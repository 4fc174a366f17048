SPECIFICATION Spec
CONSTANTS
  Views = {v1, v2}
  MaxNodes = 3
  Admins = {a1}
  Movers = {a1}
  BufferSize = 1
  MaxTreeDepth = 2
  NoView = NoView
SYMMETRY ViewSymmetry
INVARIANTS  QuietIndex CascadeComplete
