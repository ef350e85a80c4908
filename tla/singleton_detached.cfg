CONSTANTS
  Thread = {m, t1}
  Main = m
  Pool = {p1, p2}
  Null = Null
  Detached = TRUE
  ChunkLimit = 2
SPECIFICATION Spec
SYMMETRY Symmetry
INVARIANT DeinitSafe
