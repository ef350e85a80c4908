CONSTANTS
  Thread = {m, t1, t2}
  Main = m
  Pool = {p1, p2, p3}
  Null = Null
  Detached = FALSE
  ChunkLimit = 2
SPECIFICATION Spec
SYMMETRY Symmetry
INVARIANTS TypeOK NoUseAfterDelete ChunkGoesHome NoPoolForgotten HandlerToCome
