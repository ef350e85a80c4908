CONSTANTS
  Thread = {t1, t2}
  Chunk = {c1, c2}
  Slots = 2
  Null = Null
  Junk = Junk
  Width = 3
  Programs <- Greedy
SPECIFICATION Spec
SYMMETRY Symmetry
INVARIANT NoNullWrite
