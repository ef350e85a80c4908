CONSTANTS
  Thread = {t1, t2, t3}
  Chunk = {c1, c2}
  Slots = 2
  Null = Null
  Junk = Junk
  Width = 3
  Programs <- Disciplined
SPECIFICATION Spec
SYMMETRY Symmetry
INVARIANTS TypeOK NoDoubleHandOut LiveChunkKept AllocatedAddsUp CarvedOnce
PROPERTIES LeakReportIsTrue UsesSupply
