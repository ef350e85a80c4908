CONSTANTS
  Thread = {t1, t2}
  Node = {0, 1}
  Null = Null
  MaxTag = 6
  Builds = {TRUE, FALSE}
  ChunkCount = 1
  MinCount = 1
  MaxChunk = 1
SPECIFICATION PoolSpec
SYMMETRY Symmetry
INVARIANTS PoolTypeOK AssertGuardsRange CountersAgree Exclusive ChunksAccountedFor CountIsSnapshot
PROPERTY ImplementsSupply
