CONSTANTS
  Thread = {t1, t2}
  Node = {0, 1, 2}
  Null = Null
  MaxTag = 3
  Builds = {TRUE}
  ChunkCount = 2
  MinCount = 1
  MaxChunk = 2
SPECIFICATION PoolSpec
INVARIANT InReservation
