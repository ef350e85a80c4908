CONSTANTS
  Sizes <- MCSizes
  None = None
  L1CacheAlignSize = 8
  DefaultAlignSize = 2
  MaxPayload = 32
  ChunkSize = 48
  PoolHeader = 2
  Header = 4
  Fence = 2
  Requests = {0, 3, 8, 32, 33}
  Null = Null
  ChunkLimit = 2
  LiveLimit = 3
SPECIFICATION LayoutSpec
INVARIANTS LayoutTypeOK HeaderAndFencesKept ContentsKept FreeGoesHome PooledAligned TableIsBestFit WritesInTable
