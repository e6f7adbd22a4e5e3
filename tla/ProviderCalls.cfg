\* One slot as in the code, one create at a time, two attempts, tiles included.
CONSTANTS
  u1 = u1
  r1 = r1
  Upscales = {u1}
  RemoveBgs = {r1}
  Inflight = 1
  CreateCap = 1
  Attempts = 2
  TileAttempts = 2
  Sizes <- MCSizes
  PixelCap = 12
  Overlap = 1
  MaxTiles = 3
  MaxCalls = 2
SPECIFICATION Spec
INVARIANTS TypeOK SlotsConserved OneRowPerPrediction ResultsKeepTheirRows TilesCoverImage
PROPERTIES EveryCallEnds
CHECK_DEADLOCK FALSE
