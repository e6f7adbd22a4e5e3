SPECIFICATION Spec
CONSTANTS
  None = None
  Spreads <- MCSpreads
  Boxes <- MCBoxes
  SpreadOf <- MCSpreadOf
  Named <- MCNamed
  Book <- MCBook
  Voices <- MCVoices
  TextboxCap = 2
  ChunkCap = 2
  MaxJobs = 2
  MaxEdits = 1
  Edited = {1, 3}
  Texts <- MCTexts
  Alignments <- MCAlignments
INVARIANTS TypeOK StaleOnlyAfterFailure FailedNarrationIsRetried DoneIsStored TimingsInOrder
CHECK_DEADLOCK FALSE
