\* Three sheets, two calls at a time, room for two errors, two database errors.
CONSTANTS
  Absent = Absent
  Sheets = {1, 2, 3}
  CallCap = 2
  MaxErrors = 2
  MaxFaults = 2
  Limit = 40
  Margin = 2
  Floor = 3
  Prompt = 2
  Sizes = {1, 3, 9, 15, 22}
  Categories = {"ghost"}
SPECIFICATION Spec
INVARIANTS EverySheetAnswered PayloadFits WorstAreKept
CHECK_DEADLOCK FALSE
