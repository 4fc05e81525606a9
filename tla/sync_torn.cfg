\* A crash while the journal is being written.
SPECIFICATION Spec
CONSTANTS
  Items <- MCOne
  Positions = {2, 4}
  JOURNAL_MAX = 4
  DEBOUNCE = 2
  STOP_MIN = 0
  RESUME_MIN = 1
  RESUME_GAP = 1
  Faults = {"crash", "torn"}
  Uses = {}
  MaxClock = 3
  MaxRecords = 3
INVARIANTS ProgressNotLost
CHECK_DEADLOCK FALSE
