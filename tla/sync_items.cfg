\* Two items in one batch, and a server that answers some time.
SPECIFICATION FairSpec
CONSTANTS
  Items <- MCTwo
  Positions = {2, 4}
  JOURNAL_MAX = 4
  DEBOUNCE = 2
  STOP_MIN = 2
  RESUME_MIN = 1
  RESUME_GAP = 1
  Faults = {}
  Uses = {}
  MaxClock = 3
  MaxRecords = 2
PROPERTIES EventuallyDelivered
CHECK_DEADLOCK FALSE
