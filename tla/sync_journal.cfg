\* One item and a short journal: restarts, manual syncs, another device.
SPECIFICATION Spec
CONSTANTS
  Items <- MCOne
  Positions = {2, 4}
  JOURNAL_MAX = 2
  DEBOUNCE = 2
  STOP_MIN = 0
  RESUME_MIN = 1
  RESUME_GAP = 1
  Faults = {"crash"}
  Uses = {"manual", "device"}
  MaxClock = 3
  MaxRecords = 3
INVARIANTS TypeOK ProgressNotLost
PROPERTIES DeliveriesInOrder
CHECK_DEADLOCK FALSE
