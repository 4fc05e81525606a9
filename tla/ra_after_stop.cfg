SPECIFICATION Spec
CONSTANTS
  PAGES = 2
  SENTENCES = 2
  SCENARIOS <- MCStop
  MAX_FAULTS = 0
PROPERTIES StopIsFinal
CHECK_DEADLOCK FALSE
