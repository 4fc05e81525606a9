SPECIFICATION Spec
CONSTANTS
  PAGES = 2
  SENTENCES = 2
  SCENARIOS <- MCAll
  MAX_FAULTS = 1
INVARIANTS TypeOK SilentWhenStopped InTurn OneVoice OneDriver PausedIsQuiet
PROPERTIES StopIsFinal ReadingSettles
CHECK_DEADLOCK FALSE
