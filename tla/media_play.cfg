SPECIFICATION FairSpec
CONSTANTS
  PARTS = 3
  LEN = 2
  SCENARIOS <- MCAll
  MAX_FAULTS = 4
INVARIANTS TypeOK PlayingIsAlive PausedIsQuiet SilentWhenStopped PlaceKept
PROPERTIES AdvanceIsNext SavedIsPlace PlaybackEnds
CHECK_DEADLOCK FALSE
