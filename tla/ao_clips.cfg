\* Clip mode on one pipeline: queueing, feeding, pausing, completing.
SPECIFICATION Spec
CONSTANTS
  MAX_QUEUE = 2
  FEED_CHUNK = 2
  SILENCE_CHUNK = 1
  FEED_LEAD_MS = 2
  AUDIBLE_TAIL_SLACK_MS = 1
  DONE_TOLERANCE = 0
  PipeCap = 2
  MAX_RETRIES = 1
  Durations = {2}
  Gaps = {0, 1}
  Rates = {1}
  Positions = {0}
  Totals = {3}
  Cmds <- MCSession
  Faults = {}
  MaxClips = 2
  Horizon = 5
  MaxLag = 1
  MaxIntake = 6
INVARIANTS TypeOK CursorSplitsQueue
PROPERTIES ClipPositionNeverRewinds PauseAndResumeKeepPosition ImplementsPlaylist
