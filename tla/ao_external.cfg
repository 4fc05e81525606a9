\* External streams: announce, seek, pause, resume at a position, decode.
SPECIFICATION Spec
CONSTANTS
  MAX_QUEUE = 2
  FEED_CHUNK = 2
  SILENCE_CHUNK = 1
  FEED_LEAD_MS = 2
  AUDIBLE_TAIL_SLACK_MS = 1
  DONE_TOLERANCE = 1
  PipeCap = 2
  MAX_RETRIES = 1
  Durations = {1}
  Gaps = {0}
  Rates = {1}
  Positions = {0, 2}
  Totals = {3}
  Cmds <- MCBook
  Faults = {}
  MaxClips = 0
  Horizon = 4
  MaxLag = 1
  MaxIntake = 4
INVARIANTS DoneMeansReached
