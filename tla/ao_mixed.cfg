\* Clip and external clients on one daemon, with pipeline errors.
SPECIFICATION Spec
CONSTANTS
  MAX_QUEUE = 2
  FEED_CHUNK = 1
  SILENCE_CHUNK = 1
  FEED_LEAD_MS = 2
  AUDIBLE_TAIL_SLACK_MS = 1
  DONE_TOLERANCE = 0
  PipeCap = 1
  MAX_RETRIES = 1
  Durations = {1}
  Gaps = {0}
  Rates = {1, 2}
  Positions = {0}
  Totals = {2}
  Cmds <- MCShared
  Faults = {"build", "read", "bus"}
  MaxClips = 2
  Horizon = 2
  MaxLag = 1
  MaxIntake = 1
INVARIANTS QueueIsUnheard
