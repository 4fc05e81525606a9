\* Three releases, any two accidents, and a connection that drops, a server that cuts replies short.
SPECIFICATION FairSpec
CONSTANTS
  Size <- MCSize
  Stale = {2}
  Tools = {"unzip", "none"}
  MAX_RETRIES = 2
  MAX_TOTAL = 3
  Faults = {"crash", "junk", "space", "backup", "unpack", "unzip", "copy", "restore", "pin"}
  MAX_FAULTS = 2
INVARIANTS TypeOK OneRelease CopyKept
PROPERTIES UpdateIsAtomic DownloadEnds EventuallyCurrent
CHECK_DEADLOCK FALSE
