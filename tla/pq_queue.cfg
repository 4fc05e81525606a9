\* Single-core and multi-core devices, one server, one stop or death.
SPECIFICATION LiveSpec
CONSTANTS
  Texts = {t1, t2}
  Watched = {t1}
  Cores = {1, 2}
  OneServer = TRUE
  Faults = {"die", "split"}
  Files <- MCFiles
  MaxResets = 1
INVARIANTS TypeOK SlotsHaveOwners FinalizeIsForProcesses PendingIsOwned
PROPERTIES PendingResolves QueuedIsLaunched
