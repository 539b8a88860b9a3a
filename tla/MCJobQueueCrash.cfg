\* serve is killed, stopped and started again at any point, and its calls fail.
SPECIFICATION Spec
CONSTANTS
  Jobs <- AJobs
  Batches = {"a", "b"}
  ShaBatches = {"a", "b"}
  Resources = {"r"}
  BatchOf <- ABatchOf
  Needs <- ANeeds
  Uses <- AUses
  Limit <- ALimit
  Undecodable = {}
  Prepared = {3}
  Foreign = {}
  MaxWorkers = 2
  Events = {"crash", "stop", "client", "setup", "checkout", "logWorktree", "start", "record", "remove", "finish", "unpin", "kill", "tail", "submit", "cancel"}
  MaxEvents = 3
INVARIANTS
  TypeOK
  LeasesWithinLimits
  RunningIsEntitled
  NeededIsPinned
  WorktreesTracked
  NoRecordedOrphan
PROPERTIES
  VerdictStands
  ClaimsInOrder
  StartupIsClean
  QueueImplemented
\* An idle serve takes no step until someone submits.
CHECK_DEADLOCK FALSE
