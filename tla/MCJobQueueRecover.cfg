\* Recoveries meet workers that are still alive, and jobs that cannot run.
SPECIFICATION Spec
CONSTANTS
  Jobs <- CJobs
  Batches = {"a", "b", "c"}
  ShaBatches = {"a"}
  Resources = {"r"}
  BatchOf <- CBatchOf
  Needs <- CNeeds
  Uses <- CUses
  Limit <- CLimit
  Undecodable = {4}
  Prepared = {1}
  Foreign = {2}
  MaxWorkers = 2
  Events = {"recover", "stop", "client", "cancel", "finish", "lease"}
  MaxEvents = 3
INVARIANTS
  ActiveIsPinned
  WorktreesTracked
  FinishAccounts
PROPERTIES
  TickSparesActive
\* An idle serve takes no step until someone submits.
CHECK_DEADLOCK FALSE
