\* A log write fails between the checkout and the command.
SPECIFICATION Spec
CONSTANTS
  Jobs <- AJobs
  Batches = {"a", "b"}
  ShaBatches = {"a"}
  Resources = {"r"}
  BatchOf <- ABatchOf
  Needs <- ANeeds
  Uses <- AUses
  Limit <- ALimit
  Undecodable = {}
  Prepared = {}
  Foreign = {}
  MaxWorkers = 2
  Events = {"logTested"}
  MaxEvents = 1
INVARIANTS
  WorktreesTracked
\* An idle serve takes no step until someone submits.
CHECK_DEADLOCK FALSE
