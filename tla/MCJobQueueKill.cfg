\* bitci recover meets a recorded process group that still runs.
SPECIFICATION Spec
CONSTANTS
  Jobs <- AJobs
  Batches = {"a", "b"}
  ShaBatches = {"a"}
  Resources = {"r"}
  BatchOf <- ABatchOf
  Needs <- ANeeds
  Uses <- AUses
  Limit <- ALimit
  Undecodable = {}
  Prepared = {}
  Foreign = {}
  MaxWorkers = 2
  Events = {"recover"}
  MaxEvents = 1
PROPERTIES
  RecoveryNeverKills
\* An idle serve takes no step until someone submits.
CHECK_DEADLOCK FALSE
