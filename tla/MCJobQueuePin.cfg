\* A batch finishes in a scan that also claims a job of another batch.
SPECIFICATION FairSpec
CONSTANTS
  Jobs <- AJobs
  Batches = {"a", "b"}
  ShaBatches = {"a"}
  Resources = {"r"}
  BatchOf <- ABatchOf
  Needs <- ANeeds
  Uses <- AUses
  Limit <- ALimit
  Undecodable = {}
  Prepared = {}
  Foreign = {}
  MaxWorkers = 2
  Events = {}
  MaxEvents = 0
PROPERTIES
  FinishedIsUnpinned
\* An idle serve takes no step until someone submits.
CHECK_DEADLOCK FALSE
