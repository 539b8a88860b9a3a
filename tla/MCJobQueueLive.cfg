\* Every job ends, through crashes and bitci recover.
SPECIFICATION FairSpec
CONSTANTS
  Jobs <- AJobs
  Batches = {"a", "b"}
  ShaBatches = {"a"}
  Resources = {"r"}
  BatchOf <- ABatchOf
  Needs <- ANeeds
  Uses <- AUses
  Limit <- ALimit
  Undecodable = {}
  Prepared = {}
  Foreign = {}
  MaxWorkers = 2
  Events = {"crash", "recover"}
  MaxEvents = 2
PROPERTIES
  EveryJobEnds
  RunningEnds
\* An idle serve takes no step until someone submits.
CHECK_DEADLOCK FALSE
