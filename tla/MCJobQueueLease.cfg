\* A crash between the verdict of a job and the return of its leases.
SPECIFICATION Spec
CONSTANTS
  Jobs <- AJobs
  Batches = {"a", "b"}
  ShaBatches = {"a"}
  Resources = {"r"}
  BatchOf <- ABatchOf
  Needs <- ANeeds
  Uses <- AUses
  Limit <- ALimit
  Undecodable = {}
  Prepared = {}
  Foreign = {}
  MaxWorkers = 2
  Events = {"crash"}
  MaxEvents = 1
INVARIANTS
  TerminalJobsHoldNoLease
\* An idle serve takes no step until someone submits.
CHECK_DEADLOCK FALSE
