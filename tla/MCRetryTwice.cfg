\* Two processes retry the same job.
SPECIFICATION Spec
CONSTANTS
  Tasks = {"build", "test"}
  Ordered <- MCOrdered
  MaxRetries <- MCMaxRetries
  Retriers = {"p", "q"}
  ProcessOf <- InClients
  MaxRows = 6
INVARIANTS
  RerunsWithinLimit
\* The table is full, everything has its verdict.
CHECK_DEADLOCK FALSE
