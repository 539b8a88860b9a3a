\* Two clients retry through one serve.
SPECIFICATION Spec
CONSTANTS
  Tasks = {"build", "test"}
  Ordered <- MCOrdered
  MaxRetries <- MCMaxRetries
  Retriers = {"p", "q"}
  ProcessOf <- InServe
  MaxRows = 5
INVARIANTS
  RerunsWithinLimit
  OneAttemptPending
  AttemptsFollow
  HistoryIsComplete
\* The table is full, everything has its verdict.
CHECK_DEADLOCK FALSE
