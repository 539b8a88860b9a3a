SPECIFICATION Spec
CONSTANTS
  Commits = {a, b}
  NoCommit = NoCommit
  Broken = {b}
  Stagers = {p}
  Submitters = {u, v}
  InServe = {v}
  Operators = {c,d}
  Nobody = Nobody
  Events = {"stage", "kill", "move", "push", "submit", "operator"}
  MaxEvents = 1
SYMMETRY Symmetry
INVARIANTS
  TypeOK
  StagedIsCheckedOut
  LoadedHasPlist
PROPERTIES
  CheckoutWaitsForJobs
  FailedStagingRestores
  QuietSubmitAgrees
  
CHECK_DEADLOCK FALSE
