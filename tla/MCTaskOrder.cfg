\* Every small configuration is validated and asked for every small order.
SPECIFICATION Spec
CONSTANTS
  Names <- MCNames
  NeedLists <- UpToTwo
  Requests <- UpToTwo
INVARIANTS
  NeedsFirst
  EachOnce
  AnswerIsWanted
  CyclesAreRefused
  ValidIsOrderable
\* A configuration that is refused is not used.
CHECK_DEADLOCK FALSE
