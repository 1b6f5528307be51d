SPECIFICATION Spec
CONSTANTS
  Requests <- McRequests
INVARIANTS
  TimerHeardAsAsked
