SPECIFICATION Spec
CONSTANTS
  Requests <- McRequests
INVARIANTS
  TypeOK
  ServiceFits
  LengthSurvives
  HeardAsAsked
  Agreement
