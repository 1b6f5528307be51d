SPECIFICATION Spec
CONSTANTS
  MaximumDlci = 2
  Dlci = {0, 1, 3}
  MaxNesting = 2
  MaxWire = 2
  MaxAsked = 2
  MaxServer = 1
INVARIANTS
  TypeOK
  AnsweredOnce
  NoFault
  OnStopOncePerStop
