SPECIFICATION Spec
CONSTANTS
  MaximumDlci = 1
  Dlci = {0, 1}
  MaxNesting = 1
  MaxWire = 2
  MaxAsked = 2
  MaxServer = 1
INVARIANTS
  NoFault
