SPECIFICATION FairSpec
CONSTANTS
  MaximumDlci = 2
  Dlci = {0, 1}
  MaxNesting = 1
  MaxWire = 2
  MaxAsked = 2
  MaxServer = 1
PROPERTIES
  ServerCloseConfirmed
