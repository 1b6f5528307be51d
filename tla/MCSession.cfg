SPECIFICATION FairSpec
CONSTANTS
  MaximumDlci = 3
  Dlci = {0, 1, 2}
  MaxNesting = 2
  MaxWire = 2
  MaxFaults = 1
  MaxRestarts = 1
INVARIANTS
  OneOutstanding
PROPERTIES
  ServerDataWhenOpen
  ClientDataWhenOpen
  ImplementsTerminal
  CallbackComes
