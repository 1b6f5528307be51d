SPECIFICATION FairSpec
CONSTANTS
  Size = 3
  Data = {1, 2}
  MaxChunk = 3
  MaxBytes = 5
INVARIANTS
  TypeOK
  Accounting
  ReadsInOrder
  NoDataRace
PROPERTIES
  ImplementsFifo
  NothingStuck
