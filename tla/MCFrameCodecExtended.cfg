SPECIFICATION Spec
CONSTANTS
  Infos <- LongInfos
  Memory = {0}
  Stale = {0}
  Damages <- MCDamages
  Fcs <- Crc
  MaxPiece = 2
  Cells = 140
INVARIANTS RoundTrip
