SPECIFICATION Spec
CONSTANTS
  Infos <- MCInfos
  Memory = {0}
  Stale = {0, 249}
  Damages <- MCDamages
  Fcs <- Crc
  MaxPiece = 2
  Cells = 140
INVARIANTS TypeOK NeverEarly ShortRoundTrip DamageRejected FcsIsRemainder FitsAllocation
