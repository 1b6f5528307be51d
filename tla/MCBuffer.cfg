SPECIFICATION FairSpec
CONSTANTS
  Size = 14
  Headers = {1, 2}
  PayloadLen <- MCPayloadLen
  Payload <- MCPayload
  Noise <- FlagNoise
  MaxChunk = 7
  MaxWire = 7
INVARIANTS
  TypeOK
  NothingLost
  InOrder
PROPERTIES
  DeafForGood
  DispatchesUnlessDeaf
