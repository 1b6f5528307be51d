SPECIFICATION MessageSpec
CONSTANTS
  Size = 128
  Headers = {1}
  PayloadLen <- MCPayloadLen
  Payload <- MCPayload
  Noise <- NoNoise
  MaxChunk = 6
  MaxWire = 6
INVARIANTS
  AllDispatched
