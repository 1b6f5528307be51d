SPECIFICATION Spec
CONSTANTS
  Size = 128
  Headers = {1}
  PayloadLen <- MCPayloadLen
  Payload <- MCPayload
  Noise <- NoNoise
  MaxChunk = 12
  MaxWire = 12
INVARIANTS
  AllDispatched
