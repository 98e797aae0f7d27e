CONSTANTS
  ByteRange = 16
  R = 10
  F = 11
  Command = 0
  Response = 1
  Notification = 2
  TagUpload = 8
  OfflineTagUpload = 9
  TlvEpc = 1
  TlvRssi = 5
  TlvStatus = 7
  TlvTag = 3
  NoRssi = NoRssi
  Address = 0
  AutoStart = TRUE
  StartInventory = 4
  StopInventory = 6
  Held <- HeldTags
  ChunkSize = 12
  Noise <- NoiseBytes
  Faults <- AllFaults
  MaxFaults = 1
  MaxFrames = 2
  MaxStarts = 2
SPECIFICATION GatewaySpec
INVARIANTS
  GatewayTypeOK
  TagsAsSent
  BufferHoldsOneFrame
CHECK_DEADLOCK FALSE
