SPECIFICATION Spec
CONSTANTS
  s1 = s1
  s2 = s2
  s3 = s3
  talker = s3
  listener = s2
  Idle = Idle
  Sessions = {s1, s2}
  Streams <- MCStreams
  Header = 2
  MaxPacket = 4
  RecvChunk = 3
  MaxQueued = 3
  SendSizes = {2}
  MaxSends = 2
INVARIANTS
  PendingKeepsAlive
  SendBufferStable
  NeverStalls
PROPERTIES
  DisconnectsOnce
