SPECIFICATION FairSpec
CONSTANTS
  s1 = s1
  s2 = s2
  s3 = s3
  talker = s1
  listener = s2
  Idle = Idle
  Sessions = {s1}
  Streams <- MCStreams
  Header = 2
  MaxPacket = 4
  RecvChunk = 3
  MaxQueued = 3
  SendSizes = {1, 2}
  MaxSends = 3
INVARIANTS
  StreamIntact
PROPERTIES
  ClosedIsDestroyed
