\* Every way to cut a noisy line into reads.
SPECIFICATION Spec
CONSTANTS
  Base = 4
  MaxPayload = 7
  MaxRead = 13
  Known = {1}
  Crc <- MCCrc
  Lines <- MCLines
INVARIANTS
  TypeOK
  PacketsAreFrames
  NothingMissed
  BufferBounded
PROPERTIES
  ReadsTheStream
CHECK_DEADLOCK FALSE
