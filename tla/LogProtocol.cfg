\* A packet written at once, one in two pieces and one that asks for a place; the
\* log and a reply are longer than what is read at a time. Liveness, hence no symmetry.
CONSTANTS
  Client = {c1, c2}
  head = head
  tail = tail
  short = short
  line = line
  longline = longline
  seek = seek
  Packet <- MCPacket
  NULL = NULL
  Capacity = 2
  Chunk <- MCChunk
  Pieces <- MCPieces
  Seekto <- MCSeekto
  SendSize = 2
  Failures = {"write", "fseek", "send", "process"}
  MaxTorn = 1
SPECIFICATION Spec
INVARIANTS
  Inv
  StreamHasOneUser
PROPERTIES
  Implements
  MutexReleased
