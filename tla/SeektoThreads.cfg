\* Two clients send well-formed commands at the same time.
CONSTANTS
  Client = {c1, c2}
  Packet <- MCPacket
  UINT32_MAX = 11
  LONG_MAX = 95
  NULL = NULL
SPECIFICATION Spec
INVARIANT EachParsesItsOwn
