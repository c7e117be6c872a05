\* 2, 15 and 32 for 1024, 32762 and 65536: as there, the memory doubles to just
\* over the maximum, and would wrap if doubled again. Texts have numbers up to 99999;
\* 11 stands for 2^32 - 1, 5 for 2^31 - 1 and 95 for 2^63 - 1.
CONSTANTS
  SOCKET_BUFFER_SIZE = 2
  MAX_PACKET_SIZE = 15
  UintLimit = 32
  UINT32_MAX = 11
  LONG_MAX64 = 95
  LONG_MAX32 = 5
  MaxText = 5
  NULL = NULL
SPECIFICATION MCSpec
INVARIANTS
  Inv
  ParserMatchesGrammar
  NarrowLongRefusesAll
PROPERTY StoresInside
