\* Allocation and copies may fail and writers be killed. Two commands in the ring and
\* four blocks: two held, one in temp_entry, and one for krealloc to move to. Reads of
\* two bytes cross from one command to the next.
CONSTANTS
  Proc = {p1, p2}
  part = part
  short = short
  long = long
  Chunk <- MCFewChunks
  ChunkSize <- MCFewChunkSize
  EndsLine <- MCFewEndsLine
  AESDCHAR_MAX_WRITE_OPERATIONS_SUPPORTED = 2
  Ptr = {a1, a2, a3, a4}
  NULL = NULL
  Calls = {"write", "read"}
  Failures = {"memory", "user_memory", "killed"}
  MaxLine = 2
  MaxCount = 2
SPECIFICATION Spec
SYMMETRY Symmetry
INVARIANTS
  Inv
  OneOwner
PROPERTIES
  ReadsAreExact
  RingUsedAsExpected
  KeepsPromise
