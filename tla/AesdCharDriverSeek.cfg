\* One process uses the device, like the server, which serialises its accesses.
CONSTANTS
  Proc = {p1}
  part = part
  short = short
  long = long
  Chunk <- MCLines
  ChunkSize <- MCLineSize
  EndsLine <- MCLines
  AESDCHAR_MAX_WRITE_OPERATIONS_SUPPORTED = 3
  Ptr = {a1, a2, a3, a4}
  NULL = NULL
  Calls = {"write", "read", "seek"}
  Failures = {}
  MaxLine = 1
  MaxCount = 2
SPECIFICATION Spec
PROPERTY SeektoFindsCommand
