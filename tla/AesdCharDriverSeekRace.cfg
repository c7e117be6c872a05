\* Another process writes between the two searches of a seek.
CONSTANTS
  Proc = {p1, p2}
  part = part
  short = short
  long = long
  Chunk <- MCLines
  ChunkSize <- MCLineSize
  EndsLine <- MCLines
  AESDCHAR_MAX_WRITE_OPERATIONS_SUPPORTED = 2
  Ptr = {a1, a2, a3}
  NULL = NULL
  Calls = {"write", "seek"}
  Failures = {}
  MaxLine = 1
  MaxCount = 2
SPECIFICATION Spec
SYMMETRY Symmetry
PROPERTY SeektoFindsCommand
