\* Three entries, so that the ring wraps several times; a fourth address lets a
\* full ring receive a command it does not hold.
CONSTANTS
  AESDCHAR_MAX_WRITE_OPERATIONS_SUPPORTED = 3
  Ptr = {p1, p2, p3, p4}
  NULL = NULL
  Sizes = {1, 2}
SPECIFICATION Spec
INVARIANTS
  IInv
  FposFindsByte
  AbsoluteOffsetInvertsFpos
  EOFIsTotalSize
PROPERTY Implements
