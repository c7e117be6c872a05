\* Every call that may fail for want of resources may fail. SIGINT and SIGTERM both
\* come, and their handlers may run on two threads or one inside the other. Numbers
\* for the listener, two connections, the log file and one to spare, so that closed
\* numbers are given out again.
CONSTANTS
  Client = {c1, c2}
  Fd = {0, 1, 2, 3, 4}
  Signal = {s1, s2}
  Failures = {"accept", "malloc", "pthread_create", "fopen"}
  MaxLines = 2
  NULL = NULL
SPECIFICATION Spec
SYMMETRY Symmetry
INVARIANTS
  Inv
  DescriptorsOwned
  SocketPrivate
  LogStreamIntact
  NothingLeftOpen
