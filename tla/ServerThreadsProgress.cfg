\* Liveness, hence no symmetry. Nothing fails for want of resources.
CONSTANTS
  Client = {c1, c2}
  Fd = {0, 1, 2, 3, 4}
  Signal = {s1}
  Failures = {}
  MaxLines = 1
  NULL = NULL
SPECIFICATION FairSpec
INVARIANT CleanStop
PROPERTIES
  CompletedIsJoined
  QuiescentShutdown
