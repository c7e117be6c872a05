\* The standard descriptors, the socket, /dev/null and one to spare.
CONSTANT Fd = {0, 1, 2, 3, 4, 5}
SPECIFICATION Spec
INVARIANTS
  Inv
  Listening
  DaemonDetached
