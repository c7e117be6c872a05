\* Two threads execute up to three commands; three threads want the mutex.
CONSTANTS
  Caller = {c1, c2}
  Pid = {p1, p2, p3}
  Failures = {"open", "fork", "dup2", "execv", "wait"}
  Thread = {t1, t2, t3}
  NULL = NULL
SPECIFICATION ExamplesSpec
SYMMETRY Symmetry
INVARIANTS
  ResultIsOwn
  NoChildLeft
  HeldUntilUnlocked
