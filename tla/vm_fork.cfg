SPECIFICATION Spec
CONSTANTS
  Threads = {t1, t2, t3}
  Starters = {t1}
  Spaces = {s1, s2, s3}
  NPages = 2
  Frames = {f1, f2, f3}
  File = file
  Shifts = {0}
  Prots = {"rw"}
  Around = 2
  TablesFail = FALSE
  Calls = {"mmap", "munmap", "fork"}
SYMMETRY ForkSymmetry
INVARIANTS CowIsolated
CHECK_DEADLOCK FALSE
