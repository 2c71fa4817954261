SPECIFICATION Spec
CONSTANTS
  Threads = {t1, t2}
  Starters = {t1, t2}
  Spaces = {s}
  NPages = 3
  Frames = {f1, f2}
  File = file
  Shifts = {0}
  Prots = {"r", "rw"}
  Around = 2
  TablesFail = FALSE
  Calls = {"mmap", "file", "munmap", "mprotect", "discard", "mremap"}
SYMMETRY Symmetry
INVARIANTS FramesExact PageRight
CHECK_DEADLOCK FALSE
