SPECIFICATION FairSpec
CONSTANTS
  MaxProcs = 3
  Cpus = {c1, c2}
  MaxCreations = 3
  ExitsMax = 1
  Syscalls = {"create", "yield", "sleep"}
PROPERTIES ReadyRuns TimedWaitEnds
