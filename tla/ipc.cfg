SPECIFICATION Spec
CONSTANTS
  MaxProcs = 3
  Cpus = {c1, c2}
  MaxCreations = 4
  ExitsMax = 1
  Syscalls = {"create", "send", "recv", "reply", "wait", "exit"}
SYMMETRY CpuSymmetry
INVARIANTS PartnerAlive RendezvousMet WaiterHasChild
