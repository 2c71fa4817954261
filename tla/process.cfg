SPECIFICATION Spec
CONSTANTS
  MaxProcs = 3
  Cpus = {c1, c2}
  MaxCreations = 4
  ExitsMax = 1
  Syscalls = {"thread", "vfork", "exec", "exit", "kill", "exit_group", "fault"}
SYMMETRY CpuSymmetry
INVARIANTS RunningOnOneCpu SpaceExact OwnerSuspended
