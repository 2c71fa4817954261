SPECIFICATION Spec
CONSTANTS
  Threads = {leader, other}
  Leader = leader
  Sigs = {1, 2}
  Ignored = {}
  Actions <- MCActions
  Masks = {{}, {1, 2}}
  SuspendMasks = {{}}
  Programs <- MCPrograms
INVARIANTS MaskRestored PollWhole FutexWoken
PROPERTY SignalTaken
CHECK_DEADLOCK FALSE
