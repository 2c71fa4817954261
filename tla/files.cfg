SPECIFICATION Spec
CONSTANTS
  Threads = {"t", "u"}
  Procs = {"p", "q"}
  Leaders <- MCLeaders
  First = "p"
  MaxFds = 3
  Console = {0}
  MaxObjs = 1
  Names = {"n"}
  Ports = {"k"}
  Handles = {"h"}
  Cap = 2
  ATTQ = 2
  MSGQ = 2
  BACKLOG = 1
  EventMax = 2
  EPOLL_MAX = 2
  Sent = {0, 1}
  Programs <- MCPrograms
INVARIANTS RefsExact NoneLeftBehind NoEventLost
CHECK_DEADLOCK FALSE
