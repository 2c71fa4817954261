SPECIFICATION MCSpec
CONSTANTS
  Procs = {p1, p2}
  MaxObjs = 2
  Frames = {f1, f2}
  MaxFds = 2
  Names = {n}
  Programs <- MCPrograms
  Talkers = {p1, p2}
  Conns = {a}
  Listeners = {l}
  Cap = 1
  Backlog = 1
  PendingMax = 3
  MmapEnd = 4
  MaxVmas = 3
  Prots = {r, w}
  MapObjs = {o}
  Inos = {i}
  Offsets = {0}
  FAN = 2
  Machines <- MCMachines
  QSIZE = 2
  W = 4
  Pids = {1, 2}
  NoPid = 0
  Buses <- MCBuses
  CHUNK = 2
  Sizes = {3}
  MaxBytes = 6
  MINW = 2
  MINH = 2
  SURF_W = 4
  SURF_H = 4
  MAXPIX = 8
  Modes <- MCModes
  Default <- MCDefault
  Rects <- MCRects
  Wishes <- MCWishes
  HostFails = FALSE
SYMMETRY Symmetry
INVARIANTS ObjectRefs  UnixWakes TableExact TablesRight DevicesRight
CHECK_DEADLOCK FALSE
