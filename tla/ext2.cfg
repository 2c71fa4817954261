SPECIFICATION MCSpec
CONSTANTS
  MaxInode = 4
  MaxBlocks = 4
  PerBlock = 3
  Names = {x, y}
  Hash <- MCHash
  MaxFds = 2
  MaxOrphans = 2
  Programs <- MCPrograms
  LastBlock = 3
  Spare = {1}
  SETS = 1
  WAYS = 2
  DirtyMax = 2
  MAX_SEGS = 2
  Inodes = {0, 1}
  Direct = 1
  PPB = 2
  LEVELS = 2
  GROUPS = 2
  BPG = 2
  MaxSize <- MCMaxSize
SYMMETRY Symmetry
INVARIANTS InodesRight OpenKept NamesRight CacheRight MapRight
CHECK_DEADLOCK FALSE
