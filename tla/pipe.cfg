SPECIFICATION FairSpec
CONSTANTS
  Procs = {p1, p2, p3}
  Pipes = {a}
  Cap = 1
  PendingMax = 2
  Keys <- MCKeys
INVARIANTS NoLostWakeup RefsExact
PROPERTY SleeperWakes
CHECK_DEADLOCK FALSE
