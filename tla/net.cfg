SPECIFICATION FairNetSpec
CONSTANTS
  W = 16
  RXCAP = 3
  TXCAP = 2
  Mss = 1
  MAX_RETRIES = 1
  Windows = {0, 2}
  MaxWire = 2
  Loads <- MCLoads
  UDP_Q = 2
  Ports = {a, b}
  MaxArrivals = 4
INVARIANTS NeverStuck OldestFirst
PROPERTIES Answered OutboundStream InboundStream
CHECK_DEADLOCK FALSE
