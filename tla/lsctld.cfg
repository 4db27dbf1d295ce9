\* Two starts of the daemon, two clients.
CONSTANTS
  c1 = c1  c2 = c2  NULL = NULL
  Daemons = {1, 2}  Clients = {c1, c2}  Cmdline = {c1}
  Size <- Sizes  Output <- Outputs
  BUF_SIZE = 2  CMD_SIZE = 2  BUFSIZE = 1  SockCap = 2  ChanCap = 2  StdioCap = 2
SPECIFICATION FairSpec
INVARIANTS ScriptFits OutputIsOwn UpIsReachable
PROPERTY EveryClientEnds
CHECK_DEADLOCK FALSE
