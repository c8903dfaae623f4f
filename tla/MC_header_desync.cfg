\* One recv() returns only the first 4 header bytes: the handler loses frame alignment.
CONSTANTS
  Paths <- MC_Paths
  Dirs <- MC_Dirs
  InitFiles <- MC_InitFiles
  BadFds <- MC_BadFds
  MaxFd = 7
  Clients = {c1}
  Ops <- FaultOps
  MaxReq = 2
  MaxProcs = 1
  HeaderSplits = {4}
  ClientCrashes = {}
  GarbageIds = {1, 9}
  GarbageLens = {0, 64}
SPECIFICATION Spec
INVARIANT ReplyMatchesRequest
