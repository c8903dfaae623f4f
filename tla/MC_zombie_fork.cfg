\* Two sessions one after the other, one process slot: the exited first handler is never reaped.
CONSTANTS
  Paths <- MC_Paths
  Dirs <- MC_Dirs
  InitFiles <- MC_InitFiles
  BadFds <- MC_BadFds
  MaxFd = 7
  Clients = {c1, c2}
  Ops <- StatOnly
  MaxReq = 1
  MaxProcs = 1
  HeaderSplits = {}
  ClientCrashes = {}
  GarbageIds = {1, 9}
  GarbageLens = {0, 64}
SPECIFICATION Spec
INVARIANT ForkFailsOnlyWhenBusy
