\* getdirentries on a descriptor the client never opened (spec scenario 4, test2.c).
CONSTANTS
  Paths <- MC_Paths
  Dirs <- MC_Dirs
  InitFiles <- MC_InitFiles
  BadFds <- MC_BadFds
  MaxFd = 7
  Clients = {c1}
  Ops <- DirentOnly
  MaxReq = 1
  MaxProcs = 1
  HeaderSplits = {}
  ClientCrashes = {}
  GarbageIds = {1, 9}
  GarbageLens = {0, 64}
SPECIFICATION Spec
INVARIANT NoRequestDropped
