\* Two sessions, one request each, every handler replying: every request is answered and every closed session ends.
CONSTANTS
  Paths <- MC_Paths
  Dirs <- MC_Dirs
  InitFiles <- MC_InitFiles
  BadFds <- MC_BadFds
  MaxFd = 7
  Clients = {c1, c2}
  Ops <- ReplyingOps
  MaxReq = 1
  MaxProcs = 2
  HeaderSplits = {}
  ClientCrashes = {}
  GarbageIds = {9}
  GarbageLens = {0}
SPECIFICATION Spec
PROPERTY RequestAnswered
PROPERTY SessionTerminates
