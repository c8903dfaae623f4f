\* The client dies after writing part of a frame: receiveAll spins on recv() = 0.
CONSTANTS
  Paths <- MC_Paths
  Dirs <- MC_Dirs
  InitFiles <- MC_InitFiles
  BadFds <- MC_BadFds
  MaxFd = 7
  Clients = {c1}
  Ops <- StatOnly
  MaxReq = 1
  MaxProcs = 1
  HeaderSplits = {}
  ClientCrashes = {"between", "inHeader", "inPayload"}
  GarbageIds = {1, 9}
  GarbageLens = {0, 64}
SPECIFICATION Spec
PROPERTY SessionTerminates
