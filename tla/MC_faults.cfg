\* Clients that die between frames or in the middle of a payload, requests
\* with an unknown op id, more connections than process slots.  A handler
\* whose client died mid-payload spins in receiveAll for ever and the
\* listener may have died, so a state without successor is expected.
CONSTANTS
  Paths <- MC_Paths
  Dirs <- MC_Dirs
  InitFiles <- MC_InitFiles
  BadFds <- MC_BadFds
  MaxFd = 7
  Clients = {c1, c2}
  Ops <- CrashNameOps
  MaxReq = 2
  MaxProcs = 1
  HeaderSplits = {}
  ClientCrashes = {"between", "inPayload"}
  GarbageIds = {1, 9}
  GarbageLens = {0, 64}
SPECIFICATION Spec
PROPERTY RefinesRemoteFS
CHECK_DEADLOCK FALSE
SYMMETRY ClientSymmetry
