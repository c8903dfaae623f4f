\* Two sessions using descriptors: open, read, write, lseek, getdirentries, close.
CONSTANTS
  Paths <- MC_Paths
  Dirs <- MC_Dirs
  InitFiles <- MC_InitFiles
  BadFds <- MC_BadFds
  MaxFd = 7
  Clients = {c1, c2}
  Ops <- DescOps
  MaxReq = 2
  MaxProcs = 2
  HeaderSplits = {}
  ClientCrashes = {}
  GarbageIds = {9}
  GarbageLens = {0}
SPECIFICATION Spec
INVARIANT ReplyMatchesRequest
INVARIANT FdViewMatches
INVARIANT ConnectionReleased
PROPERTY RefinesRemoteFS
SYMMETRY ClientSymmetry
