\* Three requests in one handler process, all nine operations, with byte
\* counts 0 and 3 and a 9-byte tree.  The process ends after its last
\* request (or when getdirentries kills it), so a state without successor
\* is expected.
CONSTANTS
  Paths <- MC_Paths
  Dirs <- MC_Dirs
  InitFiles <- MC_InitFiles
  BadFds <- MC_BadFds
  MaxFd = 7
  Ops <- AllOps
  MaxCalls = 3
  Counts = {0, 3}
  TreeLens = {9}
SPECIFICATION Spec
INVARIANT ReplyAsSpecified
CHECK_DEADLOCK FALSE
