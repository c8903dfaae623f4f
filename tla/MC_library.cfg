\* test2.c under mylib.c against the server, with either side's port
\* variable set or not; the server has room for MaxProcs children.  test2
\* returns after its last call and the handlers end or spin, so the
\* system stops.
CONSTANTS
  Paths <- MC_Paths
  Dirs <- MC_Dirs
  InitFiles <- MC_InitFiles
  MaxFd = 7
  Calls <- Test2Calls
  ClientEnvs <- MC_Envs
  ServerEnvs <- MC_Envs
  NoEnv = NoEnv
  MaxProcs = 3
  HeaderCuts = {2}
  GarbageBytes = {0, 200}
  StackRoom <- MC_StackRoom
SPECIFICATION Spec
PROPERTY AppNotBlocked
CHECK_DEADLOCK FALSE
