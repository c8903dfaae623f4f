---------------------------- MODULE MC_RPCServer ----------------------------
(* Model-checking instance of RPCServer: two paths, one a directory.       *)
EXTENDS RPCServer

MC_Paths == {"f", "d"}
MC_Dirs  == {"d"}
MC_InitFiles == {"f"}
\* A descriptor value the client never obtained from open (test2.c uses -10).
MC_BadFds == {-10}
AllOps == {OpNames[i] : i \in 1..9}
\* Everything but getdirentries, whose failure path kills the handler.
NoDirentOps == AllOps \ {"getdirentries"}
\* The descriptor life cycle: open, use, close.
FdOpsOnly == {"open", "close", "read"}
\* Operations on descriptors, and operations on paths.
DescOps == {"open", "close", "write", "read", "lseek", "getdirentries"}
NameOps == {"open", "stat", "unlink", "getdirtree"}
\* Every operation whose failure path still replies.
ReplyingOps == {"open", "close", "read", "stat", "getdirtree"}
\* Two short requests for the runs that inject faults.
FaultOps == {"close", "stat"}
\* Requests that change the shared filesystem, and one with an op id no
\* handler has, for the run in which clients die.
CrashOps == {"open", "unlink", Unknown}
CrashNameOps == CrashOps \cup {"stat", "getdirtree"}
\* Single operations for the runs that expose one behaviour each.
StatOnly == {"stat"}
DirentOnly == {"getdirentries"}
\* Sessions are interchangeable.
ClientSymmetry == Permutations(Clients)
=============================================================================
