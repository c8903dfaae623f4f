--------------------------- MODULE MC_ReplyFrame ---------------------------
(* Model-checking instance of ReplyFrame: one file, one directory.         *)
EXTENDS ReplyFrame

MC_Paths == {"f", "d"}
MC_Dirs  == {"d"}
MC_InitFiles == {"f"}
MC_BadFds == {-10}
\* All nine operations.
AllOps == {OpNames[i] : i \in 1..9}
=============================================================================
