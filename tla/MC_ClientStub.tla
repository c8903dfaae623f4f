---------------------------- MODULE MC_ClientStub ----------------------------
(* Model-checking instance of ClientStub: test2.c run under mylib.c.       *)
EXTENDS ClientStub

MC_Paths == {"localFile", "songs"}
MC_Dirs == {}
MC_InitFiles == {"localFile"}

\* main() of test2.c: each call with the descriptor it passes (fd2 is the
\* result of the second call).
Test2Calls ==
  << [req |-> Req("open", "localFile", NoFd, FALSE), fdFrom |-> 0],
     [req |-> Req("open", "songs", NoFd, FALSE), fdFrom |-> 0],
     [req |-> Req("read", NoPath, NoFd, FALSE), fdFrom |-> 2],
     [req |-> Req("close", NoPath, NoFd, FALSE), fdFrom |-> 2],
     [req |-> Req("close", NoPath, 1321, FALSE), fdFrom |-> 0],
     [req |-> Req("lseek", NoPath, 1321, FALSE), fdFrom |-> 0],
     [req |-> Req("stat", "localFile", NoFd, FALSE), fdFrom |-> 0],
     [req |-> Req("unlink", "localFile", NoFd, FALSE), fdFrom |-> 0],
     [req |-> Req("getdirentries", NoPath, -10, FALSE), fdFrom |-> 0] >>

\* serverport15440 unset, or set to the course port, on either side.
MC_Envs == {NoEnv, 15440}
\* 8 MiB of stack.
MC_StackRoom == 8388608
=============================================================================
