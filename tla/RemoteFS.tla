------------------------------ MODULE RemoteFS ------------------------------
(***************************************************************************)
(* What the RPC server promises its clients (spec.md 1-3): each session is *)
(* a private process that runs the client's calls one at a time, each     *)
(* atomically and exactly once, on the shared filesystem, and answers     *)
(* each with the result and errno the local call gave.  The process's     *)
(* descriptor table holds stdio and the session socket besides the files  *)
(* the client opened, so descriptor numbers are those a local process     *)
(* with that table would get.  The server may instead end a session       *)
(* without answering (the handler dies, or the op id is unknown: spec     *)
(* 4.3); the client then sees the connection close.  A client may die,    *)
(* after a request or while writing one: a request it wrote whole is run  *)
(* at most once, its answer lost; one it did not finish is never run.     *)
(* No framing, forking or byte streams appear here.                       *)
(***************************************************************************)
EXTENDS FileOps, Sequences, SequencesExt, TLC

CONSTANTS Clients, InitFiles, Ops, BadFds, MaxReq

VARIABLES
  fs,      \* the regular files
  files,   \* files[c]: descriptor -> object, the files session c opened
  errno,   \* errno of session c's process
  up,      \* session c's server side still runs
  cpc,     \* the client: "init", "ready", "waiting", "closed"
  reqs,    \* the requests client c has sent
  replies, \* answers not yet read by client c
  pending  \* client c's last request is whole and has not been run

avars == <<fs, files, errno, up, cpc, reqs, replies, pending>>

NoFiles == [f \in {} |-> Tty]
\* The rest of a session process's table: stdio and the session socket.
Reserved(c) == (0 :> Tty) @@ (1 :> Tty) @@ (2 :> Tty) @@ (4 :> Sock(c))

Requests(fds) ==
     {Req("open", p, NoFd, b) : p \in Paths, b \in BOOLEAN}
  \cup {Req(o, NoPath, f, FALSE) : o \in {"close", "write", "read", "lseek", "getdirentries"},
                                   f \in fds}
  \cup {Req(o, p, NoFd, FALSE) : o \in {"stat", "unlink", "getdirtree"}, p \in Paths}
  \cup {Req(Unknown, NoPath, NoFd, FALSE)}

\* The entries of a table that name a file or directory a client opened.
Objects == {FileObj(p, w) : p \in Paths, w \in BOOLEAN} \cup {DirObj(p) : p \in Dirs}
Opened(tbl) == Restrict(tbl, {f \in DOMAIN tbl : tbl[f] \in Objects})

Init ==
  /\ fs = InitFiles
  /\ files = [c \in Clients |-> NoFiles]
  /\ errno = [c \in Clients |-> 0]
  /\ up = [c \in Clients |-> TRUE]
  /\ cpc = [c \in Clients |-> "init"]
  /\ reqs = [c \in Clients |-> <<>>]
  /\ replies = [c \in Clients |-> <<>>]
  /\ pending = [c \in Clients |-> FALSE]

Connect(c) ==
  /\ cpc[c] = "init"
  /\ cpc' = [cpc EXCEPT ![c] = "ready"]
  /\ UNCHANGED <<fs, files, errno, up, reqs, replies, pending>>

Call(c) ==
  /\ cpc[c] = "ready" /\ Len(reqs[c]) < MaxReq
  /\ \E r \in Requests(DOMAIN files[c] \cup BadFds) :
       r.op \in Ops /\ reqs' = [reqs EXCEPT ![c] = Append(@, r)]
  /\ pending' = [pending EXCEPT ![c] = TRUE]
  /\ cpc' = [cpc EXCEPT ![c] = "waiting"]
  /\ UNCHANGED <<fs, files, errno, up, replies>>

\* The session's process runs the pending call in one step; the answer of
\* a client that has died is lost.
Serve(c) ==
  /\ up[c] /\ pending[c] /\ Last(reqs[c]).op # Unknown
  /\ pending' = [pending EXCEPT ![c] = FALSE]
  /\ LET r   == Last(reqs[c])
         out == Exec(r, fs, Reserved(c) @@ files[c], errno[c])
     IN /\ fs' = out.fs
        /\ errno' = [errno EXCEPT ![c] = out.errno]
        /\ IF out.crash
           THEN /\ up' = [up EXCEPT ![c] = FALSE]
                /\ files' = [files EXCEPT ![c] = NoFiles]
                /\ UNCHANGED replies
           ELSE /\ files' = [files EXCEPT ![c] = Opened(out.tbl)]
                /\ replies' = IF cpc[c] = "closed" THEN replies
                              ELSE [replies EXCEPT ![c] =
                                      Append(@, [req |-> r, res |-> out.res, err |-> out.errno])]
                /\ UNCHANGED up
  /\ UNCHANGED <<cpc, reqs>>

\* A request with an unknown op id ends the session without an answer.
Reject(c) ==
  /\ up[c] /\ pending[c] /\ Last(reqs[c]).op = Unknown
  /\ pending' = [pending EXCEPT ![c] = FALSE]
  /\ up' = [up EXCEPT ![c] = FALSE]
  /\ files' = [files EXCEPT ![c] = NoFiles]
  /\ UNCHANGED <<fs, errno, cpc, reqs, replies>>

Receive(c) ==
  /\ cpc[c] = "waiting" /\ replies[c] # <<>>
  /\ replies' = [replies EXCEPT ![c] = Tail(@)]
  /\ cpc' = [cpc EXCEPT ![c] = "ready"]
  /\ UNCHANGED <<fs, files, errno, up, reqs, pending>>

\* The connection closes under a client that waits for an answer.
Hangup(c) ==
  /\ cpc[c] = "waiting" /\ replies[c] = <<>> /\ ~up[c]
  /\ cpc' = [cpc EXCEPT ![c] = "closed"]
  /\ UNCHANGED <<fs, files, errno, up, reqs, replies, pending>>

\* The server never takes the session up: the connection closes under the
\* client's first request, which is never run.
Refuse(c) ==
  /\ cpc[c] = "waiting" /\ Len(reqs[c]) = 1 /\ pending[c]
  /\ cpc' = [cpc EXCEPT ![c] = "closed"]
  /\ UNCHANGED <<fs, files, errno, up, reqs, replies, pending>>

Close(c) ==
  /\ cpc[c] = "ready"
  /\ cpc' = [cpc EXCEPT ![c] = "closed"]
  /\ UNCHANGED <<fs, files, errno, up, reqs, replies, pending>>

\* The client dies; answers it has not read are lost.
Die(c) ==
  /\ cpc[c] \in {"ready", "waiting"}
  /\ cpc' = [cpc EXCEPT ![c] = "closed"]
  /\ replies' = [replies EXCEPT ![c] = <<>>]
  /\ UNCHANGED <<fs, files, errno, up, reqs, pending>>

\* The client dies while it writes request r, which is never whole.
DieWriting(c) ==
  /\ cpc[c] = "ready" /\ Len(reqs[c]) < MaxReq
  /\ \E r \in Requests(DOMAIN files[c] \cup BadFds) :
       r.op \in Ops /\ reqs' = [reqs EXCEPT ![c] = Append(@, r)]
  /\ cpc' = [cpc EXCEPT ![c] = "closed"]
  /\ UNCHANGED <<fs, files, errno, up, replies, pending>>

\* The server side of a closed session ends, with no whole request left
\* to run, and its files are closed.
End(c) ==
  /\ cpc[c] = "closed" /\ up[c] /\ ~pending[c]
  /\ up' = [up EXCEPT ![c] = FALSE]
  /\ files' = [files EXCEPT ![c] = NoFiles]
  /\ UNCHANGED <<fs, errno, cpc, reqs, replies, pending>>

Next ==
  \E c \in Clients :
    \/ Connect(c) \/ Call(c) \/ Serve(c) \/ Reject(c) \/ Receive(c)
    \/ Hangup(c) \/ Refuse(c) \/ Close(c) \/ Die(c) \/ DieWriting(c) \/ End(c)

Spec == Init /\ [][Next]_avars
=============================================================================
