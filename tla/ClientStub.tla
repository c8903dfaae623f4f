----------------------------- MODULE ClientStub -----------------------------
(***************************************************************************)
(* The checkpoint-1 interposition library src/15440-p1/interpose/mylib.c   *)
(* loaded into an application, composed with the server of                 *)
(* src/15440-p1/cp2/server.c.                                              *)
(*                                                                         *)
(* Every wrapped call runs sendToServer(name) (socket, connect, send of    *)
(* the bare name, close; err(1, 0) on a failing socket or connect) and     *)
(* then the original libc call.  The application is single-threaded, so   *)
(* each wrapper is one step.  The library opens one connection per call;   *)
(* the server accepts it, forks a handler, and the handler's serve() reads *)
(* the name's bytes as a request header: fID from bytes 0-3, bufSize from  *)
(* bytes 4-7, bytes the recv did not fill being stack garbage.  The        *)
(* handler's further steps follow receiveAll and the dispatch chain.       *)
(* Descriptor tables of the server are left to RPCServer.                  *)
(***************************************************************************)
EXTENDS FileOps, Memory, Sequences, FiniteSetsExt, TLC

CONSTANTS
  Calls,          \* the application's calls in order: [req, fdFrom], where a
                  \* non-zero fdFrom passes the result of that earlier call
                  \* as the descriptor
  InitFiles,      \* the application's files that exist at start
  ClientEnvs,     \* values serverport15440 may have for the application
  ServerEnvs,     \* ... and for the server (NoEnv: not set)
  NoEnv,
  MaxProcs,       \* process-table slots the server's children may take
  HeaderCuts,     \* byte counts short of what is there a recv may return
  GarbageBytes,   \* values an uninitialized stack byte may hold
  StackRoom       \* the largest VLA serve()'s stack can hold

ASSUME /\ MaxProcs \in Nat /\ HeaderCuts \subseteq 1..7
       /\ GarbageBytes \subseteq 0..255 /\ StackRoom \in Nat

N         == Len(Calls)
Sessions  == 1..N          \* the connection the i-th call opens
HDR       == 8             \* sizeof(int) * 2
MAXMSGLEN == 200           \* receiveAll's largest recv
BACKLOG   == 5             \* listen(sockfd, 5)

\* The bytes sendToServer sends: the wrapper's name literal, in ASCII.
Text ==
     ("open" :> <<111, 112, 101, 110>>)
  @@ ("close" :> <<99, 108, 111, 115, 101>>)
  @@ ("read" :> <<114, 101, 97, 100>>)
  @@ ("write" :> <<119, 114, 105, 116, 101>>)
  @@ ("lseek" :> <<108, 115, 101, 101, 107>>)
  @@ ("stat" :> <<115, 116, 97, 116>>)
  @@ ("unlink" :> <<117, 110, 108, 105, 110, 107>>)
  @@ ("getdirentries" :> <<103, 101, 116, 100, 105, 114, 101, 110, 116, 114, 105, 101, 115>>)
  @@ ("getdirtree" :> <<103, 101, 116, 100, 105, 114, 116, 114, 101, 101>>)

\* serve() only compares *fID with 0..8, and receiveAll compares bufSize
\* with what it has read, which is never more than a name's length: the
\* values are kept up to those comparisons (every other op id is
\* UnknownOp of FileOps; a bufSize of 0 or less loops no time, one the name cannot
\* fill is Beyond, one the stack cannot hold is StackRoom + 1).
Beyond == 1 + Max({Len(Text[o]) : o \in DOMAIN Text})
OpIdSeen(f) == IF f \in 0..8 THEN f ELSE UnknownOp
LengthSeen(s) ==
  CASE s <= 0         -> 0
    [] s > StackRoom  -> StackRoom + 1
    [] s >= Beyond    -> Beyond
    [] OTHER          -> s

\* The port each side uses: the environment's, or its own default
\* (mylib.c: "15440", server.c: 15400).
ClientPort(e) == IF e = NoEnv THEN 15440 ELSE e
ServerPort(e) == IF e = NoEnv THEN 15400 ELSE e

VARIABLES
  cenv, senv,                    \* serverport15440 of each side
  apc, alive, afs, atbl, aerrno, ares,   \* the application
  lpc, lsess, nproc, backlog,    \* the server's listener
  rpos,                          \* bytes of session i the server has read
  hpc, hdr, fid, bufSize, hgot,  \* the handler of session i
  served                         \* handler i ran a serveXxx function

appVars     == <<apc, alive, afs, atbl, aerrno, ares>>
handlerVars == <<rpos, hpc, hdr, fid, bufSize, hgot, served>>
vars == <<cenv, senv, appVars, lpc, lsess, nproc, backlog, handlerVars>>

\* The request the application's call i makes, its descriptor argument
\* taken from the earlier call's result where test2.c passes one.
Resolve(i) ==
  IF Calls[i].fdFrom = 0 THEN Calls[i].req
  ELSE [Calls[i].req EXCEPT !.fd = ares[Calls[i].fdFrom]]

Sent(i) == i < apc
Avail(i) == IF Sent(i) THEN Len(Text[Calls[i].req.op]) - rpos[i] ELSE 0

TypeOK ==
  /\ apc \in 1..N + 1 /\ alive \in BOOLEAN
  /\ lpc \in {"accept", "fork", "dead"} /\ nproc \in 0..MaxProcs
  /\ backlog \in Seq(Sessions) /\ Len(backlog) <= BACKLOG
  /\ hpc \in [Sessions -> {"none", "hdr", "payload", "spin", "exited"}]
  /\ \A i \in Sessions : rpos[i] \in 0..Avail(i) + rpos[i]
  /\ served \in [Sessions -> BOOLEAN]

Init ==
  /\ cenv \in ClientEnvs /\ senv \in ServerEnvs
  \* _init has bound the orig_* pointers; stdio is open.
  /\ apc = 1 /\ alive = TRUE
  /\ afs = InitFiles /\ atbl = (0 :> Tty) @@ (1 :> Tty) @@ (2 :> Tty)
  /\ aerrno = 0 /\ ares = [i \in Sessions |-> 0]
  /\ lpc = "accept" /\ lsess = 0 /\ nproc = 0 /\ backlog = <<>>
  /\ rpos = [i \in Sessions |-> 0]
  /\ hpc = [i \in Sessions |-> "none"]
  /\ hdr = [i \in Sessions |-> <<>>]
  /\ fid = [i \in Sessions |-> 0]
  /\ bufSize = [i \in Sessions |-> 0]
  /\ hgot = [i \in Sessions |-> 0]
  /\ served = [i \in Sessions |-> FALSE]
-----------------------------------------------------------------------------
(***************************************************************************)
(* The application under mylib.c.                                          *)
(***************************************************************************)

\* sendToServer's socket() and connect() succeed: a descriptor is free,
\* both sides use one port, and the server's listening socket is open.
Reachable ==
  /\ FreeFds(atbl) # {}
  /\ ClientPort(cenv) = ServerPort(senv)
  /\ lpc # "dead"

\* socket() or connect() fails in sendToServer: err(1, 0) ends the
\* application in the middle of its call.
SendToServerFails ==
  /\ alive /\ apc <= N /\ ~Reachable
  /\ alive' = FALSE
  /\ UNCHANGED <<cenv, senv, apc, afs, atbl, aerrno, ares, lpc, lsess, nproc, backlog,
                 handlerVars>>

\* One wrapper: sendToServer(name) connects (the kernel completes the
\* handshake while the accept queue has room), sends the name, closes the
\* socket (its descriptor is free again); then the orig_* call runs.
Call ==
  /\ alive /\ apc <= N /\ Reachable /\ Len(backlog) < BACKLOG
  /\ backlog' = Append(backlog, apc)
  /\ LET out == Exec(Resolve(apc), afs, atbl, aerrno) IN
     /\ afs' = out.fs
     /\ atbl' = out.tbl
     /\ aerrno' = out.errno
     /\ ares' = [ares EXCEPT ![apc] = out.res]
  /\ apc' = apc + 1
  /\ UNCHANGED <<cenv, senv, alive, lpc, lsess, nproc, handlerVars>>
-----------------------------------------------------------------------------
(***************************************************************************)
(* The server: main's accept/fork loop and each child's serve().          *)
(***************************************************************************)

\* Mutant of Accept: the parent reaps with a blocking wait before it
\* accepts again, so it accepts only when no child is running.
Accept_serial ==
  /\ lpc = "accept" /\ backlog # <<>>
  /\ \A i \in Sessions : hpc[i] \in {"none", "exited"}
  /\ lsess' = Head(backlog)
  /\ backlog' = Tail(backlog)
  /\ lpc' = "fork"
  /\ UNCHANGED <<cenv, senv, appVars, nproc, handlerVars>>

Accept ==
  /\ lpc = "accept" /\ backlog # <<>>
  /\ lsess' = Head(backlog)
  /\ backlog' = Tail(backlog)
  /\ lpc' = "fork"
  /\ UNCHANGED <<cenv, senv, appVars, nproc, handlerVars>>

\* fork() succeeds; the child closes sockfd and enters serve(), the
\* parent closes sessfd and accepts again.  Children are never reaped.
Fork ==
  /\ lpc = "fork" /\ nproc < MaxProcs
  /\ hpc' = [hpc EXCEPT ![lsess] = "hdr"]
  /\ nproc' = nproc + 1
  /\ lpc' = "accept"
  /\ UNCHANGED <<cenv, senv, appVars, lsess, backlog, rpos, hdr, fid, bufSize, hgot, served>>

\* fork() < 0: err(1, 0) ends the server; its listening socket closes.
ForkFail ==
  /\ lpc = "fork" /\ nproc = MaxProcs
  /\ lpc' = "dead"
  /\ UNCHANGED <<cenv, senv, appVars, lsess, nproc, backlog, handlerVars>>

\* rv = recv(sessfd, op, 8, 0): k bytes of the name, the rest of op[]
\* uninitialized; fID and bufSize are what *(int*)op and *(int*)(op + 4)
\* then hold.  rv == 0 (the name is used up and the peer has closed) ends
\* serve() with -1 and the child exits.
RecvHeader(i) ==
  /\ hpc[i] = "hdr"
  /\ IF Avail(i) = 0
     THEN /\ hpc' = [hpc EXCEPT ![i] = "exited"]
          /\ UNCHANGED <<rpos, hdr, fid, bufSize, hgot>>
     ELSE \E k \in {Min({HDR, Avail(i)})} \cup {c \in HeaderCuts : c < Avail(i)} :
            LET b == [j \in 1..HDR |-> IF j <= k THEN Text[Calls[i].req.op][rpos[i] + j]
                                       ELSE Undef]
            IN /\ hdr' = [hdr EXCEPT ![i] = b]
               /\ \E f \in Int32Values(SubSeq(b, 1, 4), GarbageBytes),
                     s \in Int32Values(SubSeq(b, 5, 8), GarbageBytes) :
                    /\ fid' = [fid EXCEPT ![i] = OpIdSeen(f)]
                    /\ bufSize' = [bufSize EXCEPT ![i] = LengthSeen(s)]
               /\ rpos' = [rpos EXCEPT ![i] = @ + k]
               /\ hgot' = [hgot EXCEPT ![i] = 0]
               /\ hpc' = [hpc EXCEPT ![i] = "payload"]
  /\ UNCHANGED <<cenv, senv, appVars, lpc, lsess, nproc, backlog, served>>

\* One iteration of receiveAll's loop, recv(sessfd, buf + currlen,
\* maxSize) with maxSize = min(MAXMSGLEN, bufSize - currlen).  Once the
\* name is used up the peer has closed: recv returns 0 for ever and the
\* loop spins.  A buf[bufSize] larger than the stack lies in unmapped
\* memory: recv fails with EFAULT and err(1, 0) ends the child.
RecvPayload(i) ==
  /\ hpc[i] = "payload" /\ hgot[i] < bufSize[i]
  /\ CASE Avail(i) = 0 ->
            /\ hpc' = [hpc EXCEPT ![i] = "spin"]
            /\ UNCHANGED <<rpos, hgot>>
       [] bufSize[i] > StackRoom ->
            /\ hpc' = [hpc EXCEPT ![i] = "exited"]
            /\ UNCHANGED <<rpos, hgot>>
       [] OTHER ->
            LET n == Min({MAXMSGLEN, bufSize[i] - hgot[i], Avail(i)}) IN
            /\ rpos' = [rpos EXCEPT ![i] = @ + n]
            /\ hgot' = [hgot EXCEPT ![i] = @ + n]
            /\ UNCHANGED hpc
  /\ UNCHANGED <<cenv, senv, appVars, lpc, lsess, nproc, backlog, hdr, fid, bufSize, served>>

\* After receiveAll, serve()'s if/else chain on *fID: a known op id runs its
\* serveXxx and serve() returns 0; any other prints "undefined function",
\* returns -1 and the child exits.
Dispatch(i) ==
  /\ hpc[i] = "payload" /\ hgot[i] >= bufSize[i]
  /\ IF fid[i] \in 0..8
     THEN /\ served' = [served EXCEPT ![i] = TRUE]
          /\ hpc' = [hpc EXCEPT ![i] = "hdr"]
     ELSE /\ hpc' = [hpc EXCEPT ![i] = "exited"]
          /\ UNCHANGED served
  /\ UNCHANGED <<cenv, senv, appVars, lpc, lsess, nproc, backlog, rpos, hdr, fid, bufSize, hgot>>

Handler(i) == RecvHeader(i) \/ RecvPayload(i) \/ Dispatch(i)

Next ==
  \/ Call \/ SendToServerFails
  \/ Accept \/ Fork \/ ForkFail
  \/ \E i \in Sessions : Handler(i)

\* The application and the server's parent are processes the kernel keeps
\* scheduling; neither step waits on anything but its guard.  Handlers get
\* no fairness: nothing below depends on them progressing.
Fairness ==
  /\ WF_vars(Call \/ SendToServerFails)
  /\ WF_vars(Accept \/ Fork \/ ForkFail)

Spec == Init /\ [][Next]_vars /\ Fairness
-----------------------------------------------------------------------------
\* The application is never held up by the server: it finishes its calls
\* or is ended by err(1, 0), although handlers of its sessions may spin in
\* receiveAll for ever (mylib.c never waits for a reply; it needs only
\* the server's accept queue to drain).
AppNotBlocked == <>(apc > N \/ ~alive)
=============================================================================
