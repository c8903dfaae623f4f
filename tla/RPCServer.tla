----------------------------- MODULE RPCServer -----------------------------
(***************************************************************************)
(* The RPC file server of src/15440-p1/cp2/server.c with its clients.      *)
(*                                                                         *)
(*  - Listener (main): accept a connection, fork a handler child, close    *)
(*    the session socket in the parent, accept again.  Children are never  *)
(*    reaped, so each one keeps a process-table slot after it exits.       *)
(*  - Handler (the child, serve() in a loop): close the listening socket,  *)
(*    then per request: one recv of the 8-byte header, receiveAll of the   *)
(*    payload, dispatch to the op executor (module FileOps), send the      *)
(*    reply; exit on a 0-byte header read or an unknown op id.             *)
(*  - Connection: the client-to-server byte stream of each session is the  *)
(*    concatenation of the request frames the client wrote; wpos counts    *)
(*    the bytes written, rpos the bytes the handler has read, fin that the *)
(*    client has closed.  Replies travel as whole frames.                  *)
(*  - Client (spec section 2; the shim that speaks this protocol is not   *)
(*    in the repository): strictly serial, one request frame then one      *)
(*    reply frame; it may crash, possibly in the middle of a frame.        *)
(*                                                                         *)
(* Every process has its own descriptor table fdt[p]; fork copies the      *)
(* parent's.  Descriptor numbers are the kernel's: lowest free first.      *)
(***************************************************************************)
EXTENDS FileOps, Sequences, SequencesExt

CONSTANTS
  Clients,          \* the sessions (one client process per connection)
  InitFiles,        \* regular files that exist at start
  Ops,              \* the operations clients issue
  BadFds,           \* descriptor values a client may pass that it never opened
  MaxReq,           \* requests per session (bound)
  MaxProcs,         \* process-table slots available to handler children
  HeaderSplits,     \* byte counts at which one recv() may cut the 8-byte header
  ClientCrashes,    \* where a client may die: "between" frames, "inHeader",
                    \* "inPayload" (in the middle of writing a frame)
  GarbageIds,       \* op ids a header read off a frame boundary may decode to
  GarbageLens       \* payload lengths such a header may decode to

ASSUME /\ InitFiles \subseteq Paths \ Dirs
       /\ Ops \subseteq {OpNames[i] : i \in 1..9} \cup {Unknown}
       /\ MaxReq \in Nat /\ MaxProcs \in Nat
       /\ HeaderSplits \subseteq 1..7
       /\ ClientCrashes \subseteq {"between", "inHeader", "inPayload"}
       /\ GarbageIds \subseteq 0..9 /\ GarbageLens \subseteq Nat

Parent   == "parent"
Procs    == {Parent} \cup Clients
NoClient == "none"
EmptyTbl == [f \in {} |-> Tty]

HDR       == 8      \* sizeof(int) * 2: op id and payload length
MAXMSGLEN == 200    \* receiveAll's largest recv
BACKLOG   == 5      \* listen(sockfd, 5)
PathLen   == 1      \* bytes of a path on the wire
NByte     == 1      \* bytes a write request carries

FdOps   == {"close", "write", "read", "lseek", "getdirentries"}
PathOps == {"stat", "unlink", "getdirtree"}

\* The requests a client may issue holding descriptors fds; an Unknown
\* one carries op id 9 and no payload.
RequestsOver(fds) ==
     {Req("open", p, NoFd, b) : p \in Paths, b \in BOOLEAN}
  \cup {Req(o, NoPath, f, FALSE) : o \in FdOps, f \in fds}
  \cup {Req(o, p, NoFd, FALSE) : o \in PathOps, p \in Paths}
  \cup {Req(Unknown, NoPath, NoFd, FALSE)}
WireId(op) == IF op = Unknown THEN UnknownOp ELSE OpId(op)

\* Payload layout of each op (spec 4.2), as the serveXxx functions read it.
PayloadSize(r) ==
  CASE r.op = "open"          -> 4 + 4 + 8 + PathLen
    [] r.op = "close"         -> 4
    [] r.op = "write"         -> 4 + 8 + NByte
    [] r.op = "read"          -> 4 + 8
    [] r.op = "lseek"         -> 4 + 8 + 4
    [] r.op = "getdirentries" -> 4 + 8 + 8
    [] r.op = Unknown         -> 0
    [] OTHER                  -> 4 + PathLen
FrameSize(r) == HDR + PayloadSize(r)

VARIABLES
  lpc, lsess, nproc, backlog,   \* listener
  fdt, fs, errno,               \* per-process descriptor tables, files, errno
  hpc, hdr, hgot,               \* handler children
  wpos, rpos, fin, replies,     \* connections
  reqs, cpc, cfds               \* clients

listenerVars == <<lpc, lsess, nproc, backlog>>
handlerVars  == <<hpc, hdr, hgot>>
connVars     == <<wpos, rpos, fin, replies>>
clientVars   == <<reqs, cpc, cfds>>
vars == <<listenerVars, fdt, fs, errno, handlerVars, connVars, clientVars>>

\* The bytes of a sequence of request frames; the byte offset of the i-th
\* frame of session c, and the frame starting at pos (0 when pos is not the
\* start of a frame).
RECURSIVE Bytes(_)
Bytes(s) == IF s = <<>> THEN 0 ELSE FrameSize(Head(s)) + Bytes(Tail(s))
FrameStart(c, i) == Bytes(SubSeq(reqs[c], 1, i - 1))
FrameAt(c, pos) ==
  IF \E i \in 1..Len(reqs[c]) : FrameStart(c, i) = pos
  THEN CHOOSE i \in 1..Len(reqs[c]) : FrameStart(c, i) = pos
  ELSE 0
Avail(c) == wpos[c] - rpos[c]

\* Processes holding the server end of connection c.
Holders(c) == {p \in Procs : Sock(c) \in Range(fdt[p])}
FdOf(p, obj) == CHOOSE f \in DOMAIN fdt[p] : fdt[p][f] = obj
Alive(c) == hpc[c] \notin {"none", "exited"}

Headers == [fid : 0..UnknownOp, len : Nat, frame : Nat]
NoHdr   == [fid |-> UnknownOp, len |-> 0, frame |-> 0]

TypeOK ==
  /\ lpc \in {"accept", "fork", "close", "dead"}
  /\ lsess \in Clients \cup {NoClient}
  /\ nproc \in 0..MaxProcs
  /\ backlog \in Seq(Clients)
  /\ \A p \in Procs : DOMAIN fdt[p] \subseteq 0..MaxFd
  /\ fs \subseteq Paths \ Dirs
  /\ errno \in [Clients -> {0, ENOENT, EBADF, ENOTDIR, EISDIR, EMFILE}]
  /\ hpc \in [Clients -> {"none", "start", "hdr", "payload", "exited"}]
  /\ hdr \in [Clients -> Headers]
  /\ hgot \in [Clients -> Nat]
  /\ wpos \in [Clients -> Nat] /\ rpos \in [Clients -> Nat]
  /\ \A c \in Clients : rpos[c] <= wpos[c]
  /\ fin \in [Clients -> BOOLEAN]
  /\ reqs \in [Clients -> Seq(RequestsOver(BadFds \cup 0..MaxFd))]
  /\ cpc \in [Clients -> {"init", "ready", "waiting", "closed"}]
  /\ cfds \in [Clients -> SUBSET (0..MaxFd)]

Init ==
  /\ lpc = "accept" /\ lsess = NoClient /\ nproc = 0 /\ backlog = <<>>
  \* after socket(), bind() and listen(): stdio on 0-2, sockfd = 3
  /\ fdt = [p \in Procs |-> IF p = Parent
                            THEN (0 :> Tty) @@ (1 :> Tty) @@ (2 :> Tty) @@ (3 :> ListenSock)
                            ELSE EmptyTbl]
  /\ fs = InitFiles
  /\ errno = [c \in Clients |-> 0]
  /\ hpc = [c \in Clients |-> "none"]
  /\ hdr = [c \in Clients |-> NoHdr]
  /\ hgot = [c \in Clients |-> 0]
  /\ wpos = [c \in Clients |-> 0] /\ rpos = [c \in Clients |-> 0]
  /\ fin = [c \in Clients |-> FALSE]
  /\ replies = [c \in Clients |-> <<>>]
  /\ reqs = [c \in Clients |-> <<>>]
  /\ cpc = [c \in Clients |-> "init"]
  /\ cfds = [c \in Clients |-> {}]
-----------------------------------------------------------------------------
(***************************************************************************)
(* Listener: the while(1) loop of main().                                  *)
(***************************************************************************)

\* sessfd = accept(sockfd, ...): take the oldest completed connection.
Accept ==
  /\ lpc = "accept" /\ backlog # <<>>
  /\ fdt' = [fdt EXCEPT ![Parent] = AddFd(@, Sock(Head(backlog)))]
  /\ lsess' = Head(backlog)
  /\ backlog' = Tail(backlog)
  /\ lpc' = "fork"
  /\ UNCHANGED <<nproc, fs, errno, handlerVars, connVars, clientVars>>

\* Mutant of Fork: the parent never reaches close(sessfd).
Fork_noclose ==
  /\ lpc = "fork" /\ nproc < MaxProcs
  /\ fdt' = [fdt EXCEPT ![lsess] = fdt[Parent]]
  /\ hpc' = [hpc EXCEPT ![lsess] = "start"]
  /\ nproc' = nproc + 1
  /\ lpc' = "accept"
  /\ UNCHANGED <<lsess, backlog, fs, errno, hdr, hgot, connVars, clientVars>>

\* r = fork() succeeds: the child starts with a copy of the parent's table.
Fork ==
  /\ lpc = "fork" /\ nproc < MaxProcs
  /\ fdt' = [fdt EXCEPT ![lsess] = fdt[Parent]]
  /\ hpc' = [hpc EXCEPT ![lsess] = "start"]
  /\ nproc' = nproc + 1
  /\ lpc' = "close"
  /\ UNCHANGED <<lsess, backlog, fs, errno, hdr, hgot, connVars, clientVars>>

\* fork() < 0 (no process-table slot left): err(1, 0) ends the server
\* process; its descriptors are released.
ForkFail ==
  /\ lpc = "fork" /\ nproc = MaxProcs
  /\ fdt' = [fdt EXCEPT ![Parent] = EmptyTbl]
  /\ lpc' = "dead"
  /\ UNCHANGED <<lsess, nproc, backlog, fs, errno, handlerVars, connVars, clientVars>>

\* close(sessfd) in the parent, then back to accept().
CloseSess ==
  /\ lpc = "close"
  /\ fdt' = [fdt EXCEPT ![Parent] = DelFd(@, FdOf(Parent, Sock(lsess)))]
  /\ lpc' = "accept"
  /\ UNCHANGED <<lsess, nproc, backlog, fs, errno, handlerVars, connVars, clientVars>>

(***************************************************************************)
(* Handler child c: close(sockfd), then serve(sessfd) until it returns -1, *)
(* then close(sessfd) and exit(0).  A child that exits stays a zombie: its *)
(* slot in nproc is never given back.                                      *)
(***************************************************************************)
Exit(c) ==
  /\ hpc' = [hpc EXCEPT ![c] = "exited"]
  /\ fdt' = [fdt EXCEPT ![c] = EmptyTbl]

\* Mutant of ChildStart: the child never closes sockfd, which then holds
\* descriptor 3 for the whole session.
ChildStart_keeplisten(c) ==
  /\ hpc[c] = "start"
  /\ hpc' = [hpc EXCEPT ![c] = "hdr"]
  /\ UNCHANGED <<listenerVars, fdt, fs, errno, hdr, hgot, connVars, clientVars>>

ChildStart(c) ==
  /\ hpc[c] = "start"
  /\ fdt' = [fdt EXCEPT ![c] = DelFd(@, FdOf(c, ListenSock))]
  /\ hpc' = [hpc EXCEPT ![c] = "hdr"]
  /\ UNCHANGED <<listenerVars, fs, errno, hdr, hgot, connVars, clientVars>>

\* Mutant of HeaderCounts: the header read asks for sizeof(int) bytes only.
HeaderCounts_int(c) == {Min({4, Avail(c)})}

\* The byte counts one recv(sessfd, op, 8, 0) may return: what is there, up
\* to 8, or less where the stream was cut.
HeaderCounts(c) ==
  {Min({HDR, Avail(c)})} \cup {k \in HeaderSplits : k < Avail(c)}

\* fID and bufSize as serve() reads them from op[0..7] after k bytes
\* arrived at the current read position.  Only a full header at a frame
\* boundary decodes to that frame's op and length; bytes of another field
\* or op[k..7] left uninitialized give any value (GarbageIds, GarbageLens
\* are the representatives checked).
DecodedHeaders(c, k) ==
  LET i == FrameAt(c, rpos[c]) IN
  IF i # 0 /\ k = HDR
  THEN {[fid |-> WireId(reqs[c][i].op), len |-> PayloadSize(reqs[c][i]), frame |-> i]}
  ELSE [fid : IF i # 0 /\ k >= 4 THEN {WireId(reqs[c][i].op)} ELSE GarbageIds,
        len : GarbageLens, frame : {0}]

\* rv = recv(sessfd, op, 8, 0) with rv > 0.
RecvHeader(c) ==
  /\ hpc[c] = "hdr" /\ Avail(c) > 0
  /\ \E k \in HeaderCounts(c) : \E h \in DecodedHeaders(c, k) :
       /\ hdr' = [hdr EXCEPT ![c] = h]
       /\ rpos' = [rpos EXCEPT ![c] = @ + k]
  /\ hgot' = [hgot EXCEPT ![c] = 0]
  /\ hpc' = [hpc EXCEPT ![c] = "payload"]
  /\ UNCHANGED <<listenerVars, fdt, fs, errno, wpos, fin, replies, clientVars>>

\* Mutant of RecvHeaderEOF: only rv < 0 ends serve(); on EOF it loops.
RecvHeaderEOF_loop(c) ==
  /\ hpc[c] = "hdr" /\ Avail(c) = 0 /\ fin[c]
  /\ UNCHANGED vars

\* rv == 0: the peer closed between frames; serve() returns -1.
RecvHeaderEOF(c) ==
  /\ hpc[c] = "hdr" /\ Avail(c) = 0 /\ fin[c]
  /\ Exit(c)
  /\ UNCHANGED <<listenerVars, fs, errno, hdr, hgot, connVars, clientVars>>

\* One iteration of receiveAll's loop: recv(sessfd, buf + currlen, maxSize).
RecvPayload(c) ==
  /\ hpc[c] = "payload" /\ hgot[c] < hdr[c].len /\ Avail(c) > 0
  /\ LET k == Min({hdr[c].len - hgot[c], MAXMSGLEN, Avail(c)}) IN
       /\ rpos' = [rpos EXCEPT ![c] = @ + k]
       /\ hgot' = [hgot EXCEPT ![c] = @ + k]
  /\ UNCHANGED <<listenerVars, fdt, fs, errno, hpc, hdr, wpos, fin, replies, clientVars>>

\* Mutant of RecvPayloadAtEOF: receiveAll breaks out of its loop when recv
\* returns 0, and serve() dispatches the part of the frame it has.
RecvPayloadAtEOF_break(c) ==
  /\ hpc[c] = "payload" /\ hgot[c] < hdr[c].len /\ Avail(c) = 0 /\ fin[c]
  /\ hgot' = [hgot EXCEPT ![c] = hdr[c].len]
  /\ UNCHANGED <<listenerVars, fdt, fs, errno, hpc, hdr, connVars, clientVars>>

\* The same iteration once the peer has closed: recv returns 0, currlen
\* does not grow, and the loop runs again, forever.
RecvPayloadAtEOF(c) ==
  /\ hpc[c] = "payload" /\ hgot[c] < hdr[c].len /\ Avail(c) = 0 /\ fin[c]
  /\ UNCHANGED vars

\* The request the serveXxx function decodes from buf: the frame's own
\* arguments when the header was that frame's, otherwise whatever the
\* misaligned bytes decode to.
Args(c) ==
  IF hdr[c].frame # 0
  THEN {reqs[c][hdr[c].frame]}
  ELSE {r \in RequestsOver(cfds[c] \cup BadFds) : r.op = OpNames[hdr[c].fid + 1]}

\* The if/else chain of serve() for a known op id: run the handler, which
\* sends [len, res, errno, ...] unless it died first.  A reply to a client
\* that has closed is discarded.
Dispatch(c) ==
  /\ hpc[c] = "payload" /\ hgot[c] = hdr[c].len /\ hdr[c].fid # UnknownOp
  /\ \E r \in Args(c) :
       LET out == Exec(r, fs, fdt[c], errno[c]) IN
       /\ fs' = out.fs
       /\ errno' = [errno EXCEPT ![c] = out.errno]
       /\ IF out.crash
          THEN Exit(c) /\ UNCHANGED replies
          ELSE /\ fdt' = [fdt EXCEPT ![c] = out.tbl]
               /\ hpc' = [hpc EXCEPT ![c] = "hdr"]
               /\ replies' = IF cpc[c] = "closed" THEN replies
                             ELSE [replies EXCEPT ![c] =
                                     Append(@, [req |-> r, res |-> out.res, err |-> out.errno])]
  /\ UNCHANGED <<listenerVars, hdr, hgot, wpos, rpos, fin, clientVars>>

\* Mutant of DispatchUnknown: the if/else chain stops at op 7, so op 8
\* (getdirtree) falls into the final else.
DispatchUnknown_no8(c) ==
  /\ hpc[c] = "payload" /\ hgot[c] = hdr[c].len /\ hdr[c].fid \in {8, UnknownOp}
  /\ Exit(c)
  /\ UNCHANGED <<listenerVars, fs, errno, hdr, hgot, connVars, clientVars>>

\* The final else: "undefined function", serve() returns -1, no reply.
DispatchUnknown(c) ==
  /\ hpc[c] = "payload" /\ hgot[c] = hdr[c].len /\ hdr[c].fid = UnknownOp
  /\ Exit(c)
  /\ UNCHANGED <<listenerVars, fs, errno, hdr, hgot, connVars, clientVars>>

(***************************************************************************)
(* Client of session c (spec sections 2 and 4.1): connect, then serially   *)
(* write one request frame and read one reply frame; close when done.      *)
(***************************************************************************)
Connect(c) ==
  /\ cpc[c] = "init" /\ Len(backlog) < BACKLOG
  /\ backlog' = Append(backlog, c)
  /\ cpc' = [cpc EXCEPT ![c] = "ready"]
  /\ UNCHANGED <<lpc, lsess, nproc, fdt, fs, errno, handlerVars, connVars, reqs, cfds>>

SendRequest(c) ==
  /\ cpc[c] = "ready" /\ Len(reqs[c]) < MaxReq
  /\ \E r \in RequestsOver(cfds[c] \cup BadFds) :
       /\ r.op \in Ops
       /\ reqs' = [reqs EXCEPT ![c] = Append(@, r)]
       /\ wpos' = [wpos EXCEPT ![c] = @ + FrameSize(r)]
  /\ cpc' = [cpc EXCEPT ![c] = "waiting"]
  /\ UNCHANGED <<listenerVars, fdt, fs, errno, handlerVars, rpos, fin, replies, cfds>>

\* The client reads the reply and reads it as the answer to its own last
\* request: a new descriptor from open, one fewer after a successful close.
RecvReply(c) ==
  /\ cpc[c] = "waiting" /\ replies[c] # <<>>
  /\ LET m == Head(replies[c])
         q == Last(reqs[c]) IN
     cfds' = [cfds EXCEPT ![c] =
                CASE q.op = "open" /\ m.res # -1 -> @ \cup {m.res}
                  [] q.op = "close" /\ m.res = 0 -> @ \ {q.fd}
                  [] OTHER                       -> @]
  /\ replies' = [replies EXCEPT ![c] = Tail(@)]
  /\ cpc' = [cpc EXCEPT ![c] = "ready"]
  /\ UNCHANGED <<listenerVars, fdt, fs, errno, handlerVars, wpos, rpos, fin, reqs>>

\* The connection is gone while a reply is awaited: the client's recv
\* returns 0 (or ECONNRESET) once no server process holds the socket of an
\* accepted connection, or the listening socket was closed before accept.
RecvEOF(c) ==
  /\ cpc[c] = "waiting" /\ replies[c] = <<>> /\ Holders(c) = {}
  /\ hpc[c] # "none" \/ lpc = "dead"
  /\ cpc' = [cpc EXCEPT ![c] = "closed"]
  /\ fin' = [fin EXCEPT ![c] = TRUE]
  /\ UNCHANGED <<listenerVars, fdt, fs, errno, handlerVars, wpos, rpos, replies, reqs, cfds>>

CloseConn(c) ==
  /\ cpc[c] = "ready"
  /\ cpc' = [cpc EXCEPT ![c] = "closed"]
  /\ fin' = [fin EXCEPT ![c] = TRUE]
  /\ UNCHANGED <<listenerVars, fdt, fs, errno, handlerVars, wpos, rpos, replies, reqs, cfds>>

\* The client process dies; the kernel closes its socket.
Crash(c) ==
  /\ "between" \in ClientCrashes /\ cpc[c] \in {"ready", "waiting"}
  /\ cpc' = [cpc EXCEPT ![c] = "closed"]
  /\ fin' = [fin EXCEPT ![c] = TRUE]
  /\ replies' = [replies EXCEPT ![c] = <<>>]
  /\ UNCHANGED <<listenerVars, fdt, fs, errno, handlerVars, wpos, rpos, reqs, cfds>>

\* Where in frame r a client may stop writing: after 1 or 7 header bytes,
\* or after the header or all but the last byte of a payload it has.
Cuts(r) ==
  [inHeader  |-> {1, HDR - 1},
   inPayload |-> {k \in {HDR, FrameSize(r) - 1} : HDR <= k /\ k < FrameSize(r)}]

\* The client dies after writing only the first k bytes of a frame.
CrashMidFrame(c) ==
  /\ cpc[c] = "ready" /\ Len(reqs[c]) < MaxReq
  /\ \E r \in RequestsOver(cfds[c] \cup BadFds) :
       /\ r.op \in Ops
       /\ \E w \in ClientCrashes \ {"between"} : \E k \in Cuts(r)[w] :
            /\ reqs' = [reqs EXCEPT ![c] = Append(@, r)]
            /\ wpos' = [wpos EXCEPT ![c] = @ + k]
  /\ cpc' = [cpc EXCEPT ![c] = "closed"]
  /\ fin' = [fin EXCEPT ![c] = TRUE]
  /\ UNCHANGED <<listenerVars, fdt, fs, errno, handlerVars, rpos, replies, cfds>>

\* Every client has gone and every handler has exited: the listener blocks
\* in accept() for good.
Quiescent ==
  /\ \A c \in Clients : cpc[c] = "closed" /\ hpc[c] = "exited"
  /\ UNCHANGED vars

Listener == Accept \/ Fork \/ ForkFail \/ CloseSess
Handler(c) ==
  \/ ChildStart(c) \/ RecvHeader(c) \/ RecvHeaderEOF(c) \/ RecvPayload(c)
  \/ RecvPayloadAtEOF(c) \/ Dispatch(c) \/ DispatchUnknown(c)
Client(c) ==
  \/ Connect(c) \/ SendRequest(c) \/ RecvReply(c) \/ RecvEOF(c)
  \/ CloseConn(c) \/ Crash(c) \/ CrashMidFrame(c)

Next ==
  \/ Listener
  \/ \E c \in Clients : Handler(c) \/ Client(c)
  \/ Quiescent

\* The kernel schedules every server process: each step the listener or a
\* handler can take is eventually taken.  Clients are not assumed to act.
Fairness ==
  /\ WF_vars(Listener)
  /\ \A c \in Clients :
       /\ WF_vars(ChildStart(c)) /\ WF_vars(RecvHeader(c))
       /\ WF_vars(RecvHeaderEOF(c)) /\ WF_vars(RecvPayload(c))
       /\ WF_vars(Dispatch(c)) /\ WF_vars(DispatchUnknown(c))

Spec == Init /\ [][Next]_vars /\ Fairness
-----------------------------------------------------------------------------
(***************************************************************************)
(* Properties                                                              *)
(***************************************************************************)

\* Descriptors that name something a client opened (not stdio or sockets).
OpenedObjs == {FileObj(p, w) : p \in Paths, w \in BOOLEAN} \cup {DirObj(p) : p \in Dirs}
ClientVisibleFds(tbl) == {f \in DOMAIN tbl : tbl[f] \in OpenedObjs}

\* Every reply the handler sends answers the request the client is waiting
\* on: at most one reply per request, computed from that request's own
\* arguments (serve()'s header read, receiveAll and the serveXxx decoders
\* together keep the byte stream aligned on frames).
ReplyMatchesRequest ==
  \A c \in Clients :
    replies[c] # <<>> =>
      /\ cpc[c] = "waiting"
      /\ Len(replies[c]) = 1
      /\ Head(replies[c]).req = Last(reqs[c])

\* Between requests, the descriptors a client holds are exactly the files
\* and directories open in its handler process: descriptors are raw numbers
\* of the child's own table (fork isolates sessions), open replies the fd
\* it allocated and close releases the one it was given.
FdViewMatches ==
  \A c \in Clients :
    cpc[c] = "ready" /\ Alive(c) => ClientVisibleFds(fdt[c]) = cfds[c]

\* The server end of connection c is held only by its own handler, and by
\* the parent between accept() and its close(sessfd); so once the handler
\* exits nobody holds it and the client sees the connection close.
ConnectionReleased ==
  \A c \in Clients :
    Holders(c) \subseteq {c} \cup (IF lsess = c /\ lpc \in {"fork", "close"}
                                   THEN {Parent} ELSE {})

\* A handler never ends its session while its client waits for the reply
\* to a well-formed request it has read (spec 3: every well-formed request
\* elicits exactly one reply).
NoRequestDropped ==
  \A c \in Clients :
    hpc[c] = "exited" /\ cpc[c] = "waiting" => replies[c] # <<>>

\* fork() fails only when the process-table slots are taken by handlers
\* that are still serving (spec 5: the parent must reap its children).
ForkFailsOnlyWhenBusy ==
  lpc = "dead" => Cardinality({c \in Clients : Alive(c)}) >= MaxProcs

\* Once a client has closed its end, its handler eventually exits and
\* releases every descriptor of the session (spec 3, "Lifecycle").
SessionTerminates ==
  \A c \in Clients : fin[c] ~> hpc[c] = "exited"

\* Every request a client sends is eventually answered.
RequestAnswered ==
  \A c \in Clients : cpc[c] = "waiting" ~> replies[c] # <<>>

(***************************************************************************)
(* Refinement: the server implements RemoteFS.  A session's open files are *)
(* the file and directory entries of its handler's table, the session's   *)
(* server side is up until the handler exits, and the client's state and   *)
(* the answers it has not read are the same.  A request is pending from   *)
(* the moment its last byte is written until its handler has dispatched   *)
(* it.  Framing, the listener and the byte streams are hidden.             *)
(***************************************************************************)
LastFrameWhole(c) == reqs[c] # <<>> /\ wpos[c] = Bytes(reqs[c])
Pending(c) ==
  ~(rpos[c] = wpos[c] /\ hpc[c] \in {"hdr", "exited"}) /\ LastFrameWhole(c)

RFS == INSTANCE RemoteFS WITH
         files   <- [c \in Clients |-> Restrict(fdt[c], ClientVisibleFds(fdt[c]))],
         up      <- [c \in Clients |-> hpc[c] # "exited"],
         pending <- [c \in Clients |-> Pending(c)]

\* Seen from its clients, the server is a set of private processes that run
\* each call once, atomically, in order, on one descriptor table holding
\* stdio, the session socket and the client's files, and answer it with
\* that call's result and errno, or end the session without an answer.
\* A client that dies has its whole last request run at most once and a
\* request it did not finish writing never run (serve() and receiveAll
\* wait for the full frame); an unknown op id ends the session.
\* (RFS!Spec, with the stuttering case tried first.)
RefinesRemoteFS == RFS!Init /\ [][UNCHANGED RFS!avars \/ RFS!Next]_RFS!avars
=============================================================================
