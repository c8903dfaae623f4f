----------------------------- MODULE ReplyFrame -----------------------------
(***************************************************************************)
(* The reply frames of the nine handlers of src/15440-p1/cp2/server.c,    *)
(* byte by byte, as one handler process serves a sequence of requests.    *)
(*                                                                         *)
(* Each handler builds its reply in a malloc'd (or stack) block with one   *)
(* memcpy per field and sends a prefix of it; the writers below follow     *)
(* those copies over the blocks of module Memory.  The call's effect comes *)
(* from the op executor (module FileOps); the byte counts FileOps reports  *)
(* as 0 (read, write, lseek, getdirentries) and the length of a           *)
(* serialized tree are chosen from Counts and TreeLens here.  The frame   *)
(* is read back with the layout spec.md 4.2 gives each op.                 *)
(*                                                                         *)
(* errno is the process's: a call that succeeds leaves the value an       *)
(* earlier one set, and the reply copies whatever errno holds.            *)
(***************************************************************************)
EXTENDS FileOps, Memory, Sequences, TLC

CONSTANTS
  InitFiles,   \* regular files that exist at start
  Ops,         \* the operations the client issues
  BadFds,      \* descriptor values the client may pass that it never opened
  MaxCalls,    \* requests served (bound)
  Counts,      \* byte counts / offsets a successful read, write, lseek or
               \* getdirentries may return
  TreeLens     \* lengths of the serialized tree getdirtree may produce

ASSUME InitFiles \subseteq Paths \ Dirs /\ MaxCalls \in Nat
       /\ Counts \subseteq Nat /\ TreeLens \subseteq Nat

INT   == 4     \* sizeof(int)
SSIZE == 8     \* sizeof(ssize_t) = sizeof(off_t) = sizeof(size_t)
STAT  == 144   \* sizeof(struct stat) on x86-64 Linux

\* The bytes a successful read or getdirentries returns, the stat record
\* and the serialized tree (their values stand for any content).
Data(n)  == [i \in 1..n |-> 7]
Blob     == [i \in 1..STAT |-> 5]
Tree(n)  == [i \in 1..n |-> 3]
Indeterminate(n) == [i \in 1..n |-> Undef]

\* The descriptor table of a handler once it has closed sockfd (main):
\* stdio and the session socket.
HandlerTbl == (0 :> Tty) @@ (1 :> Tty) @@ (2 :> Tty) @@ (4 :> Sock("session"))

FdOps   == {"close", "write", "read", "lseek", "getdirentries"}
PathOps == {"stat", "unlink", "getdirtree"}
Requests(fds) ==
     {Req("open", p, NoFd, b) : p \in Paths, b \in BOOLEAN}
  \cup {Req(o, NoPath, f, FALSE) : o \in FdOps, f \in fds}
  \cup {Req(o, p, NoFd, FALSE) : o \in PathOps, p \in Paths}

NoReply == [req |-> NoPath]

VARIABLES
  fs, tbl, errno,   \* the filesystem and the handler process's state
  ncalls,           \* requests served so far
  dead,             \* the handler process has died
  sent              \* the last call, its outcome and the bytes sent for it

vars == <<fs, tbl, errno, ncalls, dead, sent>>
-----------------------------------------------------------------------------
(***************************************************************************)
(* The reply writers: one per layout, each the copies its handler makes   *)
(* and the byte count it passes to send().                                 *)
(***************************************************************************)

\* serveOpen, serveClose, serveUnlink: malloc(12); len = 8, res, errno.
IntReply(res, e) ==
  Bytes(Put(Put(Put(Malloc(3 * INT), 0, LE(2 * INT, INT)),
                INT, LE(res, INT)),
            2 * INT, LE(e, INT)),
        3 * INT)

\* serveWrite, serveLseek: malloc(16); len = 12, res as ssize_t/off_t at 4,
\* errno at 12.
WideReply(res, e) ==
  Bytes(Put(Put(Put(Malloc(2 * INT + SSIZE), 0, LE(INT + SSIZE, INT)),
                INT, LE(res, SSIZE)),
            INT + SSIZE, LE(e, INT)),
        SSIZE + 2 * INT)

\* Mutant of ReadReply: the data branch announces the length of the
\* failure branch.
ReadReply_short(res, e) ==
  IF res # -1
  THEN Bytes(Put(Put(Put(Put(Malloc(res + SSIZE + 2 * INT), 0, LE(SSIZE + INT, INT)),
                         INT, LE(res, SSIZE)),
                     SSIZE + INT, LE(e, INT)),
                 2 * INT + SSIZE, Data(res)),
             SSIZE + 2 * INT + res)
  ELSE WideReply(res, e)

\* serveRead: with data, malloc(res + 16), len = res + 12, res, errno and
\* the bytes read at 16; on -1, the 16-byte layout of WideReply.
ReadReply(res, e) ==
  IF res # -1
  THEN Bytes(Put(Put(Put(Put(Malloc(res + SSIZE + 2 * INT), 0, LE(res + SSIZE + INT, INT)),
                         INT, LE(res, SSIZE)),
                     SSIZE + INT, LE(e, INT)),
                 2 * INT + SSIZE, Data(res)),
             SSIZE + 2 * INT + res)
  ELSE WideReply(res, e)

\* serveStat: malloc(12 + sizeof(struct stat)); len, res, errno, then the
\* struct s, which stat() leaves unfilled when it fails.
StatReply(res, e) ==
  Bytes(Put(Put(Put(Put(Malloc(3 * INT + STAT), 0, LE(2 * INT + STAT, INT)),
                    INT, LE(res, INT)),
                2 * INT, LE(e, INT)),
            3 * INT, IF res = 0 THEN Blob ELSE Indeterminate(STAT)),
        3 * INT + STAT)

\* serveGetdirentries (res >= 0; res = -1 never reaches send): malloc(res
\* + 16); len = res + 12, res, errno, the entries at 16.
DirentReply(res, e) ==
  Bytes(Put(Put(Put(Put(Malloc(res + 2 * INT + SSIZE), 0, LE(res + INT + SSIZE, INT)),
                    INT, LE(res, SSIZE)),
                SSIZE + INT, LE(e, INT)),
            2 * INT + SSIZE, Data(res)),
        SSIZE + 2 * INT + res)

\* serveGetdirtree: on NULL a 12-byte array: 8, 1, errno.  Otherwise an
\* array of 21 + n bytes: bufLen = 17 + n, 0, the tree length n as ssize_t
\* at 8, errno at sizeof(ssize_t) + 2 * sizeof(int) = 16, the tree at 20
\* and a 0 byte after it.
TreeReply(res, e, n) ==
  IF res = 1
  THEN Bytes(Put(Put(Put(Malloc(3 * INT), 0, LE(2 * INT, INT)),
                     INT, LE(1, INT)),
                 2 * INT, LE(e, INT)),
             3 * INT)
  ELSE Bytes(Put(Put(Put(Put(Put(Put(Malloc(3 * INT + SSIZE + n + 1),
                                         0, LE(2 * INT + SSIZE + n + 1, INT)),
                                     INT, LE(0, INT)),
                                 2 * INT, LE(n, SSIZE)),
                             SSIZE + 2 * INT, LE(e, INT)),
                         3 * INT + SSIZE, Tree(n)),
                     3 * INT + SSIZE + n, <<0>>),
             n + 3 * INT + SSIZE + 1)

\* The frame the handler of op sends for result res, errno e and n bytes of
\* data or tree.
Frame(op, res, e, n) ==
  CASE op \in {"open", "close", "unlink"} -> IntReply(res, e)
    [] op \in {"write", "lseek"}         -> WideReply(res, e)
    [] op = "read"                       -> ReadReply(res, e)
    [] op = "stat"                       -> StatReply(res, e)
    [] op = "getdirentries"              -> DirentReply(res, e)
    [] op = "getdirtree"                 -> TreeReply(res, e, n)

\* What the call returned: FileOps' outcome with its 0 for a count made a
\* count (or offset), and the length of the tree when getdirtree succeeds.
Results(op, out) ==
  CASE op \in {"read", "write", "lseek", "getdirentries"} /\ out.res = 0
         -> {[res |-> k, n |-> k] : k \in Counts}
    [] op = "getdirtree" /\ out.res = 0
         -> {[res |-> 0, n |-> k] : k \in TreeLens}
    [] OTHER -> {[res |-> out.res, n |-> 0]}
-----------------------------------------------------------------------------
TypeOK ==
  /\ fs \subseteq Paths \ Dirs
  /\ DOMAIN tbl \subseteq 0..MaxFd
  /\ ncalls \in 0..MaxCalls
  /\ dead \in BOOLEAN

Init ==
  /\ fs = InitFiles
  /\ tbl = HandlerTbl
  /\ errno = 0
  /\ ncalls = 0
  /\ dead = FALSE
  /\ sent = NoReply

\* One request served by serve(): the handler runs the call and sends its
\* frame, or dies before sending (getdirentries with res = -1).
Serve ==
  /\ ~dead /\ ncalls < MaxCalls
  /\ \E r \in Requests(DOMAIN tbl \cup BadFds) :
       /\ r.op \in Ops
       /\ LET out == Exec(r, fs, tbl, errno) IN
          /\ fs' = out.fs
          /\ tbl' = out.tbl
          /\ errno' = out.errno
          /\ dead' = out.crash
          /\ IF out.crash
             THEN sent' = NoReply
             ELSE \E x \in Results(r.op, out) :
                    sent' = [req |-> r, res |-> x.res, err |-> out.errno, n |-> x.n,
                             frame |-> Frame(r.op, x.res, out.errno, x.n)]
  /\ ncalls' = ncalls + 1

Spec == Init /\ [][Serve]_vars
-----------------------------------------------------------------------------
(***************************************************************************)
(* The layout of spec.md 4.2 and 6: reply_len, result (int32, or 8 bytes  *)
(* for write, read, lseek and getdirentries), err_code after it, then the  *)
(* extra bytes; getdirtree's success reply is result, tree_len (8 bytes),  *)
(* err_code, the tree and a 0 byte.                                        *)
(***************************************************************************)
ResultWidth(op) == IF op \in {"write", "read", "lseek", "getdirentries"} THEN SSIZE ELSE INT
TreeOk(m) == m.req.op = "getdirtree" /\ m.res = 0
ErrAt(m) == IF TreeOk(m) THEN 2 * INT + SSIZE ELSE INT + ResultWidth(m.req.op)
Extra(m) ==
  CASE m.req.op \in {"read", "getdirentries"} /\ m.res >= 0 -> Data(m.res)
    [] m.req.op = "stat"                                    -> Blob
    [] TreeOk(m)                                            -> Tree(m.n) \o <<0>>
    [] OTHER                                                -> <<>>

\* Every frame a handler sends reads back, with the layout spec.md gives its
\* op, as the call's own result and the errno the process held after it:
\* reply_len is the number of bytes after it, the result, tree length and
\* err_code fields hold those values, and the extra bytes are the data read,
\* the stat record (when stat succeeded) or the tree.
ReplyAsSpecified ==
  sent # NoReply =>
    LET f == sent.frame
        w == ResultWidth(sent.req.op)
        x == ErrAt(sent) + INT
    IN /\ Len(f) = x + Len(Extra(sent))
       /\ Field(f, 0, INT) = LE(Len(f) - INT, INT)
       /\ Field(f, INT, w) = LE(sent.res, w)
       /\ TreeOk(sent) => Field(f, 2 * INT, SSIZE) = LE(sent.n, SSIZE)
       /\ Field(f, ErrAt(sent), INT) = LE(sent.err, INT)
       /\ \/ sent.req.op = "stat" /\ sent.res # 0
          \/ Field(f, x, Len(Extra(sent))) = Extra(sent)
=============================================================================
