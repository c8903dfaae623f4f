------------------------------ MODULE FileOps ------------------------------
(***************************************************************************)
(* The op executor of the RPC server (src/15440-p1/cp2/server.c, the nine  *)
(* serveXxx functions).  Each operator takes one decoded request, the      *)
(* server process's state (the set of regular files, its descriptor table *)
(* and errno) and returns the outcome of the handler: the new state, the   *)
(* reply the handler sends, or that the handler crashed before sending.    *)
(*                                                                         *)
(* The local filesystem call each handler makes is given POSIX semantics   *)
(* over a small abstract filesystem: Paths are names, Dirs are the ones    *)
(* that are directories (they always exist), fs is the set of the others   *)
(* that currently exist as regular files.  Byte contents are abstracted:   *)
(* read, write, lseek and getdirentries report a non-negative count as 0.  *)
(***************************************************************************)
EXTENDS Integers, FiniteSets, Functions

CONSTANTS
  Paths,      \* path names a request may carry
  Dirs,       \* the paths that are directories
  MaxFd       \* largest descriptor number the process table can hold

ASSUME Dirs \subseteq Paths /\ MaxFd \in Nat

\* errno values the handlers can report (Linux numbering).
ENOENT == 2
EBADF  == 9
ENOTDIR == 20
EISDIR == 21
EMFILE == 24

\* What a descriptor of a server process refers to.
Tty            == <<"tty">>
ListenSock     == <<"listen">>
Sock(c)        == <<"sock", c>>
\* A regular file, opened writable (O_RDWR) or not (O_RDONLY).
FileObj(p, w)  == <<"file", p, w>>
DirObj(p)      == <<"dir", p>>

\* The op ids of the wire protocol, and the id a request frame carries.
OpNames == <<"open", "close", "write", "read", "lseek", "stat", "unlink",
             "getdirentries", "getdirtree">>
OpId(name) == CHOOSE i \in 0..8 : OpNames[i + 1] = name
UnknownOp == 9
\* The name of a request whose op id no handler has.
Unknown == "unknown"

(***************************************************************************)
(* A request as the handler decodes it from the payload.  Fields an op     *)
(* does not use keep a fixed filler so that all requests are one record    *)
(* type; the abstraction keeps exactly the arguments the outcome depends   *)
(* on (path, descriptor, O_CREAT) and drops mode, nbyte and basep.         *)
(***************************************************************************)
NoPath == "none"
NoFd   == -1
Req(op, p, fd, creat) == [op |-> op, path |-> p, fd |-> fd, creat |-> creat]

\* Outcome of a handler: the state it leaves, the reply and whether the
\* process died before replying.
Outcome(fs, tbl, res, errno, crash) ==
  [fs |-> fs, tbl |-> tbl, res |-> res, errno |-> errno, crash |-> crash]
Done(fs, tbl, res, errno) == Outcome(fs, tbl, res, errno, FALSE)
\* A failing call returns -1 and leaves its error in errno.
Failed(fs, tbl, e) == Outcome(fs, tbl, -1, e, FALSE)

\* open(2) and accept(2) hand out the lowest free descriptor.
FreeFds(tbl) == (0..MaxFd) \ DOMAIN tbl
LowestFree(tbl) == CHOOSE f \in FreeFds(tbl) : \A g \in FreeFds(tbl) : f <= g
AddFd(tbl, obj) == [f \in DOMAIN tbl \cup {LowestFree(tbl)} |->
                      IF f \in DOMAIN tbl THEN tbl[f] ELSE obj]
DelFd(tbl, fd) == Restrict(tbl, DOMAIN tbl \ {fd})

IsOpen(tbl, fd) == fd \in DOMAIN tbl
IsFileFd(tbl, fd) == IsOpen(tbl, fd) /\ tbl[fd] \notin {DirObj(p) : p \in Dirs}
IsDirFd(tbl, fd) == IsOpen(tbl, fd) /\ tbl[fd] \in {DirObj(p) : p \in Dirs}
IsReadOnlyFd(tbl, fd) == IsOpen(tbl, fd) /\ tbl[fd] \in {FileObj(p, FALSE) : p \in Paths}

\* Mutant of serveOpen: errno is copied into the result field of the reply.
serveOpen_swap(r, fs, tbl, errno) ==
  LET p == r.path IN
  CASE FreeFds(tbl) = {}        -> Failed(fs, tbl, EMFILE)
    [] p \in Dirs /\ r.creat    -> Failed(fs, tbl, EISDIR)
    [] p \in Dirs               -> Done(fs, AddFd(tbl, DirObj(p)), errno, errno)
    [] p \in fs \/ r.creat      -> Done(fs \cup {p}, AddFd(tbl, FileObj(p, r.creat)), errno, errno)
    [] OTHER                    -> Failed(fs, tbl, ENOENT)

(***************************************************************************)
(* serveOpen: decode flags, mode and path, open(path, flag, m), reply      *)
(* [len, res, errno].  O_CREAT is modelled with O_RDWR, its absence with   *)
(* O_RDONLY.                                                               *)
(***************************************************************************)
serveOpen(r, fs, tbl, errno) ==
  LET p == r.path IN
  CASE FreeFds(tbl) = {}        -> Failed(fs, tbl, EMFILE)
    [] p \in Dirs /\ r.creat    -> Failed(fs, tbl, EISDIR)
    [] p \in Dirs               -> Done(fs, AddFd(tbl, DirObj(p)), LowestFree(tbl), errno)
    [] p \in fs \/ r.creat      -> Done(fs \cup {p}, AddFd(tbl, FileObj(p, r.creat)), LowestFree(tbl), errno)
    [] OTHER                    -> Failed(fs, tbl, ENOENT)

\* serveClose: close(fd), reply [len, res, errno].
serveClose(r, fs, tbl, errno) ==
  IF IsOpen(tbl, r.fd) THEN Done(fs, DelFd(tbl, r.fd), 0, errno)
                       ELSE Failed(fs, tbl, EBADF)

\* serveWrite: copy the data, write(fildes, buff, nbyte), reply
\* [len, res, errno].  A directory descriptor and a file opened without
\* O_CREAT are open O_RDONLY, and write(2) fails on them with EBADF.
serveWrite(r, fs, tbl, errno) ==
  IF IsFileFd(tbl, r.fd) /\ ~IsReadOnlyFd(tbl, r.fd) THEN Done(fs, tbl, 0, errno)
                         ELSE Failed(fs, tbl, EBADF)

\* serveRead: read(fildes, buff, nbyte); the reply carries the data only
\* when res != -1.
serveRead(r, fs, tbl, errno) ==
  CASE IsFileFd(tbl, r.fd) -> Done(fs, tbl, 0, errno)
    [] IsDirFd(tbl, r.fd)  -> Failed(fs, tbl, EISDIR)
    [] OTHER               -> Failed(fs, tbl, EBADF)

\* serveLseek: lseek(fildes, offset, pos), reply [len, res, errno].
serveLseek(r, fs, tbl, errno) ==
  IF IsOpen(tbl, r.fd) THEN Done(fs, tbl, 0, errno)
                       ELSE Failed(fs, tbl, EBADF)

\* serveStat: stat(path, &s), reply [len, res, errno, s].
serveStat(r, fs, tbl, errno) ==
  IF r.path \in fs \cup Dirs THEN Done(fs, tbl, 0, errno)
                             ELSE Failed(fs, tbl, ENOENT)

\* serveUnlink: unlink(path), reply [len, res, errno].  An open descriptor
\* of the unlinked file stays valid.
serveUnlink(r, fs, tbl, errno) ==
  CASE r.path \in Dirs -> Failed(fs, tbl, EISDIR)
    [] r.path \in fs   -> Done(fs \ {r.path}, tbl, 0, errno)
    [] OTHER           -> Failed(fs, tbl, ENOENT)

(***************************************************************************)
(* serveGetdirentries: getdirentries(fd, buff, nbyte, &basep), then        *)
(* malloc(res + 16) and memcpy(retval + 16, buff, res).  When the call    *)
(* fails, res = -1 converts to SIZE_MAX as memcpy's length and the copy    *)
(* runs off the heap block: the process dies of SIGSEGV before send.      *)
(***************************************************************************)
serveGetdirentries(r, fs, tbl, errno) ==
  CASE IsDirFd(tbl, r.fd)  -> Done(fs, tbl, 0, errno)
    [] IsFileFd(tbl, r.fd) -> Outcome(fs, tbl, -1, ENOTDIR, TRUE)
    [] OTHER               -> Outcome(fs, tbl, -1, EBADF, TRUE)

\* serveGetdirtree: getdirtree(path); NULL is replied as result 1 with
\* errno, a tree as result 0 followed by its serialization.
serveGetdirtree(r, fs, tbl, errno) ==
  CASE r.path \in Dirs -> Done(fs, tbl, 0, errno)
    [] r.path \in fs   -> Outcome(fs, tbl, 1, ENOTDIR, FALSE)
    [] OTHER           -> Outcome(fs, tbl, 1, ENOENT, FALSE)

\* The dispatch chain of serve(): the handler for the request's op.
Exec(r, fs, tbl, errno) ==
  CASE r.op = "open"          -> serveOpen(r, fs, tbl, errno)
    [] r.op = "close"         -> serveClose(r, fs, tbl, errno)
    [] r.op = "write"         -> serveWrite(r, fs, tbl, errno)
    [] r.op = "read"          -> serveRead(r, fs, tbl, errno)
    [] r.op = "lseek"         -> serveLseek(r, fs, tbl, errno)
    [] r.op = "stat"          -> serveStat(r, fs, tbl, errno)
    [] r.op = "unlink"        -> serveUnlink(r, fs, tbl, errno)
    [] r.op = "getdirentries" -> serveGetdirentries(r, fs, tbl, errno)
    [] r.op = "getdirtree"    -> serveGetdirtree(r, fs, tbl, errno)
=============================================================================
