# TLA+ models of the 15-440 P1 remote file server

This directory holds TLA+ models of the RPC file server in
`src/15440-p1/cp2/server.c` and its clients. It also holds the TLC
configurations that check them.

## The system

`server.c` is a fork-per-connection TCP server. It has three parts.

- **Listener** (`main`) accepts a connection and `fork()`s a handler. The
  parent closes the session socket and accepts again. Children are never
  reaped, and a failing `accept` or `fork` ends the server with `err(1, 0)`.
- **Session handler** (the child, then `serve()` in a loop). It first closes
  the listening socket. It reads each request as follows:
  1. one `recv` of the 8-byte header, holding the op id and the payload length;
  2. `receiveAll` of the payload;
  3. dispatch over op ids 0-8.

  A 0-byte header read or an unknown op id ends the session.
- **Op executor** (`serveOpen` ... `serveGetdirtree`). Each decodes its
  arguments and makes the local call. It then sends
  `[len, result, errno, data]`.
  - `serveGetdirtree` serialises the tree with `serializeTree`.

`interpose/mylib.c` is the checkpoint-1 interposition library. Each wrapped
call connects, sends the operation's *name* as text, closes, and then runs
the call locally. It does not speak the framed protocol the server reads.
`cp2/test2.c` is a test program that makes nine calls through it.

## Modules

| module | models | state | actions |
|---|---|---|---|
| `FileOps` | the nine `serveXxx` handlers and the dispatch chain (`Exec`) | a pure operator module | one operator per handler; each returns the new filesystem, descriptor table, errno, result, and whether the process crashed before replying |
| `RPCServer` | listener, handlers, connections, clients | `lpc lsess nproc backlog`: the listener; `fdt`: one descriptor table per process; `fs`, `errno`; `hpc hdr hgot`: the handlers; `wpos rpos fin replies`: the byte streams; `reqs cpc cfds`: the clients | `Accept Fork ForkFail CloseSess`; `ChildStart RecvHeader RecvHeaderEOF RecvPayload RecvPayloadAtEOF Dispatch DispatchUnknown`; `Connect SendRequest RecvReply RecvEOF CloseConn Crash CrashMidFrame`; `Quiescent` |
| `MC_RPCServer` | model values for TLC | paths `f` (a file) and `d` (a directory); bad descriptor `-10` (as in `test2.c`); the sets of operations each run uses; client symmetry | none |
| `RemoteFS` | what a session promises (spec.md 1-4) | `fs`; `files`: each session's opened files; `errno`; `up`: the session's server side runs; `cpc reqs replies`: the client; `pending`: the client's last request is whole and not yet run | `Connect Call Serve Reject Receive Hangup Refuse Close Die DieWriting End` |
| `Memory` | C memory: `malloc`, `memcpy`, little-endian integers, reading an `int` that holds stack garbage | operators only | none |
| `DirTree` | `serializaTreeNode`, `serializeTree` | `live parent nlen`: the directory tree under the path | `Mkdir Rmdir`; the serializer is the recursive operator `serializeTree`, with the reference `Preorder` |
| `ReplyFrame`, `MC_ReplyFrame` | the reply bytes of the nine handlers | `fs tbl errno` of one handler process, `ncalls`, `dead`, `sent`: the last call and the bytes sent for it | `Serve` |
| `ClientStub`, `MC_ClientStub` | `mylib.c` in `test2.c`, against the server's accept loop and `serve()` | `cenv senv`: the port variable on each side; `apc alive afs atbl aerrno ares`: the application; `lpc lsess nproc backlog`: the listener; `rpos hpc hdr fid bufSize hgot served`: one handler per connection | `Call SendToServerFails`; `Accept Fork ForkFail`; `RecvHeader RecvPayload Dispatch` |

### How the model follows the code

- **Descriptor tables.** Every process has its own table, and `fork` copies
  the parent's. A file entry keeps whether it was opened writable: a request
  with O_CREAT opens O_RDWR, one without opens O_RDONLY, and `write` on the
  latter (or on a directory) fails with EBADF. `open` and `accept` take the lowest free number. A descriptor
  number in a reply is therefore the handler's own number, as in the code.
- **Byte streams.** The client-to-server stream of a session is the sequence
  of frames the client wrote, with their real byte sizes (`FrameSize`). `wpos`
  counts the bytes written and `rpos` the bytes read.
- **Header reads.** `RecvHeader` takes one of the byte counts a single `recv`
  can return (`HeaderCounts`):
  - all 8 bytes, or what is there;
  - a cut at a point in `HeaderSplits`.

  `DecodedHeaders` gives what `op[0..7]` then means. Only a full header at a
  frame boundary decodes to the frame's op and length. Uninitialised or
  misaligned bytes decode to any value; `GarbageIds` and `GarbageLens` are the
  representatives checked.
- **Payload reads.** `RecvPayload` is one iteration of `receiveAll`'s loop. It
  takes `min(need, MAXMSGLEN, available)`. When the peer has closed,
  `RecvPayloadAtEOF` is the same iteration with `recv()==0`: it changes
  nothing, and the loop never ends.
- **Dispatch.** `Dispatch` runs the handler and appends the reply, unless the
  client has closed. When the handler crashes (getdirentries with `res = -1`
  given to `memcpy`), the child just ends. `DispatchUnknown` is the final
  `else`.
- **Clients.** The clients are modelled from `spec.md`, since the library in
  the repository does not use this protocol. A client is strictly serial: one
  request frame, then one reply. It may close, crash, or crash partway
  through a frame.
- **Data abstraction.** File contents, offsets, modes and byte counts are
  abstracted. Read, write, lseek and getdirentries return 0 on success.
  Errors use Linux errno numbers.

- **Reply bytes (`ReplyFrame`).** Each writer follows its handler's
  `memcpy` calls into a `Memory` block. A byte never written stays `Undef`,
  and the frame is the prefix passed to `send`. `ReplyAsSpecified` then reads
  the frame with the layout of spec.md 4.2.
- **Tree serializer (`DirTree`).** `serializeTree` is a `RECURSIVE`
  operator. The subdirectory loop is a `FoldLeft` of `AppendChild`. Every
  block records its capacity and whether a copy ran past it. Node names
  are only lengths: the copies depend on the count of bytes, not their values.
- **Library (`ClientStub`).** A wrapper is one step of the application,
  because test2 is single-threaded. That step is `sendToServer` plus the
  local call; the local call's effect uses `FileOps` on the application's
  own files. The server reads the name's ASCII bytes as a header. Bytes the
  `recv` did not fill are stack garbage, drawn from `GarbageBytes`.
  - `fID` is kept only as which of 0..8 it is, or `UnknownOp`.
  - `bufSize` is kept only up to the comparisons `receiveAll` makes:
    ≤ 0, a count the name can still fill, more than that (`Beyond`), or more
    than the stack holds (`StackRoom`). A VLA beyond the stack makes `recv`
    fail with `EFAULT`, and `err` ends the child.
- **Refinement.** `RPCServer` instantiates `RemoteFS` as follows:
  - `files` is the file and directory entries of each handler's table;
  - `up` is "the handler has not exited";
  - `pending` is "the last frame the client wrote is whole, and the
    handler has not yet read it all and gone back to the header"
    (`Pending`);
  - everything else is identical.

  A `Dispatch` step is a `Serve` step. A handler exit is `End` or, after a
  crash, a `Serve` that ends the session. A handler that exits on an unknown
  op id is `Reject`. When `fork` fails, the parent closes the connection
  under the client's first request: that is `Refuse`. A client killed
  between requests is `Die`; one killed inside a frame is `DieWriting`,
  or `Die` when the cut falls after the frame's last byte. The listener,
  framing and byte streams are stutters.

  `RefinesRemoteFS` is written `Init /\ [][UNCHANGED avars \/ Next]_avars`
  under the mapping. This means the same as `RemoteFS!Spec`, but TLC tries
  the cheap stuttering case first.

## Runs

| run | cfg | expect | what it shows |
|---|---|---|---|
| core_desc | `MC_core_desc.cfg` | pass | Two concurrent sessions doing open, close, read, write, lseek and getdirentries. Every reply answers its own request (`ReplyMatchesRequest`). A client's descriptors are exactly the files open in its handler (`FdViewMatches`). Only the handler, and the parent between accept and close, hold a connection (`ConnectionReleased`). The server implements `RemoteFS` (`RefinesRemoteFS`). |
| liveness | `MC_liveness.cfg` | pass | With clients that do not crash and operations whose failure paths reply, every request is answered (`RequestAnswered`). A closed session always ends (`SessionTerminates`). |
| faults | `MC_faults.cfg` | pass | Clients that die between requests or inside a payload, requests with an unknown op id, and more connections than process slots. The clients use open, unlink, stat and getdirtree on the shared filesystem. The server still implements `RemoteFS` (`RefinesRemoteFS`): a request is run at most once, and only when the client wrote it whole. |
| dirtree | `MC_dirtree.cfg` | pass | For every tree of up to 4 directories with 1- or 100-byte names, every copy stays inside its block (`CopiesInBounds`), although `size` is never updated. The output equals the spec's preorder serialization (`SerializedPreorder`). |
| replyframe | `MC_replyframe.cfg` | pass | Three calls of any of the nine operations. Every frame carries reply_len = bytes − 4, the result, tree_len, err_code and the extra bytes at the spec's offsets (`ReplyAsSpecified`). |
| library | `MC_library.cfg` | pass | test2.c under `mylib.c`. The application is never held up by the server (`AppNotBlocked`), although its handlers spin and the server dies once its 3 process slots are used. |
| header_desync | `MC_header_desync.cfg` | violation | A 4-byte header read loses frame alignment, so a reply answers bytes that are not the request. |
| midframe_spin | `MC_midframe_spin.cfg` | violation | A client dying inside a frame leaves `receiveAll` spinning forever. |
| dirent_crash | `MC_dirent_crash.cfg` | violation | `getdirentries(-10)` kills the handler, and the client never gets its -1/EBADF reply. |
| zombie_fork | `MC_zombie_fork.cfg` | violation | With unreaped children, `fork` fails while no handler is serving, and the server exits. |
| dirtree_longname | `MC_dirtree_longname.cfg` | violation | A directory with a 200-byte name and one subdirectory: `serializeTree` copies its 208-byte node record into the 200-byte buffer. |

The five violations are real defects of `server.c`. They are listed as
`findings` in `PROJECT.json` with their source lines.

Each property of a passing run has a mutant: a plausible bug in the mapped
code that the run must catch. The mutants are:

- `HeaderCounts_int`: a 4-byte header read;
- `serveOpen_swap`: errno is sent as the result;
- `Fork_noclose`: the parent keeps `sessfd`;
- `DispatchUnknown_no8`: op 8 is missing from the chain;
- `RecvHeaderEOF_loop`: a header EOF does not end the session;
- `ChildStart_keeplisten`: the child keeps `sockfd`, so its descriptor
  numbers are off by one;
- `AppendChild_double`: the buffer always doubles, even when the child
  does not fit;
- `AppendChild_nocopy`: the grown buffer does not get the bytes so far;
- `ReadReply_short`: the read reply announces the length without the data;
- `Accept_serial`: the parent waits for its child before accepting again;
- `RecvPayloadAtEOF_break`: a payload read at EOF counts the payload as
  complete, so a truncated request is run.

## Bounds

- **Two clients.** This is the smallest number at which sessions interleave
  and share the filesystem and the process table. Three clients did not
  finish in reasonable time.
- **Requests per session.**
  - Two in core_desc. That is enough for open then use/close, and for a
    second frame whose alignment depends on the first.
  - One in the liveness run.
  - Two in the faults run, so that a client can die after a request that
    was answered.
- **Crash points.** A client dies between frames, after the header, or one
  byte before the end of its frame. A cut inside the header is left to
  midframe_spin, because it decodes a garbage header (the header_desync
  defect).
- **`MaxFd = 7`.** This leaves room above stdio (0-2), the listening socket
  (3) and a session socket.
- **`MaxProcs`.** It is 2 where every session should get a handler, and 1
  where fork failure must be reachable.
- **Operations.** core_desc uses the descriptor operations. The path
  operations (open, stat, unlink, getdirtree) are checked against
  `RemoteFS` in the faults run, which is smaller. The refinement check
  triples the cost of a run, and both groups together would not finish in
  time.
- **`DirTree`: up to 4 directories, names of 1 or 100 bytes.** Two
  100-byte children outgrow the 200-byte buffer once, and a third grows
  it again from the stale `size`. The longname run uses 200-byte names on
  two nodes.
- **`ReplyFrame`: three calls, counts {0, 3}, a 9-byte tree.** This covers
  an empty and a non-empty data part, and errno left over from an earlier
  failed call.
- **`ClientStub`: test2's nine calls, 3 process slots, cut {2}, garbage
  bytes {0, 200}.** The choices are made so that every branch is reached:
  - 3 slots let the server die inside the sequence;
  - a 2-byte header read leaves both fields partly garbage;
  - 0 and 200 give a zero, a positive, a beyond-the-stack and a negative
    bufSize.
- **`HeaderSplits = {4}`.** This cut separates the op-id field from the
  length field. It is the one that produces a correct op with a garbage
  length.

## Fairness

`WF` is assumed on the listener and on each handler action. The kernel
schedules every server process, and none of these actions waits on anything
but its guard. Clients get no fairness: a client may stop at any point, as a
real one can. `RecvPayloadAtEOF` has no fairness because it is a stutter. The
spin it models is exactly what `midframe_spin` exposes.

In `ClientStub`, `WF` is assumed on the application (test2 as a whole)
and on the server's parent. Handlers get none, and `AppNotBlocked` holds
without them.

## Not modelled

- **Start-up failures** (`socket`, `bind`, `listen` in `main`): `Init` is
  the state after `listen` succeeded.
- **A failing `accept`** (`err(1, 0)` at server.c:469): the parent's table
  never fills (it closes every `sessfd`), so only transient errors such as
  a connection aborted in the queue remain. `Accept` always succeeds.
- **`send` results, SIGPIPE**: a reply is delivered whole, or discarded
  when the client has closed. The client is serial, so at most one `send`
  follows its close, and the first send to a closed peer succeeds. No
  signal handler is installed, so `send` is never cut short.
- **errno changed by `malloc`/`free`**: glibc leaves it alone on success.
- **File contents, offsets and modes**: contents and offsets are
  representatives, and of a mode only whether the file is writable is kept. The
  `basep` that `getdirentries` does not return is a hazard with no property.
- **The `freedirtree` wrapper** of `mylib.c`: no program of the
  repository calls it.
- **A well-formed write over 8 MiB**: the payload VLA overflows the stack.
  `NByte` keeps counts small, so this is a hazard with no property.
- **Refinement under misaligned frames**: it is not claimed where a
  header is read in pieces or cut inside. header_desync shows the server
  does not meet `RemoteFS` there. Under fork failure, the faults run shows
  it does, with one slot; zombie_fork shows the server exiting once
  unreaped children fill the table.
