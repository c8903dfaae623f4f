------------------------------ MODULE DirTree ------------------------------
(***************************************************************************)
(* The directory-tree serializer of src/15440-p1/cp2/server.c             *)
(* (serializaTreeNode and serializeTree), which serveGetdirtree runs on    *)
(* the tree getdirtree(path) returns.                                      *)
(*                                                                         *)
(* The serializer is a recursive operator that follows the code copy by    *)
(* copy over the heap blocks of module Memory: every malloc is a block     *)
(* with its capacity, every memcpy writes bytes at an offset, recording    *)
(* whether it ran past the block's end.  It is compared with the preorder *)
(* format of spec.md 4.2.9 (Preorder, the reference).                      *)
(*                                                                         *)
(* The state is the directory tree under the requested path, changed by    *)
(* mkdir and rmdir, so that every tree up to MaxNodes directories is the   *)
(* input of the serializer in some reachable state.  Nodes are numbers;    *)
(* a node's name is NameLen bytes that all hold its number (the bytes'     *)
(* values do not matter to the copying, their count does).  Siblings are   *)
(* in increasing number, standing for the order readdir returned.         *)
(***************************************************************************)
EXTENDS Integers, Sequences, SequencesExt, Memory

CONSTANTS
  NameLens,   \* the name lengths a directory may have (strlen(t->name))
  MaxNodes    \* the most directories the tree holds

ASSUME NameLens \subseteq 1..4096 /\ MaxNodes \in Nat \ {0}

MAXMSGLEN == 200   \* the initial buffer of serializeTree
INT == 4           \* sizeof(int)
Root == 1
Nodes == 1..MaxNodes

VARIABLES
  live,     \* the directories that exist
  parent,   \* parent[v] for a live non-root v, 0 otherwise
  nlen      \* nlen[v]: the length of v's name, 0 when v does not exist

vars == <<live, parent, nlen>>

Kids(v) == SetToSortSeq({k \in live \ {Root} : parent[k] = v}, <)

\* The bytes of an int and of a name.
Int32(x) == LE(x, INT)
Name(v) == [i \in 1..nlen[v] |-> v]

(***************************************************************************)
(* serializaTreeNode: malloc(n + 8), then n, num_subdirs and the name.    *)
(* The result is the struct info {tmp, len}.                               *)
(***************************************************************************)
serializaTreeNode(v) ==
  LET n == nlen[v]
      buf == Put(Put(Put(Malloc(n + 2 * INT), 0, Int32(n)),
                     INT, Int32(Len(Kids(v)))),
                 2 * INT, Name(v))
  IN [tmp |-> buf, len |-> n + 2 * INT]

\* Mutant of AppendChild: the grown buffer is not filled with the bytes
\* serialized so far (memcpy(resize, buf, offset) missing).
AppendChild_nocopy(acc, t) ==
  LET need == acc.offset + t.len IN
  IF need > acc.size
  THEN LET resize == Malloc(IF need > 2 * acc.size THEN need + acc.size ELSE acc.size * 2)
       IN [buf    |-> Taint(Put(resize, acc.offset, Bytes(t.tmp, t.len)),
                            acc.buf.over \/ t.tmp.over),
           size   |-> acc.size,
           offset |-> need]
  ELSE [buf    |-> Taint(Put(acc.buf, acc.offset, Bytes(t.tmp, t.len)), t.tmp.over),
        size   |-> acc.size,
        offset |-> need]

\* Mutant of AppendChild: the buffer always grows to twice size, even when
\* the child does not fit in that.
AppendChild_double(acc, t) ==
  LET need == acc.offset + t.len IN
  IF need > acc.size
  THEN LET resize == Malloc(acc.size * 2)
           grown  == Put(Put(resize, 0, Bytes(acc.buf, acc.offset)),
                         acc.offset, Bytes(t.tmp, t.len))
       IN [buf    |-> Taint(grown, acc.buf.over \/ t.tmp.over),
           size   |-> acc.size,
           offset |-> need]
  ELSE [buf    |-> Taint(Put(acc.buf, acc.offset, Bytes(t.tmp, t.len)), t.tmp.over),
        size   |-> acc.size,
        offset |-> need]

(***************************************************************************)
(* One iteration of serializeTree's loop over the subdirectories: append  *)
(* the child's serialization t at offset, first moving the bytes to a new  *)
(* block when offset + t.len > size.  size is the local variable of the    *)
(* code: it stays MAXMSGLEN however far the buffer has grown.             *)
(***************************************************************************)
AppendChild(acc, t) ==
  LET need == acc.offset + t.len IN
  IF need > acc.size
  THEN LET resize == Malloc(IF need > 2 * acc.size THEN need + acc.size ELSE acc.size * 2)
           grown  == Put(Put(resize, 0, Bytes(acc.buf, acc.offset)),
                         acc.offset, Bytes(t.tmp, t.len))
       IN [buf    |-> Taint(grown, acc.buf.over \/ t.tmp.over),
           size   |-> acc.size,
           offset |-> need]
  ELSE [buf    |-> Taint(Put(acc.buf, acc.offset, Bytes(t.tmp, t.len)), t.tmp.over),
        size   |-> acc.size,
        offset |-> need]

(***************************************************************************)
(* serializeTree: a leaf is its node record; otherwise the node record is  *)
(* copied into a MAXMSGLEN buffer and each subtree, serialized             *)
(* recursively, is appended in order.                                      *)
(***************************************************************************)
RECURSIVE serializeTree(_)
serializeTree(v) ==
  IF Kids(v) = <<>>
  THEN serializaTreeNode(v)
  ELSE LET root  == serializaTreeNode(v)
           start == [buf    |-> Taint(Put(Malloc(MAXMSGLEN), 0, Bytes(root.tmp, root.len)),
                                      root.tmp.over),
                     size   |-> MAXMSGLEN,
                     offset |-> root.len]
           last  == FoldLeft(LAMBDA acc, c : AppendChild(acc, serializeTree(c)), start, Kids(v))
       IN [tmp |-> last.buf, len |-> last.offset]

\* The reference format (spec.md 4.2.9): name_len, num_children, name,
\* then every child in order, depth first.
RECURSIVE Preorder(_)
Preorder(v) ==
  Int32(nlen[v]) \o Int32(Len(Kids(v))) \o Name(v)
    \o FlattenSeq([i \in 1..Len(Kids(v)) |-> Preorder(Kids(v)[i])])
-----------------------------------------------------------------------------
(***************************************************************************)
(* The directory tree under the path: mkdir and rmdir of a subdirectory.  *)
(***************************************************************************)
TypeOK ==
  /\ Root \in live /\ live \subseteq Nodes
  /\ parent \in [Nodes -> 0..MaxNodes]
  /\ nlen \in [Nodes -> NameLens \cup {0}]
  /\ \A v \in live \ {Root} : parent[v] \in live /\ parent[v] < v

Init ==
  /\ live = {Root}
  /\ parent = [v \in Nodes |-> 0]
  /\ nlen \in {[v \in Nodes |-> IF v = Root THEN l ELSE 0] : l \in NameLens}

\* mkdir of a new subdirectory of p (numbered above p, so that numbers
\* stay a topological order of the tree).
Mkdir(p) ==
  /\ p \in live
  /\ \E v \in Nodes \ live, l \in NameLens :
       /\ v > p
       /\ live' = live \cup {v}
       /\ parent' = [parent EXCEPT ![v] = p]
       /\ nlen' = [nlen EXCEPT ![v] = l]

\* rmdir of an empty subdirectory.
Rmdir(v) ==
  /\ v \in live \ {Root} /\ Kids(v) = <<>>
  /\ live' = live \ {v}
  /\ parent' = [parent EXCEPT ![v] = 0]
  /\ nlen' = [nlen EXCEPT ![v] = 0]

Next == \E v \in Nodes : Mkdir(v) \/ Rmdir(v)

Spec == Init /\ [][Next]_vars
-----------------------------------------------------------------------------
\* Every memcpy of serializeTree and serializaTreeNode, at every level of
\* the recursion, stays inside the block malloc gave, although serializeTree
\* never updates size after growing its buffer.
CopiesInBounds == ~serializeTree(Root).tmp.over

\* The buffer and length serializeTree returns for the tree are exactly the
\* preorder serialization spec.md 4.2.9 defines, so a client that parses it
\* gets back the tree getdirtree returned (the spec's round-trip property).
SerializedPreorder ==
  LET s == serializeTree(Root) IN
  /\ s.len = Len(Preorder(Root))
  /\ Bytes(s.tmp, s.len) = Preorder(Root)
=============================================================================
