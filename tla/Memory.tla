------------------------------ MODULE Memory ------------------------------
(***************************************************************************)
(* The C memory operations the server's marshalling code is built from:   *)
(* malloc (or a stack array) gives a block of indeterminate bytes, memcpy  *)
(* writes bytes at an offset, and integers are copied as their             *)
(* little-endian two's-complement bytes (x86-64, spec.md 6).  A block      *)
(* records its capacity and whether any write ran past it.                 *)
(***************************************************************************)
EXTENDS Integers, Sequences

\* A byte nobody wrote: indeterminate heap or stack contents.
Undef == -1

\* The w bytes of integer x, least significant first, in two's complement.
RECURSIVE LE(_, _)
LE(x, w) == IF w = 0 THEN <<>> ELSE <<x % 256>> \o LE(x \div 256, w - 1)

Malloc(n) == [data |-> <<>>, cap |-> n, over |-> FALSE]

\* memcpy(blk + off, src, Len(src)); bytes between the old end and off stay
\* indeterminate.
Put(blk, off, src) ==
  LET hi == IF off + Len(src) > Len(blk.data) THEN off + Len(src) ELSE Len(blk.data) IN
  [data |-> [i \in 1..hi |-> CASE i > off /\ i <= off + Len(src) -> src[i - off]
                               [] i <= Len(blk.data)             -> blk.data[i]
                               [] OTHER                          -> Undef],
   cap  |-> blk.cap,
   over |-> blk.over \/ off + Len(src) > blk.cap]

\* The first k bytes of a block, as a memcpy or send that reads them sees them.
Bytes(blk, k) == [i \in 1..k |-> IF i <= Len(blk.data) THEN blk.data[i] ELSE Undef]

\* The k bytes at offset off of a byte sequence (a field as a reader sees it).
Field(s, off, k) == [i \in 1..k |-> IF off + i <= Len(s) THEN s[off + i] ELSE Undef]

\* A block that inherits the overflow of the blocks its bytes came from.
Taint(blk, b) == [blk EXCEPT !.over = @ \/ b]

\* The int32 values *(int*)p can give for the 4 bytes b, an indeterminate
\* byte holding any of the values in garbage (two's complement, x86-64).
Int32Values(b, garbage) ==
  {LET v == [i \in 1..4 |-> IF b[i] = Undef THEN g[i] ELSE b[i]]
   IN v[1] + 256 * v[2] + 65536 * v[3] + 16777216 * (IF v[4] >= 128 THEN v[4] - 256 ELSE v[4])
   : g \in [1..4 -> garbage]}
=============================================================================
