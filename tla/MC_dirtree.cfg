\* Every tree of up to four directories with names of 1 or 100 bytes: big
\* enough for serializeTree to grow its buffer once and then past twice size.
CONSTANTS
  NameLens = {1, 100}
  MaxNodes = 4
SPECIFICATION Spec
INVARIANT CopiesInBounds
INVARIANT SerializedPreorder
