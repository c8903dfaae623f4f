\* A directory whose name is longer than MAXMSGLEN - 8 bytes and that has a
\* subdirectory.
CONSTANTS
  NameLens = {1, 200}
  MaxNodes = 2
SPECIFICATION Spec
INVARIANT CopiesInBounds
