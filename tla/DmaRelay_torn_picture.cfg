SPECIFICATION Spec
CONSTANTS
  Clients = {c1, c2}
  Cap = 2
  Parts = 2
  StackLimit = 3
  Wrap = 4
SYMMETRY Alike
INVARIANT OnePictureWritten
CHECK_DEADLOCK FALSE
