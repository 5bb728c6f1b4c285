SPECIFICATION Spec
CONSTANTS
  N = 2
  Chan <- ReceiveFirst
  Callbacks = {f}
  Data = {d}
  Null = Null
  External = {}
  Pages = 3
  BufPages = 2
  Slack = 2
  MaxInits = 3
  MaxPending = 1
INVARIANTS
  TypeOK
  BufferHeld
  NothingUnderWay
\* The program has ended when an assertion or a set-up has failed.
CHECK_DEADLOCK FALSE
