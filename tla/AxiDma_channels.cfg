SPECIFICATION Spec
CONSTANTS
  N = 3
  Chan <- Sparse
  Callbacks = {f}
  Data = {d}
  Null = Null
  External = {b}
  Pages = 1
  Slack = 1
  MaxInits = 3
  MaxPending = 1
INVARIANTS
  TypeOK
  ArraysExact
  CallbackRight
  RequestsLegal
  SafeIfQuiet
  DeviceClosed
\* The program has ended when an assertion has failed.
CHECK_DEADLOCK FALSE
