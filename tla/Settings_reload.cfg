SPECIFICATION Spec
CONSTANTS
  Edits <- Written
  Example <- First
  MaxEdits = 2
  MaxBoots = 3
INVARIANTS
  TypeOK
  NilOnlyIfMissing
  Settled
  ServesWhole
PROPERTY
  EditsFollowed
\* The program may have panicked, and the file not be edited any more.
CHECK_DEADLOCK FALSE
