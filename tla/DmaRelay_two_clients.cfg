SPECIFICATION Spec
CONSTANTS
  Clients = {c1, c2}
  Cap = 2
  Parts = 2
  StackLimit = 4
  Wrap = 4
INVARIANTS
  TypeOK
  SendNeverBlocks
  ConnNumAccurate
  OnePictureEach
PROPERTIES
  ReceptionGoesOn
  FeedsPictures
\* Once the stack has run out nothing moves.
CHECK_DEADLOCK FALSE
