SPECIFICATION Spec
CONSTANTS
  Size = 5
  Compared = {1, 2}
  BufSize = 4
  MaxBytes = 8
  Signal <- AnyLine
  SentenceLength = 3
  CutOff = 0
INVARIANTS
  TypeOK
  UnreadIsStream
  FrameExact
  ComparesOwn
PROPERTIES
  FindProgress
  FeedsSentences
\* The line may stay silent for ever, and an undefined step ends the model.
CHECK_DEADLOCK FALSE
