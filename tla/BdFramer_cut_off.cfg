SPECIFICATION Spec
CONSTANTS
  Size = 7
  Compared = {1, 2}
  BufSize = 4
  MaxBytes = 14
  Signal <- Sentences
  SentenceLength = 3
  CutOff = 2
INVARIANT WholeFrameFound
CHECK_DEADLOCK FALSE
