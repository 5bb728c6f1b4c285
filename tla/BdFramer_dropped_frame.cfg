SPECIFICATION Spec
CONSTANTS
  Size = 7
  Compared = {1, 2}
  BufSize = 4
  MaxBytes = 14
  Signal <- Sentences
  SentenceLength = 3
  CutOff = 0
INVARIANT FrameExtracted
CHECK_DEADLOCK FALSE
