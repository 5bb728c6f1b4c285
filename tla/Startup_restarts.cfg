SPECIFICATION Spec
CONSTANT MaxBoots = 2
INVARIANTS
  TypeOK
  TaskReady
  OnlyPinPasses
PROPERTY
  StartupEnds
\* The program that has ended for the last time is not started again.
CHECK_DEADLOCK FALSE
