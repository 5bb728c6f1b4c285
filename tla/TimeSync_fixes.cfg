SPECIFICATION Spec
CONSTANTS
  Times <- Nights
  Zone = 28800
INVARIANTS
  TypeOK
  OneTimeCommitted
  LateByZone
  MixBounded
  WholeDaysBehind
PROPERTY
  NeverFarBack
\* The receiver's time ends with the last of Times, sentences do not.
