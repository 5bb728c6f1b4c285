SPECIFICATION Spec
CONSTANTS
  Times <- Nights
  Zone = 0
INVARIANT ReceiversTimeCommitted
