\* Tasks and retries deliver the notices of an exchange claim.
SPECIFICATION Spec
CONSTANTS
  w1 = w1
  w2 = w2
  w3 = w3
  Type = "exchange"
  Workers = {w1, w2, w3}
SYMMETRY WorkerSymmetry
CHECK_DEADLOCK FALSE
INVARIANTS FinalHasRow SentMeansTold
PROPERTY SettledIsFinal
