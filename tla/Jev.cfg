\* Answers at the two bars and below, missing ones included; totals that agree, lie
\* apart by just the delta (both ways float64 may round it), or by more; and a
\* service that may stay silent.
SPECIFICATION FairSpec
CONSTANTS
  Probabilities = {0, 50, 60}
  Totals = {1000, 1005, 1010}
  UnevenPairs <- MCUnevenPairs
  MaxRetries = 3
  Nothing = Nothing
INVARIANTS
  TypeOK
  RetryBound
  ExplainsVerdict
PROPERTIES
  RepeatsOnlyLost
  EvaluateReturns
