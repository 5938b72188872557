SPECIFICATION FairSpec
CONSTANTS
  Workers = {w1, w2}
  Chain <- TwoProviders
  MaxRetries = 1
  Base = 1
  Factor = 2
  Longest = 3
  Rungs = 3
INVARIANTS Spared GivesUpLast
PROPERTY Reprobed
