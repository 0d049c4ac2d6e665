\* Two users, one of whom asks; two requests, the second recovering from the
\* first; one trouble at any moment of either.
SPECIFICATION Spec
CONSTANTS
  Alphabet <- MCAlphabet
  EMBEDDED <- MCEmbedded
  NEWEST <- MCNewest
  Base <- MCBase
  Users <- MCUsers
  Histories <- MCHistories
  Drifts <- MCDrifts
  MaxTroubles = 1
CHECK_DEADLOCK FALSE
INVARIANTS
  DryRunIsExact
