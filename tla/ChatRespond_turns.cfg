CONSTANTS
  t1 = t1
  t2 = t2
  ch1 = ch1
  ch2 = ch2
  Turns <- TwoTurns
  Channels <- TwoChannels
  Placings <- SameOrNot
  MaxEvents <- TwoAndOne
  MaxFaults = 1
  MaxCrashes = 1
SPECIFICATION FairSpec
INVARIANT RepliesMatchTurns
INVARIANT StreamIsOrdered
INVARIANT SeqsAreDense
PROPERTY TurnsSettle
CHECK_DEADLOCK FALSE
