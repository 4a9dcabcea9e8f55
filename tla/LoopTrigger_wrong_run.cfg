\* One tick at a time, two loops that pause at their first failure.
SPECIFICATION FiringsSpec
CONSTANTS
  l1 = l1  l2 = l2  s1 = s1  s2 = s2  digest = digest
  Unset = Unset  None = None  BadExpr = BadExpr
  Loops = {l1, l2}
  ListOrder <- TwoLoops
  Slots = {s1}
  Cursors <- NoCursors
  KnownFlows = {digest}
  LoopSpecs <- OnlyInterval
  SpecsOf <- EachInterval
  MinuteMs = 2
  TickMs = 2
  MaxLate = 0
  ScanMinutes = 2
  MaxNow = 0
  MaxCrashes = 1
  MaxRequests = 3
INVARIANTS AnsweredWithOwnRun
