\* Two loops, the first of them malformed or an interval; a timer whose period and
\* lateness are together a minute, started at any phase of it, or three requests.
SPECIFICATION FiringsSpec
CONSTANTS
  l1 = l1 l2 = l2 s1 = s1 s2 = s2 digest = digest
  Unset = Unset None = None BadExpr = BadExpr
  Loops = {l1, l2}
  ListOrder <- TwoLoops
  Slots = {s1, s2}
  Cursors <- NoCursors
  KnownFlows = {digest}
  LoopSpecs <- MixedSpecs
  SpecsOf <- BadFirst
  MinuteMs = 3
  TickMs = 2
  MaxLate = 1
  ScanMinutes = 2
  MaxNow = 6
  MaxCrashes = 1
  MaxRequests = 3
SYMMETRY Symmetric
VIEW View
INVARIANTS NextFireIsDue AnswersInOrder WaitingMatchesTicks
PROPERTIES CronFiresInItsMinute
