\* Two overlapping ticks of one loop that may commit different cursors, a repost with
\* another spec, a crash.
SPECIFICATION FairSpec
CONSTANTS
  l1 = l1  s1 = s1  s2 = s2  c1 = c1  c2 = c2  digest = digest
  Unset = Unset  None = None
  Loops = {l1}
  Slots = {s1, s2}
  Cursors = {c1, c2}
  KnownFlows = {digest}
  LoopSpecs <- KnownOrNot
  MaxNow = 1
  MaxCrashes = 1
VIEW View
INVARIANTS TypeOK RunningBelowThreshold ReasonExplainsPause PausedIsTold
PROPERTIES OnlyResumeUnpauses CursorMovesByCompletion PausedLoopFallsQuiet
