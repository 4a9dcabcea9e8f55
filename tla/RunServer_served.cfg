CONSTANTS
  r1 = r1
  r2 = r2
  r3 = r3
  r4 = r4
  w1 = w1
  w2 = w2
  c1 = c1
  Main = main
  Unset = unset
  Nothing = nothing
  Runs <- FourRuns
  Workers <- TwoWorkers
  Clients <- OneClient
  Cursors <- OneCursor
  Decisions <- OneDecision
  Costs <- Cents
  Cap = 2
  Shape <- Small
  Batches <- OneOrTwo
SPECIFICATION FairSpec
INVARIANT LogIsComplete
INVARIANT OverrunIsTold
INVARIANT GatesAreReachable
INVARIANT WatchersSeeTheLog
PROPERTY RunsEnd
CHECK_DEADLOCK FALSE
