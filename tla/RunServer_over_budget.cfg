CONSTANTS
  r1 = r1
  r2 = r2
  r3 = r3
  r4 = r4
  w1 = w1
  w2 = w2
  c1 = c1
  Main = main
  Unset = unset
  Nothing = nothing
  Runs <- FourRuns
  Workers <- TwoWorkers
  Clients <- NoClients
  Cursors <- OneCursor
  Decisions <- OneDecision
  Costs <- Cents
  Cap = 4
  Shape <- ThreeNodes
  Batches <- OnlyOne
SPECIFICATION Spec
INVARIANT OverBudgetFails
CHECK_DEADLOCK FALSE
