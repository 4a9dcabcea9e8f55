\* One loop over the daemon of its owner: what its runs cost is never charged.
SPECIFICATION AgentSpec
CONSTANTS
  l1 = l1  l2 = l2  s1 = s1  s2 = s2  c1 = c1  c2 = c2  agentLoop = agentLoop  digest = digest
  Unset = Unset  None = None
  Loops = {l1}
  Slots = {s1}
  Cursors = {}
  KnownFlows = {agentLoop}
  AgentFlows = {agentLoop}
  LoopSpecs <- TwoOrDefault
  MaxNow = 0
  MaxCrashes = 1
  MaxStreak = 4
  Wirings = {"daemon"}
PROPERTY DearTurnPauses
