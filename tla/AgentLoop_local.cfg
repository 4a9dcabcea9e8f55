\* Two loops whose ticks interleave with each other but not with themselves, over the
\* executor that runs claude on the server.
SPECIFICATION AgentSpec
CONSTANTS
  l1 = l1 l2 = l2 s1 = s1 s2 = s2 c1 = c1 c2 = c2 agentLoop = agentLoop digest = digest
  Unset = Unset None = None
  Loops = {l1, l2}
  Slots = {s1, s2}
  Cursors = {c1, c2}
  KnownFlows = {agentLoop, digest}
  AgentFlows = {agentLoop}
  LoopSpecs <- Mixed
  MaxNow = 0
  MaxCrashes = 1
  MaxStreak = 4
  Wirings = {"local"}
VIEW View
INVARIANTS CountIsStreak
PROPERTIES NoCommitIsLost ImplementsContract DearTurnPauses
