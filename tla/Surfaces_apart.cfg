SPECIFICATION SurfacesSpec
CONSTANTS
  t1 = t1
  t2 = t2
  a1 = a1
  g1 = g1
  g2 = g2
  b1 = b1
  b2 = b2
  Ticks <- TwoTicks
  Bodies <- PostedBodies
  Replies <- PlannedBodies
  Proposals <- SomeProposals
  Hour = 60
  Absent = absent
  Missing = missing
  Readers <- OneReader
  Limits <- SomeLimits
  Unlimited = unlimited
  MaxLog = 3
  MaxTrace = 2
  Accounts <- TwoAccounts
  Handles <- ThreeHandles
  FirstLogins <- SomeLogins
  Browsers <- TwoBrowsers
  Home = "home"
  ProjectNames <- TwoNames
  Nobody = nobody
  MaxSignIns = 2
  MaxRenames = 2
  MaxProjects = 2
  MaxSessions = 1
  MaxTears = 1
  Exprs <- MixedExprs
  Froms <- FromMinutes
  HourLen = 3
  DayLen = 2
  Calendar <- SixYears
  Ranges <- FieldLimits
  MaxScan = 18
  Fallback = absent
  Lines <- SomeLines
  MaxLines = 3
  Killed = killed
INVARIANT ParsingIsFaithful
INVARIANT NextIsFirst
INVARIANT ChunkingIsInvisible
INVARIANT VerdictIsSound
INVARIANT DaemonAgrees
INVARIANT RunsWhatItReports
INVARIANT SessionLoopsAreSound
INVARIANT FeedHasNoGap
INVARIANT WorkspaceIsFoundAgain
PROPERTY SignInsAreAnswered
CHECK_DEADLOCK FALSE
