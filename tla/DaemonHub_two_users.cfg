\* Two users with a daemon each, two sockets, two turns.
SPECIFICATION FairSpec
CONSTANTS
  u1 = u1 u2 = u2 d1 = d1 d2 = d2 c1 = c1 c2 = c2 t1 = t1 t2 = t2
  None = None
  Users = {u1, u2}
  Daemons = {d1, d2}
  UserOf <- DaemonEach
  Socks = {c1, c2}
  Turns = {t1, t2}
  MaxEvents = 1
CHECK_DEADLOCK FALSE
INVARIANTS TypeOK PendingHasDaemon OutcomeIsTheRuns 
PROPERTIES NoEventAfterSettling StaleCloseIsHarmless SettlesWhenOrderly
