\* One daemon whose reconnect reaches the server before the end of its old socket.
SPECIFICATION FairSpec
CONSTANTS
  u1 = u1  u2 = u2  d1 = d1  d2 = d2  c1 = c1  c2 = c2  t1 = t1  t2 = t2
  None = None
  Users = {u1}
  Daemons = {d1}
  UserOf <- OneDaemon
  Socks = {c1, c2}
  Turns = {t1}
  MaxEvents = 0
CHECK_DEADLOCK FALSE
PROPERTIES DispatchSettles
