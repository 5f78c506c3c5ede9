SPECIFICATION Spec
CONSTANTS
  Cals = {home, other}
  Home = home
  Uids = {e1}
  Threads = {t1, t2}
  Worker = worker
  MaxBegun = 4
  MaxTexts = 2
  None = None
SYMMETRY Symmetry
INVARIANTS
  SyncMirrors
  NeverNowhere
  PushedOnce
CHECK_DEADLOCK FALSE
