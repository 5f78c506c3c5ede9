SPECIFICATION Spec
CONSTANTS
  u1 = u1
  Users = {u1}
  Accounts = {a1, a2}
  Owner <- MCOwner
  Folders = {INBOX, Work}
  INBOX = INBOX
  Workers = {w1, w2}
  Threshold = 2
  MaxCalls = 4
  None = None
INVARIANTS
  TypeOK
  NoOrphanThread
PROPERTIES
  InboxWatched
  StoppedEnds
