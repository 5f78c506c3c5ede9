SPECIFICATION Spec
CONSTANTS
  u1 = u1
  INBOX = INBOX
  Work = Work
  work = work
  NoTask = NoTask
  Accounts = {a1}
  Users = {u1}
  Owner <- MCOwner
  Folders = {INBOX, Work, work}
  FolderKeys = {INBOX, work}
  Lower <- MCLower
  Requesters = {r1, r2}
  Loop = loop
  MaxAttempt = 2
INVARIANTS
  TypeOK
  OneTaskPerKey
  PendingExact
PROPERTIES
  PendingEnds
  FailedIsRetried
  ImplementsJobs
