SPECIFICATION ImportSpec
CONSTANTS
  m1 = m1
  m2 = m2
  m3 = m3
  junk = junk
  a = a
  b = b
  Msgs = {m1, m2, m3, junk}
  Unwanted = {junk}
  Mailbox <- MCMailbox
  Files <- MCFiles
  PageSize = 2
  MaxRuns = 3
  MaxBreaks = 1
  Absent = Absent
INVARIANTS
  OneCopy
  Complete
