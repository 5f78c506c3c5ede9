SPECIFICATION SendSpec
CHECK_DEADLOCK FALSE
CONSTANTS
  Tokens = {m1, m2}
  Threads = {w1, w2, w3}
  MaxTries = 2
  NoMail = NoMail
INVARIANTS
  TypeOK
  OneSender
  TruthTold
PROPERTIES
  DraftOutlivesDoubt
  SendEnds
