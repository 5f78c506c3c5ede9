SPECIFICATION Spec
CONSTANTS
  Uids = {c1, c2}
  Mails = {m1}
  Threads = {t1, t2}
  MaxBegun = 5
  MaxTexts = 4
  None = None
SYMMETRY Symmetry
INVARIANTS
  InStep
PROPERTIES
  EditsSeen
  
CHECK_DEADLOCK FALSE
