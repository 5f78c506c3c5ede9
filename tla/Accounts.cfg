SPECIFICATION Spec
CONSTANTS
  None = None
  Browsers = {b1}
  Desks = {d1, d2}
  MaxPw = 2
  MaxAsked = 2
  MaxMet = 1
  MaxKept = 1
SYMMETRY MCSymmetry
INVARIANTS
  KeysOpen
  LiveIsServed
CHECK_DEADLOCK FALSE
