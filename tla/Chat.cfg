SPECIFICATION Spec
CONSTANTS
  Tabs = {t1}
  Now = now
  Worker = worker
  Window = 2
  MaxEvents = 3
  None = None
INVARIANTS
  TypeOK
  NoGap
  RungOnce
