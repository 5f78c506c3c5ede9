SPECIFICATION Spec
CONSTANTS
  Msgs = {m1}
  Workers = {w1, w2}
  MaxUid = 3
  MaxAsked = 2
  Inbox = Inbox
  Trash = Trash
  Deleted = Deleted
  Junk = Junk
  Archive = Archive
  Drafts = Drafts
  Others = {Work}
  Goals = {Work}
  Servers <- Some
  Guards = {Locked}
  None = None
SYMMETRY Alike
INVARIANTS NoLoss NoHidden
PROPERTY AutoOffConfirmed
CHECK_DEADLOCK FALSE
