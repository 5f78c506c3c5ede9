SPECIFICATION Spec
CONSTANTS
  Docs = {d1}
  Shares = {s1, s2}
  Folders = {f, g}
  Root = Root
  None = None
INVARIANTS
  TypeOK
  Recoverable
  NoShareOfTrash
PROPERTIES
  TrashSealed
SYMMETRY Symmetry
CONSTRAINT Undoubted
