SPECIFICATION FolderSpec
CONSTANTS
  MaxUid = 2
  MaxEpoch = 2
  Seen = seen
  Flags = {seen}
  Markable = {}
  CacheMax = 1
  PageSize = 2
  ChunkSize = 1
  Refused = {}
  None = None
INVARIANTS
  FolderTypeOK
  NoGap
  OneEpoch
PROPERTIES
  RowsStay
