SPECIFICATION FolderSpec
CONSTANTS
  MaxUid = 1
  MaxEpoch = 2
  Seen = seen
  Flags = {seen}
  Markable = {seen}
  CacheMax = 1
  PageSize = 1
  ChunkSize = 1
  Refused = {}
  None = None
PROPERTIES
  Converges
