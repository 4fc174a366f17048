SPECIFICATION FairSpec
CONSTANTS
  e1 = e1
  Entries = {e1}
  Checksummed = {e1}
  Queue = queue
  Direct = {d1}
  Requests = {r1}
  MaxConcurrent = 1
  NChunks = 2
  Corrupts = FALSE
  Inodes = {i1, i2}
  NoInode = NoInode
  NoEntry = NoEntry
  NoOne = NoOne
INVARIANTS SlotsBounded FinalWhole
PROPERTIES PendingServed CancelStops
