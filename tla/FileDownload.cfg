SPECIFICATION FairSpec
CONSTANTS
  p1 = p1
  f1 = f1
  Files = {f1}
  Projects = {p1}
  Admins = {a1}
  Retrier = retrier
  ProjectOf <- MCProjectOf
  Kind <- MCKind
  SizeKnown = {f1}
  MaxConcurrent = 1
  MaxRetries = 2
  ListLimit = 1
  NChunks = 2
  Inodes = {i1, i2}
  NoInode = NoInode
  NoFile = NoFile
INVARIANTS  CompleteHasFile
PROPERTIES OrphansResolved 
