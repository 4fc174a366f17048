SPECIFICATION FairSpec
CONSTANTS
  da = da
  db = db
  dc = dc
  f1 = f1
  f2 = f2
  Dirs = {da, db, dc}
  Home = da
  Files = {f1, f2}
  Tracked = {f1}
  EmptyTargets = TRUE
  Tasks = {t1}
  NChunks = 2
  Inodes = {i1, i2, i3, i4, i5}
  DbFails = TRUE
  LookupFails = FALSE
  Place <- MCPlace
  NoInode = NoInode
  NoFile = NoFile
INVARIANT FilesKept
PROPERTIES CompletedMoved 
CHECK_DEADLOCK FALSE
