SPECIFICATION Spec
CONSTANTS
  da = da
  db = db
  dc = dc
  f1 = f1
  f2 = f2
  Dirs = {da, db}
  Home = da
  Files = {f1}
  Tracked = {f1}
  EmptyTargets = FALSE
  Tasks = {t1}
  NChunks = 2
  Inodes = {i1, i2}
  DbFails = FALSE
  LookupFails = FALSE
  Place <- MCPlace
  NoInode = NoInode
  NoFile = NoFile
INVARIANT NothingLost
