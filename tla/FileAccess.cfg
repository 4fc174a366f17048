SPECIFICATION MCSpec
CHECK_DEADLOCK FALSE
CONSTANTS
  None = None
  Broken = Broken
  Bad = Bad
  Clients = {c1, c2}
  ShareProjects = {p1}
  Expiries = {1}
  Limits = {1}
  CacheSize = 1
  Slots = 2
  MaxId = 2
  MaxToken = 2
  MaxTime = 2
  Names = {d, x}
  Folders = {d}
  Moves = TRUE
  MaxFile = 3
  MaxNode = 3
  Debs = {1, 2}
  Archs = {"all", "amd64"}
  MaxMtime = 2
  PageClients = {y1}
  Dists = {d1, d2}
  PyNames = {n1, n2, n3}
  n3 = n3
  PyNorm <- MCNorm
  MaxProject = 2
  RuleFiles = {f1, f2}
  RuleFolders = {r1}
  Fields = {"category"}
  Metas <- MCMetas
  Rules <- MCRules
  Buffer = 1
  MaxCrash = 2
  Bytes = {0, 1, 57, 58, 255}
  MaxBytes = 3
  Keys = {"a", "b"}
  Values = {"1"}
  MaxLines = 5
  Chars = {"a", "A", "-", "_"}
  MaxName = 5
  MaxFrames = 2
  MaxPayload = 3
  Focus = {"share", "dav", "apt", "pypi", "rules", "base58", "control", "names", "logs"}
SYMMETRY Symmetry
INVARIANTS TokensServe  IndexesRight  LoopsRight
