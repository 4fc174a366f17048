SPECIFICATION MCSpec
CONSTANTS
  src = src
  dst = dst
  new = new
  old = old
  list = list
  base = base
  top = top
  cfg = cfg
  Registries = {src, dst}
  Source = src
  Target = dst
  Tags = {latest}
  Latest = latest
  Images = {new, old, list}
  Arm64 <- MCArm64
  LayersOf <- MCLayersOf
  ConfigOf <- MCConfigOf
  Stored <- MCStored
  Auth <- MCAuth
  Tasks = {1, 2}
  Admins = {a1}
  MaxSeals = 1
  Offline = TRUE
  None = None
  NoBody = NoBody
  Denied = Denied
  Keepers = {k1}
  Names = {latest, v1}
  Stable = latest
  Age <- MCAge
  Ancient = 4
  Policies <- MCPolicies
  Entries = {e1}
  Queue = queue
  Requests = {r1}
  NChunks = 3
  Inodes = {i1, i2}
  NoInode = NoInode
  NoEntry = NoEntry
  NoOne = NoOne
  Focus = {"sync", "retention", "iso"}
SYMMETRY Symmetry
INVARIANTS CopiesWhole  SelectionRight
PROPERTIES Lifecycle ReportedVerified
