SPECIFICATION Spec
CHECK_DEADLOCK FALSE
CONSTANTS
  None = None
  Bad = Bad
  Short = Short
  Corrupt = Corrupt
  Admins = {a1}
  Jobs = {j1}
  ScriptNames = {n}
  Schedules = {s1, Bad}
  Paths = {p}
  MaxScript = 1
  MaxRun = 2
  MaxBoot = 2
  SecretNames = {GITEE_TOKEN, NPM_TOKEN, PATH}
  Reserved = {PATH}
  Values = {v1, v2}
  MaxKey = 2
  Retention = 1
  MaxTxn = 2
  MaxBackup = 2
  MaxFile = 3
  MaxExit = 2
  Migrations = 2
  p1 = p1
  p2 = p2
  d2 = d2
  DirFiles = {f}
  MaxStart = 3
  Passwords = {1, 2}
  Admin = 1
  Percents = {90, 95, 101}
  Clients = {c1, c2, c3}
  MaxAttempts = 2
  Window = 1
  Lockout = 2
  MaxIPs = 2
  MaxClock = 5
  SessionTime = 3
  MaxTime = 3
  MaxSecret = 2
  MaxTokens = 1
  NoHost = NoHost
  Defaults = {d}
  OsTypes = {"rockylinux"}
  Variants = {v, NoHost}
  TemplateNames = {n}
  MaxRow = 2
  Containers = {k1, k2}
  Images = {i1}
  Numbers = {0, 1, 2, 100}
  Kilo = 4
  IntMax = 127
  Total = 20
  MinMemory = 2
  MaxPid = 2
  Focus = {"backup"}
INVARIANTS RestoredExactly
