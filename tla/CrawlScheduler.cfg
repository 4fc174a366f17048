SPECIFICATION FairSpec
CONSTANTS
  p1 = p1
  g1 = g1
  g2 = g2
  g3 = g3
  t1 = t1
  h1 = h1
  h2 = h2
  Projects = {p1}
  Goroutines = {g1, g2}
  Triggers = {t1}
  Handlers = {h1}
  Main = main
  FetchRetries = 1
  NoGoroutine = NoGoroutine
  NoOne = NoOne
  NoProject = NoProject
INVARIANTS NoLeakedLoop OneCrawlPerProject LogHolds
PROPERTIES StartReturns StoppedLoopEnds
