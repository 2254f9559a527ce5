SPECIFICATION Spec
CONSTANTS
  crawl = crawl
  a = a
  b = b
  k = k
  NoRow = NoRow
  Crawl <- crawl
  Roots <- MCTwoRoots
  Kids <- MCNoKids
  MaxStamp = 8
  Commands = {"pause", "resume"}
  CrawlIsolation = FALSE
  Slots = 2
  MaxCommands = 2
  MaxDeaths = 1
INVARIANTS
  NeverForgotten
PROPERTIES
  OneAttempt
  NoWorkLost
