SPECIFICATION Spec
CONSTANTS
  crawl = crawl
  a = a
  b = b
  k = k
  NoRow = NoRow
  Crawl <- crawl
  Roots <- MCTwoRoots
  Kids <- MCNoKids
  MaxStamp = 8
  Commands = {}
  CrawlIsolation = TRUE
  Slots = 2
  MaxCommands = 0
  MaxDeaths = 1
PROPERTIES
  OneAttempt
