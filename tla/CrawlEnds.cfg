SPECIFICATION FairSpec
CONSTANTS
  crawl = crawl
  a = a
  b = b
  k = k
  NoRow = NoRow
  Crawl <- crawl
  Roots <- MCOneRoot
  Kids <- MCKids
  MaxStamp = 8
  Commands = {"cancel"}
  CrawlIsolation = FALSE
  Slots = 1
  MaxCommands = 1
  MaxDeaths = 1
PROPERTIES
  CancelEnds
  WorkEnds
