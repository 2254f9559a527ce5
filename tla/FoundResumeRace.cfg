SPECIFICATION FairSpec
CONSTANTS
  crawl = crawl
  a = a
  b = b
  k = k
  NoRow = NoRow
  Crawl <- crawl
  Roots <- MCOneRoot
  Kids <- MCNoKids
  MaxStamp = 8
  Commands = {"pause", "resume"}
  CrawlIsolation = TRUE
  Slots = 1
  MaxCommands = 2
  MaxDeaths = 0
PROPERTIES
  ResumeReaches
