SPECIFICATION Spec
CONSTANTS
  crawl = crawl
  a = a
  b = b
  k = k
  NoRow = NoRow
  Crawl <- crawl
  Roots <- MCOneRoot
  Kids <- MCNoKids
  MaxStamp = 8
  Commands = {"queue_for_extraction"}
  CrawlIsolation = TRUE
  Slots = 1
  MaxCommands = 1
  MaxDeaths = 0
PROPERTIES
  NoWorkLost
