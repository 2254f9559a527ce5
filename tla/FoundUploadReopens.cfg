SPECIFICATION Spec
CONSTANTS
  crawl = crawl
  a = a
  b = b
  k = k
  NoRow = NoRow
  Crawl <- crawl
  Roots <- MCOneRoot
  Kids <- MCNoKids
  MaxStamp = 8
  Commands = {"upload", "snapshot_cancel"}
  CrawlIsolation = TRUE
  Slots = 1
  MaxCommands = 2
  MaxDeaths = 0
PROPERTIES
  FollowsDocument
