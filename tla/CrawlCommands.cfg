SPECIFICATION FairSpec
CONSTANTS
  crawl = crawl
  a = a
  b = b
  k = k
  NoRow = NoRow
  Crawl <- crawl
  Roots <- MCOneRoot
  Kids <- MCKids
  MaxStamp = 8
  Commands = {"pause", "resume", "cancel", "snapshot_cancel", "upload"}
  CrawlIsolation = TRUE
  Slots = 1
  MaxCommands = 2
  MaxDeaths = 0
INVARIANTS
  TypeOK
PROPERTIES
  UserDecides
  FollowsDiagram
  PauseEnds
