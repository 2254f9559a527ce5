SPECIFICATION FairSpec
CONSTANTS
  crawl = crawl
  a = a
  b = b
  k = k
  NoRow = NoRow
  Crawl <- crawl
  Roots <- MCOneRoot
  Kids <- MCKids
  MaxStamp = 8
  Commands = {"admin_pause", "admin_resume", "snapshot_pause", "snapshot_resume", "snapshot_cancel", "queue_for_extraction", "upload"}
  CrawlIsolation = TRUE
  Slots = 1
  MaxCommands = 2
  MaxDeaths = 0
INVARIANTS
  NeverForgotten
PROPERTIES
  SnapshotsEnd
