\* One node publishes two files, which do not fit together on one node.
SPECIFICATION Spec
CONSTANTS
  ann = ann
  bob = bob
  cid = cid
  short = short
  long = long
  NoFile = NoFile
  File = {short, long}
  Node = {ann, bob}
  Prev <- MCPrev
  Size <- MCSize
  PeerStorage = 4
  TargetMin = 3
  TargetMax = 4
  Band = 1
  Author <- MCAuthor
  Quota <- MCQuota
  MinPeers = 1
  MaxEffort = 2
INVARIANTS
  TypeOK
  
  

  
CHECK_DEADLOCK FALSE
