SPECIFICATION WatchedSpec
CONSTANTS
  SlotsPerBlock = 8
  MetaBlock = 0
  SbFirst = 7
  SbEnd = 8
  PathOrder <- FourPaths
  NoCtx = NoCtx
  NoBytes = NoBytes
  Junk = Junk
  Keep = Keep
  Images <- AllImages
  Hosts <- RegularHosts
  Perms = {"p1"}
  Contexts = {"c1"}
  Compress = {"packed"}
  ActionBound <- LongRuns
PROPERTIES
  ImplementsImageEdit
CHECK_DEADLOCK FALSE
