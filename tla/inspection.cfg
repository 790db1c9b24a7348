SPECIFICATION Spec
CONSTANTS
  Name = {1, 2, 3}
  Worlds <- MCWorlds
  Target = 1
  Path <- MCPath
  ImageTree <- MCImageTree
  NewFile <- MCNewFile
  Volume <- MCVolume
  NoContainer = NoContainer
  MaxContainers = 2
  MaxVolumes = 2
  MaxLookup = 6
  MaxEvents = 1
  Manifest <- MCManifest
  RawPath <- MCRawPath
  ByteLimit = {0, 2, 4}
  MaxEntries = 1
  TagValue = {"old", "new"}
  NoPath <- MCNoPath
INVARIANTS
  AsksInsideWhitelist
  ReadIsExact
  CutIsTold
  ProjectReportTrue
PROPERTIES
  EveryCallEnds
