SPECIFICATION Spec
CONSTANTS
  ConfigFiles <- MCConfigFiles
  GameFiles <- MCGameFiles
  Unreadable <- MCUnreadable
  NotJson <- MCNotJson
  PortWidth = 3
  Json <- MCJson
  Depth <- MCDepth
  IndexName <- MCIndexName
  Paths <- MCPaths
  IntWidth = 5
INVARIANTS
  ServesWhatIsConfigured
  ValidationIsExact
  ParsedFaithfully
