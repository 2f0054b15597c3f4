CONSTANTS
  Setters = {s1, s2}
  Loggers = {g1, g2}
  Configs = {c1}
  Data = {d1}
  NoData = NoData
  NoConfig = NoConfig
  NoThread = NoThread
SPECIFICATION FairSpec
INVARIANTS
  NoStaleUserData
  HalvesAgree
  LevelWasMet
  NobodyIsStuck
PROPERTIES
  ImplementsRoute
  SetReturns
  RecordsEnd
