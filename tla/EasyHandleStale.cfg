SPECIFICATION Spec
CONSTANTS
  Targets = {"chrome", "safari"}
  Profile <- Browsers
  Values = {"off", "on"}
  Unset = "unset"
  Default = "off"
  Versions = {"1.1", "2", "TLSv1.0", "TLSv1.2"}
  BaseLists <- OwnBase
  NoAgent = "none"
  NoTarget = "none"
  Mixed = "mixed"
  Blank = "blank"
  FirefoxAgents <- Firefoxes
  NoName = "no name"
  AgentPrefixes <- AgentNames
  Before <- None
  After <- None
  OwnHttpVersions = {}
  OwnSslVersions = {}
  HeaderLists <- OwnHeaders
  SpecialLists <- OwnSpecial
  UserAgents = {"Own"}
  EnvTarget = "none"
  EnvHeaders = TRUE
INVARIANTS
  LaterSettingsOverride
CHECK_DEADLOCK FALSE
