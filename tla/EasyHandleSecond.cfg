SPECIFICATION Spec
CONSTANTS
  Targets = {"chrome", "safari"}
  Profile <- Browsers
  Values = {"off", "on"}
  Unset = "unset"
  Default = "off"
  Versions = {"1.1", "2", "TLSv1.0", "TLSv1.2"}
  BaseLists <- OwnBase
  NoAgent = "none"
  NoTarget = "none"
  Mixed = "mixed"
  Blank = "blank"
  FirefoxAgents <- Firefoxes
  NoName = "no name"
  AgentPrefixes <- AgentNames
  Before <- SetBefore
  After <- SetAfter
  OwnHttpVersions = {"off", "1.1"}
  OwnSslVersions = {"off", "TLSv1.2"}
  HeaderLists <- NoLists
  SpecialLists <- NoLists
  UserAgents = {}
  EnvTarget = "none"
  EnvHeaders = TRUE
PROPERTIES
  SslVersionOfProfile
CHECK_DEADLOCK FALSE
