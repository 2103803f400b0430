SPECIFICATION Spec
CONSTANTS
  Targets = {"chrome", "safari"}
  Profile <- Browsers
  Values = {"off", "on"}
  Unset = "unset"
  Default = "off"
  Versions = {"1.1", "2", "TLSv1.0", "TLSv1.2"}
  BaseLists <- OwnBase
  NoAgent = "none"
  NoTarget = "none"
  Mixed = "mixed"
  Blank = "blank"
  FirefoxAgents <- Firefoxes
  NoName = "no name"
  AgentPrefixes <- AgentNames
  Before <- None
  After <- SetAfter
  OwnHttpVersions = {"off", "1.1"}
  OwnSslVersions = {"TLSv1.2"}
  HeaderLists <- OwnHeadersAtOnce
  SpecialLists <- OwnSpecial
  UserAgents = {"Own"}
  EnvTarget = "safari"
  EnvHeaders = FALSE
INVARIANTS
  TypeOK
  ProfileIsWhole
  ApplicationHeadersWin
  NoForeignHeader
PROPERTIES
  OwnVersionsStay
  DuplicateSendsTheSame
