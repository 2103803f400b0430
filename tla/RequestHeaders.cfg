SPECIFICATION Spec
CONSTANTS
  Bases <- BaseLists
  Owns <- OwnLists
  UserAgents = {"none", "Firefox"}
  Orders <- NameOrders
  NoOrder = NoOrder
  Malformed = "malformed"
  Freed = Freed
  NoAgent = "none"
  Blank = "blank"
  FirefoxAgents <- Firefoxes
  NoName = "no name"
  AgentPrefixes <- AgentNames
INVARIANTS
  TypeOK
  MergeIsAsDefined
  OrderIsStableSort
PROPERTIES
  EveryRequestIsBuilt
CHECK_DEADLOCK FALSE
