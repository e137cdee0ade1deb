SPECIFICATION FairSpec
CONSTANTS
  None = None
  Unset = Unset
  Processes = {1, 2, 3, 4}
  Prefixes <- MCPrefixes
  BadNames = {}
  BadPaths = {".."}
  DefaultDoc <- MCDefaultDoc
  Web <- MCWeb
  SystemRoots <- MCSystemRoots
  Minted = 5
  Scenarios <- MCScenarios
CHECK_DEADLOCK FALSE
INVARIANTS
  TypeOK
  PairMatches
  RoundTrip
  KeysAgree
  InspectAgrees
PROPERTIES
  ServesWhole
  UserConfigKept
  CommandsReturn
