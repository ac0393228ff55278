SPECIFICATION FairSpec
CONSTANTS
  Clients = {c1}
  NoClient = NoClient
  MaxRequests = 2
  MaxCommands = 1
INVARIANTS NoRequestAfterStop ExitSavesEverything
PROPERTY QuitEnds
