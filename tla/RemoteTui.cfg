SPECIFICATION FairSpec
CONSTANTS
  h1 = h1
  h2 = h2
  Hosts <- TwoHosts
  Requests <- OneRequest
  Entries <- SomeEntries
  MaxPage = 2
  MaxHosts = 2
  MaxPages = 2
INVARIANTS
  TypeOK
  FittingListIsReturned
  ConnectsToTheRightHost
  TuiWithinSession
PROPERTY EveryLaunchSettles
CHECK_DEADLOCK FALSE
