SPECIFICATION FairSpec
CONSTANTS
  u1 = u1
  u2 = u2
  a1 = a1
  a2 = a2
  e1 = e1
  e2 = e2
  t1 = t1
  t2 = t2
  NoAccount = NoAccount
  NoKey = NoKey
  NoUser = NoUser
  NoEvent = NoEvent
  Users <- OneUser
  Accounts <- OneAccount
  Authorized <- OneAccount
  Events <- OneEvent
  Linked <- OneEvent
  Tasks <- TwoTasks
  Connects <- SecondChannel
  Connected <- ConnectedUser
  PageSize = 2
  MaxChanges = 2
  MaxCrashes = 0
INVARIANTS
  TypeOK
  SyncTokenCoversFetched
  OnlyCancelledItemsDeleted
  HandledDeletionsPropagate
PROPERTIES
  SyncTokenMovesBackOnlyByOverlap
  NotifiedChangeIsFetched
CHECK_DEADLOCK FALSE
