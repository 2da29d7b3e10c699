SPECIFICATION Spec
CONSTANTS
  u1 = u1
  u2 = u2
  a1 = a1
  a2 = a2
  e1 = e1
  e2 = e2
  t1 = t1
  t2 = t2
  NoAccount = NoAccount
  NoKey = NoKey
  NoUser = NoUser
  NoEvent = NoEvent
  Users <- OneUser
  Accounts <- TwoAccounts
  Authorized <- OneAccount
  Events <- TwoEvents
  Linked <- TwoEvents
  Tasks <- TwoTasks
  Connects <- SecondAccount
  Connected <- ConnectedUser
  PageSize = 1
  MaxChanges = 2
  MaxCrashes = 1
INVARIANTS
  SyncTokenCoversFetched
  OnlyCancelledItemsDeleted
  HandledDeletionsPropagate
PROPERTIES
  SyncTokenMovesBackOnlyByOverlap
CHECK_DEADLOCK FALSE
