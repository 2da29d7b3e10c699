SPECIFICATION Spec
CONSTANTS
  u1 = u1
  u2 = u2
  a1 = a1
  a2 = a2
  e1 = e1
  e2 = e2
  t1 = t1
  t2 = t2
  NoAccount = NoAccount
  NoKey = NoKey
  NoUser = NoUser
  NoEvent = NoEvent
  Users <- TwoUsers
  Accounts <- OneAccount
  Authorized <- OneAccount
  Events <- OneEvent
  Linked <- OneEvent
  Tasks <- TwoTasks
  Connects <- NoChannel
  Connected <- ConnectedUsers
  PageSize = 2
  MaxChanges = 1
  MaxCrashes = 0
INVARIANT OwnCredentials
CHECK_DEADLOCK FALSE
