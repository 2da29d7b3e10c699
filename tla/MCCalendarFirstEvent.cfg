SPECIFICATION Spec
CONSTANTS
  u1 = u1
  u2 = u2
  a1 = a1
  a2 = a2
  e1 = e1
  e2 = e2
  t1 = t1
  t2 = t2
  NoAccount = NoAccount
  NoKey = NoKey
  NoUser = NoUser
  NoEvent = NoEvent
  Users <- OneUser
  Accounts <- OneAccount
  Authorized <- OneAccount
  Events <- TwoEvents
  Linked <- TwoEvents
  Tasks <- OneTask
  Connects <- NoChannel
  Connected <- ConnectedUser
  PageSize = 2
  MaxChanges = 2
  MaxCrashes = 0
INVARIANT DeletedEventDeletesItem
CHECK_DEADLOCK FALSE
