SPECIFICATION Spec
CONSTANTS
  f1 = f1
  f2 = f2
  f3 = f3
  A = A
  B = B
  Accounts = {A, B}
  Flows = {f1, f2, f3}
  AccountOf <- MCAccountOf
  Callbacks = {c1, c2}
  MaxOAuthRestarts = 1
  NoFlow = NoFlow
  NoToken = NoToken
  EventTypes = {"delete_calendar_event", "create_calendar_event"}
  SubscriptionIds = {i1}
  WebhookIds = {i1, i2}
  i1 = i1
  StorageKeys <- MCStorageKeys
  MaxCalls = 3
  MaxCallRestarts = 1
  NoKey = NoKey
  Plain = {q1}
INVARIANTS
  EndpointsTypeOK
  TokenOfAnsweredCallback
  NotAskedAgain
  RecordsOfLatestCalls
PROPERTIES
  SentBackUserGetsToken
CHECK_DEADLOCK FALSE
