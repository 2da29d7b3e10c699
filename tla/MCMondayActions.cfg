SPECIFICATION Spec
CONSTANTS
  r1 = r1
  r2 = r2
  Rows = {r1, r2}
  Slots = {s1, s2}
  CopySlot = s1
  PageOf <- MCPageOf
  Pages = 2
  Runs = {a1, a2}
  Tries = 2
  MaxChanges = 1
  MaxFaults = 2
  NoRow = NoRow
  NoRun = NoRun
  NoValue = NoValue
  Scheduled <- MCScheduled
  DailyRuns = {d1, d2}
  DailyTries = 2
  MaxDay = 1
  MaxItems = 6
  MaxHangUps = 2
  MaxRestarts = 1
  NoDaily = NoDaily
  u1 = u1
  u2 = u2
  People = {u1, u2}
  Items = {i1}
  Requests <- MCRequests
  Times <- MCTimes
  LinkTries = 2
  MaxEvents = 2
  NoOne = NoOne
  NoItem = NoItem
INVARIANTS
  ActionsTypeOK
  AnsweredRunLeavesRowsCurrent
  OneTaskPerRun
  TaskNamesOneDay
  LeftoversExplained
  LinkNamesEventOfItem
  EventIsOfItsUser
  DeletedItemHadCancelledEvent
PROPERTIES
  NoMutationAfterAnswer
  RowsImplementDerivedColumn
CHECK_DEADLOCK FALSE
