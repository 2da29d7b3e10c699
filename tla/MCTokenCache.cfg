SPECIFICATION FairSpec
CONSTANTS
  a1 = a1
  a2 = a2
  m1 = m1
  m2 = m2
  c1 = c1
  c2 = c2
  NoToken = NoToken
  NoAccount = NoAccount
  Accounts <- MCAccounts
  Tokens <- MCTokens
  Calls <- MCCalls
  TTL = 1
  MaxWrites = 2
  MaxCrashes = 1
INVARIANTS
  TypeOK
  CoherentUnlessDisturbed
  ServedTokenWasHeld
PROPERTY EventuallyCoherent
CHECK_DEADLOCK FALSE
