SPECIFICATION FairSpec
CONSTANTS
  s1 = s1
  s2 = s2
  r1 = r1
  a = a
  n1 = n1
  t1 = t1
  t2 = t2
  t3 = t3
  None = None
  Schedulers <- TwoSchedulers
  Runners <- OneRunner
  Organizations <- OneOrganization
  Notifications <- OneRow
  OrgOf <- RowsOfA
  Tokens <- ThreeTokens
  Channels <- Both
  Environments <- Sending
  PingResults <- AnyPing
  MaxFaults = 1
  MaxLapses = 1
INVARIANT MutualExclusion
INVARIANT DuplicatesAreAccounted
INVARIANT SentWasHanded
PROPERTY QueueDrains
