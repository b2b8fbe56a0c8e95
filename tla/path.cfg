SPECIFICATION FairSpec
CONSTANTS
  e1 = e1
  e2 = e2
  t1 = t1
  t2 = t2
  i1 = i1
  i2 = i2
  n1 = n1
  n2 = n2
  Nothing = Nothing
  Events <- OneEvent
  Notifiable <- OneEvent
  Handlers <- TwoHandlers
  Incidents <- TwoIds
  Notifications <- TwoRows
  MaxAttempts = 3
  MaxFailures = 2
  MaxCrashes = 1
  MaxDiskErrors = 1
  MaxAborts = 1
PROPERTY ImplementsDelivery
PROPERTY AlertQueued
PROPERTY QueueEmpties
