SPECIFICATION Spec
CONSTANTS
  d1 = d1
  d2 = d2
  o1 = o1
  o2 = o2
  e1 = e1
  e2 = e2
  i1 = i1
  i2 = i2
  n1 = n1
  n2 = n2
  None = None
  Detectors <- TwoDetectors
  Operators <- OneOperator
  Events <- TwoEvents
  Notifiable <- OneEvent
  Incidents <- TwoIds
  Notifications <- TwoRows
  MaxAborts = 1
  Enabled = TRUE
  Mode = "resend"
  Configured = TRUE
SYMMETRY Symmetry
INVARIANT RepliesAgree
INVARIANT NotifiedOnceAfterAudit
INVARIANT GapsAreDeaths
INVARIANT RowCoherent
PROPERTY ImplementsLifecycle
