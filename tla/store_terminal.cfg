SPECIFICATION Spec
CONSTANTS
  d1 = d1
  d2 = d2
  o1 = o1
  o2 = o2
  e1 = e1
  e2 = e2
  i1 = i1
  i2 = i2
  n1 = n1
  n2 = n2
  None = None
  Detectors <- OneDetector
  Operators <- TwoOperators
  Events <- OneEvent
  Notifiable <- OneEvent
  Incidents <- TwoIds
  Notifications <- TwoRows
  MaxAborts = 0
  Enabled = TRUE
  Mode = "resend"
  Configured = TRUE
SYMMETRY Symmetry
PROPERTY TerminalIsFinal
