SPECIFICATION Spec
CONSTANTS
  frame = frame
  photo = photo
  None = None
  Files <- TwoFiles
  EdgeFiles <- OneFrame
  DefaultDays = 1
  Days <- Long
  MaxDay = 1
  MaxRegisters = 1
  MaxPolicies = 1
  MaxFaults = 0
PROPERTY TermsAreKept
CHECK_DEADLOCK FALSE
