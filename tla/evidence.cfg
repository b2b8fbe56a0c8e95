SPECIFICATION FairSpec
CONSTANTS
  frame = frame
  photo = photo
  None = None
  Files <- TwoFiles
  EdgeFiles <- OneFrame
  DefaultDays = 1
  Days <- ShortAndLong
  MaxDay = 1
  MaxRegisters = 2
  MaxPolicies = 1
  MaxFaults = 1
INVARIANT PurgedIsGone
INVARIANT PurgedIsAudited
PROPERTY PurgesAreDue
PROPERTY ObjectsOfLiveRowsStay
PROPERTY DeadLinksAreStale
PROPERTY ExpiredGoes
CHECK_DEADLOCK FALSE
