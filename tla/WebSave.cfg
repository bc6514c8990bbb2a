SPECIFICATION FairSpec
CONSTANTS
  Requests <- SaveRequests
  BufLen = 6
  FieldCap = 1
  MaxLen = 2
  Cuts = {0, 20, 60, 150, 168, 512, 660, 690}
  MaxFaults = 1
INVARIANT RamIsFlash
INVARIANT WholeFormSaved
PROPERTY ImplementsStore
PROPERTY NoWayIn
PROPERTY StationAfterSave
PROPERTY Answered
PROPERTY OwnerGetsIn
