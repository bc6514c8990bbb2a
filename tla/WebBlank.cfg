SPECIFICATION Spec
CONSTANTS
  Requests <- LoginRequests
  BufLen = 7
  FieldCap = 2
  MaxLen = 2
  Cuts = {0, 690}
  MaxFaults = 1
PROPERTY DisabledByBlankForm
