SPECIFICATION FairSpec
CONSTANTS
  Task = {a, b}
  MaxDt = 2
  MaxLag = 1
  None = None
INVARIANTS
  RequestInOnePlace
  NoSignalMeansExpired
  DeviceIsAlert
PROPERTY WaitTimeReturns
