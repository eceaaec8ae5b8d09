\* A service may answer 207.
CONSTANTS
  Agents = {ag1}
  Keys <- MCKeys
  Limit = 2
  MaxRows = 3
  MaxFailures = 1
  Faults = {"partial"}
  Broken = {}
SPECIFICATION Spec
INVARIANT SyncedIsDelivered
