\* Two agents and finitely many failures, 207 included: every row is marked in the end.
CONSTANTS
  Agents = {ag1, ag2}
  Keys <- MCKeys
  Limit = 2
  MaxRows = 2
  MaxFailures = 2
  Faults = {"crash", "refuse", "disconnect", "markfails", "late", "partial"}
  Broken = {}
SPECIFICATION FairSpec
INVARIANT SyncedIsAnswered
PROPERTY EventuallySynced
