\* One agent, no late request, no failed UPDATE: no stale overwrite, and what is
\* marked is what is oldest.
CONSTANTS
  Agents = {ag1}
  Keys <- MCKeys
  Limit = 3
  MaxRows = 5
  MaxFailures = 3
  Faults = {"crash", "refuse", "disconnect"}
  Broken = {}
SPECIFICATION Spec
INVARIANTS NoStaleOverwrite SyncedIsPrefix
