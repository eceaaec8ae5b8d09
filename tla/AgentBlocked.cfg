\* One service refuses everything, the other accepts everything.
CONSTANTS
  Agents = {ag1}
  Keys <- MCKeys
  Limit = 2
  MaxRows = 3
  MaxFailures = 0
  Faults = {}
  Broken = {"cmms"}
SPECIFICATION FairSpec
PROPERTY AcceptedIsMarked
