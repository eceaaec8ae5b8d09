\* Commands, supervisor, crashes and exits together.
CONSTANTS
  Keys <- MCKeys
  Urls = {"local"}
  Conflicts = {}
  Leftover = 0
  MaxWrites = 2
  Procs = {p1, p2, p3, p4}
  MaxFaults = 2
SPECIFICATION FairSpec
PROPERTIES SupervisorSpec DbSpec AgentComesBackUnlessStuck
\* The application may stop for good: both threads stuck, no exit left.
CHECK_DEADLOCK FALSE
