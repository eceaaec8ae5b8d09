\* A status that changes, failures, hanging writes, logins and restarts.
CONSTANTS
  MaxPending = 1
  MaxCalls = 2
  MaxEvents = 4
SPECIFICATION FairSpec
INVARIANTS TypeOK OneLoginAtATime
PROPERTIES LoginIsLeftByLogin StatusShownUnlessStuck ToastsEnd LoginEnds
\* The program may stop: its main thread stuck for good, every call waiting.
CHECK_DEADLOCK FALSE
