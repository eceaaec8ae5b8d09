\* One login, and room for one more event.
CONSTANTS
  MaxPending = 0
  MaxCalls = 1
  MaxEvents = 2
SPECIFICATION FairSpec
PROPERTY DashboardAfterLogin
\* The program may stop: its main thread stuck for good, every call waiting.
CHECK_DEADLOCK FALSE
