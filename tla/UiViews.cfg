\* Every view, two writes, errors of any command.  MaxCalls is more than MaxEvents, so
\* that there is always room for an answer's load.
CONSTANTS
  Views = {"workorders", "assets", "helpdesk", "conflicts", "settings"}
  Ids = {r1, r2}
  Stored = {r1}
  Text <- MCText
  StoredText <- MCStoredText
  Statuses = {"pending", "completed"}
  MaxCalls = 3
  MaxEvents = 2
SPECIFICATION FairSpec
INVARIANTS TypeOK RequiredFilled ToldIsDone ChangesConfirmed
PROPERTIES FreshUnlessStuck RowsSpec
