\* Every command, several sessions, a file with two unpushed changes.
CONSTANTS
  Keys <- MCKeys
  Urls = {"local", "cloud"}
  Conflicts = {c1}
  Leftover = 2
  MaxWrites = 4
SPECIFICATION Spec
INVARIANT TypeOK
PROPERTY DeletedStaysDeleted
