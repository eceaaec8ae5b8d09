\* A fresh install and one write.
CONSTANTS
  Keys <- MCKeys
  Urls = {"local"}
  Conflicts = {}
  Leftover = 0
  MaxWrites = 1
SPECIFICATION FairSpec
PROPERTY EveryWriteRecorded
