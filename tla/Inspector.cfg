SPECIFICATION Spec
CONSTANTS
  Users <- MCUsers
  NoUser = "none"
  ConfUser = "ann"
  Objects <- MCObjects
  MaxListings = 4
  MaxSwitches = 1
  Runs = {1, 2}
  Loads = {1, 2}
  Csvs <- MCCsvs
  ChunkSize = 3
  MaxPolls = 1
  ATHENA_FOLDERS = {"data"}
INVARIANTS
  TypeOK
  TreeIsTheUsers
  NarrowedToData
  RowsAreWhole
PROPERTY
  EveryRunEnds
CHECK_DEADLOCK FALSE
