SPECIFICATION FairFiles
CONSTANTS
  file = file
  other = other
  list = list
  lost = lost
  ping = ping
  dots = dots
  Request = {file, other, list, lost, ping, dots}
  Kind <- MCKind
  Size <- MCSize
  Entries <- MCEntries
  FILE_CHUNKSIZE = 2
  Alone = TRUE
  Split = FALSE
INVARIANTS
  FilesArriveWhole
PROPERTIES
  DownloadEnds
CHECK_DEADLOCK FALSE
