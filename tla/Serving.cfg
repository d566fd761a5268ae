SPECIFICATION FairSpec
CONSTANTS
  talks = talks
  greets = greets
  silent = silent
  Client = {talks, greets, silent}
  NoOne = NoOne
  Slots = 2
  Leaver = {greets, silent}
  Deaf = {greets}
  SOCKBUF = 3
  Stream <- MCStream
  BUFSIZE = 2
  WBUFSIZE = 3
  ReplyLen = 2
  Encrypted = {talks}
  ACCEPTING_TIMEOUT = 1
  Horizon = 3
INVARIANTS
  MessagesAreFramed
  RepliesAreWhole
  RefsCounted
PROPERTIES
  DrainedInFull
  ShutdownEnds
  SlotIsFreed
CHECK_DEADLOCK FALSE
