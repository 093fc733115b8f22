SPECIFICATION FairSpec
CONSTANTS
  Handle = {h1}
  MAX_BACKLOG = 2
  MaxChunk = 2
  MaxData = 5
CHECK_DEADLOCK FALSE
INVARIANTS TypeOK NoUseAfterFree InputInOrder WriteInOrder BacklogBound NoStall
PROPERTIES ImplementsStream FreeCompletes
