\* Pages of two over up to four rows, two of which may share a time.
SPECIFICATION Spec
CONSTANTS
  Ids = {1, 2, 3, 4}
  PageSize = 2
  MaxTime = 1
INVARIANTS TypeOK PagesContinue NothingMissed
PROPERTIES CursorPromises ReadingEnds
