SPECIFICATION Spec
CONSTANTS
  Contents <- MCContents
  MaxLines = 3
  MaxRead = 2
INVARIANT NothingLost
INVARIANT AnswerSeparated
INVARIANT SavedIsAnswer
CHECK_DEADLOCK FALSE
