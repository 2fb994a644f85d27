\* One file, read by the application's loader and passed on by the operator.
CONSTANTS
  MaxInFile = 2
  MaxInEnvironment = 0
  MaxEdits = 0
SPECIFICATION OneFileSpec
CHECK_DEADLOCK FALSE
INVARIANT RunsAsDocumented
