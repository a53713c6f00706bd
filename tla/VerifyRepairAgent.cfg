SPECIFICATION Spec
CONSTANTS
  None = None
  Top = 2
  Low = 1
  Floor = 2
  Answers <- EdgeAnswers
  MaxRetries = 2
  MaxTries = 1
  MaxRuns = 2
CHECK_DEADLOCK FALSE
INVARIANTS
  VerdictIsEarned
  OutcomeIsHonest
  DoubtIsAnnounced
PROPERTIES
  RunsEnd
