CONSTANTS
  MaxRuns = 2
  MaxProjects = 2
  MaxRetained = 1
  MaxRounds = 2
  Cap = 1
  Costs <- OneOrTwo
SPECIFICATION FairSpec
INVARIANTS RunsAreBounded RecordIsTrue
PROPERTIES StopsAreFinal RunsEnd
CHECK_DEADLOCK FALSE
