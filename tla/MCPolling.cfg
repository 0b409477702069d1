SPECIFICATION Spec
CONSTANTS
  TotalS = 22
  TailS = 2
  Initial <- MCInitial
  Interval = 2
  MaxInterval = 4
  Grace <- MCGrace
  Ceiling <- MCCeiling
  MaxRefresh = 2
  Age <- MCAge
  Flight = 2
  Late = 1
  MaxTime = 25
INVARIANTS
  FirstQuestionIsAsked
  NothingFinishedInTimeIsMissed
  LagIsForgiven
  WaitsAreBounded
PROPERTIES
  QuestionsStopAtTheCeiling
\* One call is made and ends: the system stops.
CHECK_DEADLOCK FALSE
