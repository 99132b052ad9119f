SPECIFICATION FairSpec
CONSTANTS
  MaxRuns = 4
  Engines = {"postgres", "sqlite"}
  Scenarios <- SomeScenarios
INVARIANTS TypeOK RerunAddsNothing Complete ThreadsStayInFirm TwiceOnlyByOverlap AloneSucceeds
PROPERTIES EveryRunEnds
CHECK_DEADLOCK FALSE
