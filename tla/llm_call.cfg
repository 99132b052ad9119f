SPECIFICATION FairSpec
CONSTANTS
  LLM_MAX_RETRIES = 3
  SDK_RETRIES = 2
INVARIANTS RaisedForAReason JunkNeverFails RequestBudget
PROPERTIES CallEnds
