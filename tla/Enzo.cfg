SPECIFICATION FairSpec
CONSTANTS
  N = 3
  Retries = 2
INVARIANTS BarrierHolds NobodyLeftBehind BucketReleased
PROPERTIES ImplementsWorkflowObject EndsAfterSignal
