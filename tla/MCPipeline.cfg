SPECIFICATION FairSpec
CONSTANTS
  Requests = {q1, q2}
  Workloads <- MCWorkloads
  MaxBytes = 2
  MaxInt = 7
INVARIANTS
  ObserversAgree
  MetricsBalanced
  AnswersTagged
  PanicContained
  ScrapeCountsOnce
  ProtectedFailsClosed
  DetailsOnlyForInput
  BodiesJudged
  PagesSound
PROPERTIES
  LateHandlerHarmless
  Answered
CHECK_DEADLOCK FALSE
