CONSTANTS
  None = None
  m1 = m1
  m2 = m2
  h1 = h1
  h2 = h2
  Messages = {m1, m2}
  Handlers = {h1, h2}
  Webhooks <- MCBatch
  MaxCrashes = 1
SPECIFICATION FairSpec
INVARIANTS
  TypeOK
  AnsweredMeansAudited
  StateIsAudited
  OutcomeEmittedOnce
  SingleOutcome
PROPERTIES
  FreshCallbacksAdvance
  WebhookEventuallyAnswered
CHECK_DEADLOCK FALSE
