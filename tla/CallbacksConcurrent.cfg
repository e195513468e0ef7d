CONSTANTS
  None = None
  m1 = m1
  m2 = m2
  h1 = h1
  h2 = h2
  Messages = {m1}
  Handlers = {h1, h2}
  Webhooks <- MCOneMessage
  MaxCrashes = 0
SPECIFICATION Spec
PROPERTY CallbacksAdvance
CHECK_DEADLOCK FALSE
