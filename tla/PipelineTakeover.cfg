CONSTANTS
  None = None
  m1 = m1
  m2 = m2
  c1 = c1
  w1 = w1
  w2 = w2
  t1 = t1
  t2 = t2
  Conversations = {c1}
  ConversationOf <- MCOneConversation
  Messages = {m1}
  Workers = {w1, w2}
  HandoffMessages = {}
  Texts = {t1}
  MaxAttempts = 2
  MaxCrashes = 1
  Callbacks = {"delivered", "failed"}
SPECIFICATION FairSpec
INVARIANTS
  TypeOK
  AtMostOnePost
  CompletedWasAcknowledged
  RetryBudget
PROPERTIES
  SettledIsFinal
  EveryMessageSettles
  ImplementsReplyOnce
