CONSTANTS
  None = None
  m1 = m1
  m2 = m2
  c1 = c1
  w1 = w1
  w2 = w2
  t1 = t1
  t2 = t2
  Conversations = {c1}
  ConversationOf <- MCOneConversation
  Messages = {m1, m2}
  Workers = {w1, w2}
  HandoffMessages = {m2}
  Texts = {t1, t2}
  MaxAttempts = 1
  MaxCrashes = 0
  Callbacks = {}
SYMMETRY MCSymmetry
SPECIFICATION Spec
INVARIANTS
  PostedReplyIsStored
  LeaseProtectsHolder
  HandoffBeforeConfirmation
