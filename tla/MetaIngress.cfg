CONSTANTS
  None = None
  m1 = m1
  m2 = m2
  m3 = m3
  m4 = m4
  c1 = c1
  c2 = c2
  r1 = r1
  r2 = r2
  r3 = r3
  a1 = a1
  Messages = {m1, m2, m3, m4}
  Conversations = {c1, c2}
  ConversationOf <- MCConversationOf
  PayloadOf <- MCPayloadOf
  Webhooks <- MCWebhooks
  Requests = {r1, r2, r3}
  HookOf <- MCSlots
  Attempts = {a1}
  MaxFailures = 1
SPECIFICATION FairSpec
INVARIANTS
  TypeOK
  AcknowledgedIsDurable
PROPERTIES
  RecordingIsAllOrNothing
  EventuallyAcknowledged
