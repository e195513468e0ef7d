CONSTANTS
  None = None
  m1 = m1
  m2 = m2
  m3 = m3
  m4 = m4
  c1 = c1
  c2 = c2
  Messages = {m1, m2, m3, m4}
  w1 = w1
  w2 = w2
  w3 = w3
  Posts = {w1, w2, w3}
  IdOf <- MCIdOf
  ScopeOf <- MCScopeOf
  Conversations = {c1, c2}
  ConversationOf <- MCConversationOf
  HandoffPosts = {w1}
  Workers = {h1, h2}
  Texts = {t1, t2}
  MaxStops = 1
  Sessions = {s1, s2}
  a1 = a1
  a2 = a2
  a3 = a3
  a4 = a4
  Actions = {a1, a2, a3, a4}
  PayloadOf <- MCPayloadOf
  Getters = {g1}
  Scopes = {k1, k2}
  Calls = {q1, q2}
  Picks = {p1, p2}
  WithImage = {p1}
  Corruptible = {k1}
SYMMETRY MCSymmetry
SPECIFICATION Spec
INVARIANTS
  TypeOK
  AnswersAreTheStoredReply
  TurnsDoNotOverlap
  ConfirmedHandoffIsDurable
  OneOpenHandoff
  NeedsHumanIffOpen
  ConsumedOnce
  PhotoIsOfTheActivePick
PROPERTY ReplayNeverRecomposes
