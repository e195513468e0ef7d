CONSTANTS
  None = None
  p1 = p1
  p2 = p2
  p3 = p3
  p4 = p4
  t1 = t1
  t10 = t10
  other = other
  Picks = {p1, p2, p3, p4}
  Surprise = {p2}
  Poisoned = {p2}
  Oversized = {p4}
  Tokens = {t1, t10, other}
  TokensOf <- MCTokensOf
  Within <- MCWithin
  LLMAnswers = {"ok", "invalid", "refused", "timeout", "connect", "http_400", "http_401", "http_429", "http_502", "out_of_bounds"}
  MaxAttempts = 2
  PromptLimit = 2
  FallbackLimit = 1
  Orders = {"o1", "o2"}
  OwnerOf <- MCOwnerOf
  WithCode = {"o1"}
  WithNote = {"o2"}
  Proofs = {"mine", "other"}
  LookupAttempts = 2
  Window = 2
  MaxTime = 5
  CaptionLimit = 1
  TextSizes = {0, 1, 2}
SPECIFICATION Spec
INVARIANT
  AnyOutputGivesAReply
