SPECIFICATION Spec
CONSTANTS
  r1 = r1
  k1 = k1
  v1 = v1
  NoKey = NoKey
  None = None
  Requests <- MCRequests
  Values <- MCValues
  Questions <- MCQuestions
  Keys <- MCKeys
  MaxTokens = 1
  MaxCalls = 2
  MaxUpsets = 2
INVARIANTS
  OneOutcome
  RequestOnce
  AnswerComplete
  HandledOnce
CHECK_DEADLOCK FALSE
