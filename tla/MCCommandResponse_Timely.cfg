\* No symmetry: the run checks a liveness property.
SPECIFICATION FairTimely
CONSTANTS
  Endpoint = {e1}
  Cmd = {lock, unlock}
  Request = {r1, r2, r3}
  HandlerTimeout = 1
INVARIANT AnswerIsOwn
INVARIANT OneCommandPerTopic
PROPERTY ImplementsService
PROPERTY SentIsAnswered
