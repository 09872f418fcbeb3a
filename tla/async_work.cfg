\* Two requests, three records and one background thread.
SPECIFICATION FairSpec
CONSTANTS
  Request = {r1, r2}
  Record = {w1, w2, w3}
  Threads = 1
  None = None
INVARIANTS
  RequestRetained
  NoRecordLost
PROPERTIES
  ImplementsRequests
  EveryCompletionComes
