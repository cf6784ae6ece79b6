SPECIFICATION HarborSpec
CONSTANTS
  Nodes = {n1, n2}
  Requests = {r1, r2}
  MaxConns = 3
  Nobody = Nobody
  Trials = {t1, t2}
  MaxJobs = 2
INVARIANT PendingIsOpen
INVARIANT AnswerOnSameConnection
INVARIANT LastConnectorWins
INVARIANT RelayStopped
PROPERTY EveryRequestEnds
PROPERTY OnlyTermTakes
CHECK_DEADLOCK FALSE
