SPECIFICATION ServingSpec
CONSTANTS
  t1 = t1
  t2 = t2
  t3 = t3
  t4 = t4
  N = 2
  Trajectories = {t1, t2, t3, t4}
  Task <- MCSharedTask
  NoKey = NoKey
  Streaming = {t1, t3}
  MaxSteps = 2
  Servers = {0, 1}
  Ports = {8000, 8001}
  Offset = 500
  Grouped = {TRUE, FALSE}
  MaxPolls = 2
  Slots = 1
  Requests = {r1, r2}
  MaxSaves = 2
  MaxJobs = 2
  Other = Other
  None = None
  MaxVersion = 4
  MaxRuns = 3
  Absent = Absent
  Torn = Torn
INVARIANT ExactCounts
INVARIANT ConversationStays
INVARIANT LiveHealthIsOwn
INVARIANT OnPolicy
PROPERTY StartEnds
PROPERTY NothingDurableLost
CHECK_DEADLOCK FALSE
