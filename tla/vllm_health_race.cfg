SPECIFICATION Spec
CONSTANTS
  Servers = {0, 1}
  Ports = {8000, 8001}
  Offset = 500
  Grouped = {TRUE, FALSE}
  MaxPolls = 2
  Slots = 1
  Requests = {r1}
  MaxSaves = 1
  MaxJobs = 1
  Other = Other
  None = None
INVARIANT HealthyIsOwn
CHECK_DEADLOCK FALSE
