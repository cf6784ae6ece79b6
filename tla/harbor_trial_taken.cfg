SPECIFICATION JobSpec
CONSTANTS
  Trials = {t1}
  MaxJobs = 1
INVARIANT NoTrialTaken
CHECK_DEADLOCK FALSE
