SPECIFICATION FairSpec
CONSTANTS
  p1 = p1
  p2 = p2
  w1 = w1
  w2 = w2
  NotLoaded = NotLoaded
  Process = {p1, p2}
  Worker = {w1}
  Reopenable = {p1}
  Corrupt <- NothingCorrupt
  MaxAttempts = 2
  MaxVersion = 1
  MaxCrash = 0
  MaxRetry = 0
  MaxRequest = 0
  MaxRestart = 0
PROPERTY CurrentSettles
CHECK_DEADLOCK FALSE
