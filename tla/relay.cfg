SPECIFICATION FairSpec
CONSTANTS
  p1 = p1
  p2 = p2
  w1 = w1
  w2 = w2
  NotLoaded = NotLoaded
  Process = {p1}
  Worker = {w1, w2}
  Reopenable = {p1}
  Corrupt <- SecondCorrupt
  MaxAttempts = 4
  MaxVersion = 2
  MaxCrash = 2
  MaxRetry = 2
  MaxRequest = 1
  MaxRestart = 1
INVARIANTS TypeOK MirrorsOutbox ExactUnlessInDoubt ExhaustionSignalled OnlyCurrentIsSent
CHECK_DEADLOCK FALSE
PROPERTY SettlesUnlessBlocked
